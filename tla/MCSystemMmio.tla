---------------------------- MODULE MCSystemMmio ----------------------------
(***************************************************************************)
(* SystemMmioTrace for TLC: the writes that change a sticky record, each   *)
(* with or without a violation, in every order for MaxCycles cycles.       *)
(***************************************************************************)
EXTENDS SystemMmioTrace

MCRegisterNames ==
    <<"SEC_STATUS", "TRAP_CONTROL", "TRAP_STATUS", "TRAP_EPC", "TRAP_RETURN",
      "CURRENT_CONTEXT">>

MCRegisterAt ==
    [a \in {128 + 4 * k : k \in 0 .. 5} |-> MCRegisterNames[((a - 128) \div 4) + 1]]

\* The properties of this run do not involve the ALU.
MCLogicAlu(fn, a, b) == 0

Write(name, data) ==
    [read |-> FALSE, write |-> TRUE, width |-> 4, data |-> data,
     address |-> CHOOSE a \in DOMAIN MCRegisterAt : MCRegisterAt[a] = name]

MCRequests ==
    {Idle, Write("SEC_STATUS", 1), Write("TRAP_CONTROL", 1), Write("TRAP_STATUS", 2),
     Write("TRAP_EPC", 103), Write("TRAP_RETURN", 1)}

\* Violations of different cycles differ in all they say.
MCEventAt(k) ==
    [valid |-> TRUE, pc |-> 4 * (k + 1), address |-> 16 + k, accessType |-> k % 4,
     reason |-> (k % 6) + 1, context |-> 32 + k]
=============================================================================
