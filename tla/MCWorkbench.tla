---------------------------- MODULE MCWorkbench -----------------------------
(***************************************************************************)
(* WorkbenchApp for TLC: two scenarios, one that traps and halts within a  *)
(* run and one that does not halt, and an editor that starts out empty.    *)
(* The one stores a hint before it traps, the other sets up a trap vector  *)
(* and then stores a hint.                                                 *)
(***************************************************************************)
EXTENDS WorkbenchApp

CONSTANTS s1, s2

MCLength == [p \in Program |-> CASE p = s1 -> 2 [] p = s2 -> 9 [] OTHER -> 0]
MCTraps  == {<<s1, 1>>}

MCStores ==
    [at \in {<<s1, 0>>, <<s2, 0>>, <<s2, 1>>} |->
        IF at = <<s2, 0>> THEN [reg |-> "TRAP_VECTOR", value |-> 192]
        ELSE [reg |-> "SCHED_HINT", value |-> 2]]
=============================================================================
