----------------------------- MODULE RtlService -----------------------------
(***************************************************************************)
(* What the Objective 1 workbench is promised of its hardware: a device    *)
(* that several callers share.  A request takes effect at one instant      *)
(* between the moment it is asked and the moment it is answered, and the   *)
(* answer is what the device said at that instant.  A request that is      *)
(* refused had no effect.  The device may start afresh while nobody asks.  *)
(*                                                                         *)
(* SimulatorBridge implements it with a pipe, a lock and a worker process; *)
(* StudioApp uses it.                                                      *)
(***************************************************************************)
CONSTANTS
    Caller,
    Request,
    DeviceReset,        \* the device's initial state
    Effect(_, _),       \* the device after a request
    Answer(_, _),       \* what it answers to a request, given its state after it
    NoReply, ErrorReply

VARIABLES
    device,
    phase,              \* idle, asked or served, for every caller
    request,
    reply

serviceVars == <<device, phase, request, reply>>

ServiceInit ==
    /\ device = DeviceReset
    /\ phase = [c \in Caller |-> "idle"]
    /\ request \in [Caller -> Request]
    /\ reply = [c \in Caller |-> NoReply]

Ask(c, q) ==
    /\ phase[c] = "idle"
    /\ phase' = [phase EXCEPT ![c] = "asked"]
    /\ request' = [request EXCEPT ![c] = q]
    /\ reply' = [reply EXCEPT ![c] = NoReply]
    /\ UNCHANGED device

\* The request takes effect, with its answer.
Serve(c) ==
    /\ phase[c] = "asked"
    /\ phase' = [phase EXCEPT ![c] = "served"]
    /\ device' = Effect(device, request[c])
    /\ reply' = [reply EXCEPT ![c] = Answer(device', request[c])]
    /\ UNCHANGED request

\* An error is answered, and the request never takes effect.
Refuse(c) ==
    /\ phase[c] = "asked"
    /\ phase' = [phase EXCEPT ![c] = "idle"]
    /\ reply' = [reply EXCEPT ![c] = ErrorReply]
    /\ UNCHANGED <<device, request>>

Conclude(c) ==
    /\ phase[c] = "served"
    /\ phase' = [phase EXCEPT ![c] = "idle"]
    /\ UNCHANGED <<device, request, reply>>

Restart ==
    /\ \A c \in Caller : phase[c] = "idle"
    /\ device' = DeviceReset
    /\ UNCHANGED <<phase, request, reply>>

Attend(c) == Serve(c) \/ Refuse(c) \/ Conclude(c)

ServiceNext ==
    \/ Restart
    \/ \E c \in Caller : Attend(c) \/ \E q \in Request : Ask(c, q)

ServiceSpec == ServiceInit /\ [][ServiceNext]_serviceVars
=============================================================================
