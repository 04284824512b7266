------------------------------- MODULE LabPage -------------------------------
(***************************************************************************)
(* What the lab pages of both front ends have in common.  A lab is a React *)
(* component: opening it mounts it with its initial state, and the state   *)
(* of the lab that is left is gone.  So one variable holds the state of    *)
(* the lab on screen, a record with the name of the lab and its hooks.     *)
(***************************************************************************)
EXTENDS Naturals

VARIABLE page

On(lab) == page.lab = lab

\* A setter of a useState hook.
Set(hook, value) == page' = [page EXCEPT ![hook] = value]

\* A control that picks one of a fixed list.
Pick(lab, hook, choices) ==
    On(lab) /\ \E choice \in choices \ {page[hook]} : Set(hook, choice)
=============================================================================
