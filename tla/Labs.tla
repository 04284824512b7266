-------------------------------- MODULE Labs --------------------------------
(***************************************************************************)
(* The labs of both front ends, one on screen at a time.  Opening another  *)
(* one unmounts it with what it holds; a lab always starts afresh.         *)
(***************************************************************************)
EXTENDS ArithmeticLabs, CircuitInspector, MachineLabs, MachineViews

Lab == ArithmeticLab \union {SystemLab} \union MachineLab \union ViewLab

LabsInit == page \in Lab

OpenLab == \E lab \in Lab : lab.lab # page.lab /\ page' = lab

LabsNext == OpenLab \/ ArithmeticStep \/ InspectorStep \/ MachineStep \/ ViewStep

LabsSpec == LabsInit /\ [][LabsNext]_page

-----------------------------------------------------------------------------
(* Properties.                                                             *)

\* What the labs of the workbench compute in the browser, or draw from the reply, is what
\* the divider, the multiplier and the capability checker of the hardware would give.
MachineLabsMatchHardware ==
    DividerShowsQuotient /\ BoothAddsUp /\ MapCoversAuthority
=============================================================================
