------------------------------- MODULE MCLabs -------------------------------
(* Eight-bit labs, with operands at the edges of the word, and a machine   *)
(* with 64 bytes of memory and one process capability.                     *)
EXTENDS Labs

MCOperand == {0, 1, 2, 3, 7, 15, 16, 42, 85, 127, 128, 170, 200, 251, 254, 255}

MCVector ==
    {[opcode |-> 0, a |-> 127, b |-> 1], [opcode |-> 1, a |-> 0, b |-> 1],
     [opcode |-> 4, a |-> 170, b |-> 85], [opcode |-> 10, a |-> 251, b |-> 7]}

MCTyped == {-129, -128, -7, -1, 0, 1, 7, 100, 127, 255}

MCSlider == {-128, -127, -65, -17, -3, -2, -1, 0, 1, 2, 3, 25, 64, 126, 127}

MCScenario == <<"alu", "loop", "load">>

MCMeasured ==
    [alu  |-> [instructions |-> 6, stalls |-> 0, loadUse |-> 0, taken |-> 0],
     loop |-> [instructions |-> 14, stalls |-> 6, loadUse |-> 0, taken |-> 3],
     load |-> [instructions |-> 5, stalls |-> 1, loadUse |-> 1, taken |-> 0]]
=============================================================================
