----------------------------- MODULE MCDivider ------------------------------
(***************************************************************************)
(* DividerPort for TLC: one request with any dividend and the divisors at  *)
(* the boundaries, after one of a few that is answered or killed.          *)
(***************************************************************************)
EXTENDS DividerPort

MCLogicAlu(fn, a, b) == 0

Divisors == {0, 1, 7, 128, 255}

MCRequests(n) ==
    IF n = 1
    THEN [dividend : {128, 250}, divisor : {3}, isSigned : {TRUE}]
    ELSE [dividend : Word, divisor : Divisors, isSigned : BOOLEAN]
=============================================================================
