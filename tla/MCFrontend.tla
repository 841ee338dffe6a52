----------------------------- MODULE MCFrontend -----------------------------
(***************************************************************************)
(* Instances of Frontend for TLC: two lines of two instructions.           *)
(***************************************************************************)
EXTENDS Frontend

I(p, k, t) == [pc |-> p, kind |-> k, taken |-> t]

\* A branch either way and a plain instruction on one line, a jump and a trap
\* on the other.
Small == {I(0, "branch", FALSE), I(0, "branch", TRUE), I(1, "plain", FALSE),
          I(2, "jump", TRUE), I(3, "trap", FALSE)}
=============================================================================
