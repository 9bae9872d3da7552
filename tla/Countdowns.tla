------------------------------ MODULE Countdowns ------------------------------
(***************************************************************************)
(* Four numbers that say what a function has left to do, of which an earlier  *)
(* one outweighs all that follow.  There is no endless way down, so that a      *)
(* function each of whose steps goes down comes to an end.                     *)
(***************************************************************************)
EXTENDS Naturals

Fours == Nat \X Nat \X Nat \X Nat

Lower(c, d) ==
    \/ c[1] < d[1]
    \/ c[1] = d[1] /\ c[2] < d[2]
    \/ c[1] = d[1] /\ c[2] = d[2] /\ c[3] < d[3]
    \/ c[1] = d[1] /\ c[2] = d[2] /\ c[3] = d[3] /\ c[4] < d[4]
=============================================================================
