------------------------------- MODULE Sums -------------------------------
(***************************************************************************)
(* The sum of an integer function over a finite set: what the source       *)
(* computes with SELECT SUM(...) and Array.reduce.  It is written as a     *)
(* recursive function, not with the folds of the community modules, so     *)
(* that SumsProofs can prove its laws.                                     *)
(***************************************************************************)
EXTENDS Integers, FiniteSets

Pick(U) == CHOOSE x \in U : TRUE

\* The sum over the rows in S; f[x] is the column of row x.
SumOver(f, S) ==
    LET sum[U \in SUBSET S] ==
          IF U = {} THEN 0 ELSE f[Pick(U)] + sum[U \ {Pick(U)}]
    IN  sum[S]
===========================================================================
