----------------------------- MODULE MCPayments -----------------------------
(***************************************************************************)
(* Instances of Payments for TLC: a free tier and three paid ones priced   *)
(* so that a remainder cascades, leftover credit buys again, and small     *)
(* payments pile up.                                                       *)
(***************************************************************************)
EXTENDS Payments, TLC

CONSTANTS free, small, medium, large, alice, bob, t1, t2, t3, t4

MCTiers == {free, small, medium, large}
MCPrice == free :> 0 @@ small :> 2 @@ medium :> 3 @@ large :> 7
MCBytes == free :> 1 @@ small :> 2 @@ medium :> 4 @@ large :> 9

\* Alice pays: a remainder that cascades, an odd amount, a tip and an output
\* without an amount; and the relay crashes between any two steps.
SeqTxs  == {t1, t2, t3, t4}
SeqUser == [t \in SeqTxs |-> alice]
SeqSats == t1 :> 13 @@ t2 :> 5 @@ t3 :> 1 @@ t4 :> 0

\* The tip may come spelled with fewer than eight decimals.
SeqExact == {t1, t2, t4}

\* Two payments of one user at the same time: a tier with a leftover that buys
\* again, and one that is banked.
PairTxs  == {t1, t2}
PairUser == [t \in PairTxs |-> alice]
PairSats == t1 :> 5 @@ t2 :> 1
=============================================================================
