---------------------------- MODULE MCModeration ----------------------------
(***************************************************************************)
(* Instances of Moderation for TLC: one or two posts, one or two disputes, *)
(* two review goroutines.                                                  *)
(***************************************************************************)
EXTENDS Moderation, TLC

CONSTANTS e1, e2, d1, d2, s1, s2

OnePost     == {e1}
TwoPosts    == {e1, e2}
OneDispute  == {d1}
TwoDisputes == {d1, d2}
OneSlot     == {s1}
TwoSlots    == {s1, s2}
MCSymmetry  == Permutations({s1, s2})
=============================================================================
