------------------------------- MODULE MCAccess -------------------------------
\* One or two keys; checks overlap with changes of users, owners and settings.
EXTENDS Access, TLC

Of(r, w, p) == [read |-> r, write |-> w, priced |-> p]
MCSettings == {Of("allowed_users", "allowed_users", TRUE), Of("only-me", "only-me", TRUE),
               Of("paid_users", "paid_users", TRUE), Of("paid_users", "paid_users", FALSE),
               Of("all_users", "only-me", TRUE)}
MCStart == {[settings |-> s, rows |-> [u \in Users |-> r], paid |-> [u \in Users |-> p]] :
               s \in MCSettings, r \in {"read"}, p \in {TTL + 1}}
MCListed == {[settings |-> Of("allowed_users", "allowed_users", TRUE), rows |-> [u \in Users |-> "write"],
              paid |-> [u \in Users |-> 0]]}
Symmetry == Permutations(Checks)
=============================================================================
