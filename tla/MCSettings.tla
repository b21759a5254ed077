------------------------------ MODULE MCSettings ------------------------------
\* Two or three requests on a file that is consistent or not.
EXTENDS Settings, TLC

Of(m, r, w)  == [mode |-> m, read |-> r, write |-> w]
All(s)       == [how |-> "section", set |-> s]
Some(s)      == [how |-> "section", set |-> s]
OneKey(f, v) == [how |-> "key", set |-> (f :> v)]

Invite    == Of("invite-only", "allowed_users", "allowed_users")
Open_     == Of("invite-only", "all_users", "allowed_users")
Paid      == Of("subscription", "allowed_users", "all_users")
Private   == Of("only-me", "all_users", "all_users")

MCPlans ==
    {[file |-> f, req |-> <<a, b, c>>, edits |-> {}] :
        f \in {Invite, ("mode" :> "public")}, a \in {All(Paid), All(Private)},
        b \in {All(Invite), OneKey("read", "all_users")}, c \in {All(Open_), OneKey("read", "allowed_users")}}
    \cup {[file |-> Invite, req |-> <<All(Private), OneKey("read", "allowed_users")>>, edits |-> {Open_}]}
MCOne     == {[file |-> Invite, req |-> <<All(Paid)>>, edits |-> {}]}
MCPartial == {[file |-> Invite, req |-> <<Some("read" :> "all_users")>>, edits |-> {}]}
MCRetry   == {[file |-> Invite, req |-> <<All(Open_), All(Open_)>>, edits |-> {}]}
MCPair    == {[file |-> Invite, req |-> <<All(Private), All(Open_)>>, edits |-> {}]}
FoundPlans == MCOne \cup MCPartial \cup MCRetry \cup MCPair
=============================================================================
