---------------------------- MODULE MCRepositories ----------------------------
(***************************************************************************)
(* Instances of Repositories.  Alice owns x, g and, through an             *)
(* organisation, o; bob collaborates, carol forks, dave follows nobody.    *)
(* Each scene sets the stage for one group of handlers.                    *)
(***************************************************************************)
EXTENDS Repositories

CONSTANTS c1, c2

alice == 1
bob   == 2
carol == 3
dave  == 4

MCConns     == {c1, c2}
MCKeys      == {alice, bob, carol, dave}
MCLetters   == {"a", "d", "e", "p", "r"}
MCIncludes(text, search) == TRUE
MCOverrides == {72, 73, 74, 75, 1111, 30078, 31415}

MCRepo == [r \in {"x", "g", "f", "o"} |->
    CASE r = "x" -> [form |-> "personal", owner |-> alice, dtag |-> None, name |-> "x"]
      [] r = "o" -> [form |-> "org", owner |-> alice, dtag |-> "team", name |-> "o"]
      [] OTHER   -> [form |-> "guid", owner |-> None, dtag |-> None, name |-> r]]
MCOrg   == [a \in {"team"} |-> [owner |-> alice, dtag |-> "team"]]
MCClone == [u \in {"x", "g", "f", "o", "o.team", "g.team"} |->
    CASE u = "o.team" -> [id |-> "o", name |-> "o", author |-> "team"]
      [] u = "g.team" -> [id |-> "g", name |-> "g", author |-> "team"]
      [] u = "o"      -> [id |-> "o", name |-> "o", author |-> bob]
      [] u = "f"      -> [id |-> "f", name |-> "f", author |-> carol]
      [] OTHER        -> [id |-> u, name |-> u, author |-> alice]]
MCTopic == [i \in {"issues", "prs", "kanban"} |-> i]
MCPaths == [i \in {"ban"} |-> <<"x", bob>>]

File(r, wot, pr, follows) ==
    [r |-> r, wot |-> wot, pr |-> pr, owner |-> alice, nodes |-> {alice, bob, carol}, follows |-> follows]
MCFiles == [w \in {"w1", "w2", "d1", "d2", "d3", "d4"} |->
    CASE w \in {"w1", "w2"} -> File(IF w = "w1" THEN "x" ELSE None, TRUE, FALSE, {<<alice, bob>>, <<bob, carol>>})
      [] w = "d2" -> File("x", FALSE, TRUE, {})
      [] w = "d4" -> File("x", FALSE, FALSE, {})
      [] OTHER -> File(None, FALSE, FALSE, {})]

E(id, who, kind, at, tags) ==
    [id |-> id, pubkey |-> who, kind |-> kind, at |-> at, tags |-> tags, text |-> "true"]
\* A permission event; more tags come first.
P(id, who, at, r, url, more) ==
    E(id, who, 31415, at, more \o <<<<"r", r>>, <<"d", r>>, <<"n", r>>, <<"clone", url>>, <<"relay", "wss">>,
                                    <<"p", bob, "write">>>>)
X(id, at, more) == P(id, alice, at, "x", "x", more)
G(id, at, more) == P(id, alice, at, "g", "g", more)
F(id, at, more) == P(id, carol, at, "f", "f", more)
Wot(w)          == <<"wot_file", w>>
Push(id, who, at, r, tags) == E(id, who, 73, at, tags \o <<<<"r", r>>>>)
Cascade(id, who, at, r)    == E(id, who, 72, at, <<<<"r", r>>, <<"k", "31415">>>>)

Scene(events, owners, s1, s2, to_do) ==
    [evt |-> events, own |-> owners, moves |-> to_do, script |-> [c \in MCConns |-> IF c = c1 THEN s1 ELSE s2]]

-----------------------------------------------------------------------------
\* Versions of two repositories share social graphs.
Graphs == {
    Scene({X(1, 1, <<Wot("w1")>>), G(2, 1, <<Wot("w1")>>)}, {<<"w1", alice>>},
          <<X(11, 2, <<Wot("w2")>>), G(12, 2, <<>>), X(13, 3, <<Wot("w1")>>), X(14, 3, <<>>)>>, <<>>,
          {<<"upload", "w2", alice>>, <<"claim", "w1", bob>>}),
    Scene({X(1, 1, <<Wot("w1")>>)}, {<<"w1", alice>>},
          <<X(11, 2, <<Wot("w2")>>), X(12, 3, <<Wot("w1")>>), X(13, 3, <<Wot("w2")>>)>>, <<>>,
          {<<"upload", "w2", alice>>, <<"claim", "w1", alice>>})}

\* Two clients update the permissions of one repository.
Updates == {
    Scene({X(1, 1, <<>>)}, {}, <<X(11, 2, <<>>), X(13, 3, <<>>)>>, <<X(12, 2, <<>>)>>, {}),
    Scene({}, {<<"w1", alice>>}, <<X(11, 2, <<Wot("w1")>>)>>, <<X(12, 2, <<>>), X(14, 1, <<>>)>>, {})}

\* An organisation: members, an invitation that was taken back, a migration.
Invite(id, who) == E(id, alice, 39505, 1, <<<<"a", "team">>, <<"p", who>>>>)
Accept(id, who, i) == E(id, who, 39506, 1, <<<<"e", i>>, <<"status", "accepted">>>>)
Team == <<"a", "team">>
Organisations == {
    Scene({Invite(1, bob), Accept(2, bob, 1), Invite(3, carol), Accept(4, carol, 3),
           E(5, alice, 5, 1, <<<<"e", 3>>>>), G(6, 1, <<>>)}, {},
          <<P(11, bob, 2, "o", "o.team", <<Team>>), P(12, bob, 3, "o", "o.team", <<Team>>),
            P(13, alice, 4, "o", "o.team", <<Team>>), Cascade(14, alice, 5, "o")>>,
          <<P(15, carol, 2, "o", "o.team", <<Team>>), P(16, bob, 2, "g", "g.team", <<Team>>),
            P(17, bob, 3, "g", "g.team", <<Team>>)>>, {})}

\* A repository goes while it is pushed to.
Cascades == {
    Scene({X(1, 1, <<>>), Push(2, bob, 1, "x", <<<<"bundle", "d1">>, <<"archive", "d3">>>>),
           E(3, carol, 74, 2, <<<<"dag_root", "d2">>, <<"r", "x">>>>)},
          {<<"d1", bob>>, <<"d3", bob>>, <<"d2", carol>>, <<"d1", carol>>},
          <<Cascade(11, alice, 3, "x")>>, <<Push(12, bob, 3, "x", <<<<"bundle", "d4">>>>)>>,
          {<<"upload", "d4", bob>>, <<"claim", "d1", bob>>}),
    Scene({X(1, 1, <<>>), Push(2, bob, 1, "x", <<<<"bundle", "d1">>>>),
           Push(3, bob, 2, "x", <<<<"bundle", "d1">>>>), Push(4, bob, 2, "x", <<<<"archive", "d3">>>>)},
          {<<"d1", bob>>, <<"d3", bob>>},
          <<Cascade(11, bob, 3, "x"), Cascade(12, alice, 3, "x"), X(13, 3, <<>>)>>, <<>>, {})}

\* A fork pushes the bundle of the original and goes again.
Forks(mine, theirs) ==
    Scene({X(1, 1, mine), F(2, 1, theirs), Push(3, bob, 1, "x", <<<<"bundle", "d1">>, <<"archive", "d3">>>>)},
          {<<"d1", bob>>, <<"d3", bob>>},
          <<Push(11, carol, 2, "f", <<<<"bundle", "d1">>>>), Cascade(12, carol, 3, "f")>>,
          <<E(13, bob, 30078, 2, <<<<"d", "ban">>, <<"r", "x">>>>)>>, {<<"claim", "d1", carol>>})
Private1 == <<<<"visibility", "private">>>>

\* Who may interact at which level.
Interactions(seen, level) ==
    Scene({X(1, 1, <<<<"visibility", seen>>, Wot("w1"), <<"p", carol, "triage">>, <<"pr_permissions", level>>,
                     <<"pr_comment_permissions", level>>, <<"issue_comment_permissions", level>>>>),
           Push(2, bob, 1, "x", <<<<"bundle", "d1">>>>)},
          {<<"w1", alice>>, <<"d1", bob>>},
          <<E(11, dave, 74, 2, <<<<"dag_root", "d2">>, <<"r", "x">>>>),
            E(12, carol, 1111, 2, <<<<"I", "issues">>, <<"r", "x">>>>),
            E(13, dave, 75, 2, <<<<"r", "x">>>>)>>,
          <<E(14, dave, 1111, 2, <<<<"i", "prs">>, <<"r", "x">>>>)>>,
          {<<"upload", "d2", dave>>, <<"upload", "d3", carol>>, <<"upload", "w1", alice>>})

MCScenes ==
    Graphs \cup Updates \cup Organisations \cup Cascades
    \cup {Forks(a, b) : a \in {<<>>, Private1}, b \in {<<>>, Private1}}
    \cup {Interactions(v, l) : v \in {"public", "private"},
                               l \in {"everyone", "wot", "maintainers_triage", "maintainers"}}

ASSUME MCScenesAssumption ==
    \A s \in MCScenes : Regular(s) /\ Orderly(s) /\ Rooted(s) /\ Settled(s) /\ SentOnce(s) /\ InTurn(s)

\* Two clients announce a repository, and one takes it away.
PairScenes == {Scene({}, {}, <<X(11, 1, <<>>)>>, <<X(12, 1, <<>>), Cascade(13, alice, 2, "x")>>, {})}

\* The permissions of a repository are updated while the old ones come again.
AgainScenes == {Scene({X(1, 1, <<>>)}, {}, <<X(11, 2, <<>>)>>, <<X(1, 1, <<>>)>>, {})}

\* A repository of an organisation by its identifier, announced by a member.
LegacyScenes == {Scene({Invite(1, bob), Accept(2, bob, 1)}, {}, <<P(11, bob, 2, "o", "o", <<>>)>>, <<>>, {})}

\* A permission event refers to a social graph that another one drops.
BindScenes == {Scene({X(1, 1, <<Wot("w1")>>)}, {<<"w1", alice>>},
                     <<X(11, 2, <<>>)>>, <<G(12, 2, <<Wot("w1")>>)>>, {})}

\* A private fork pushes the bundle of a public repository.
ForkScenes == {Forks(<<>>, Private1)}

FoundScenes == PairScenes \cup AgainScenes \cup LegacyScenes \cup BindScenes \cup ForkScenes
=============================================================================
