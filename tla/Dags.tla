--------------------------------- MODULE Dags ---------------------------------
(***************************************************************************)
(* Content-addressed DAGs: their upload in packets, their download whole   *)
(* or in part, claims and queries.  A leaf is stored once under its hash   *)
(* and never removed; who owns a DAG is a record per root and key, and a   *)
(* DAG without one is not served.  Uploads of different keys run at the    *)
(* same time, of one key one after the other.                              *)
(*                                                                         *)
(* What a hash stands for is fixed: Links gives the children of each leaf. *)
(* The library that checks proofs may accept or refuse a packet and a DAG; *)
(* iterating over a DAG to index it takes all its leaves.                  *)
(***************************************************************************)
EXTENDS Naturals, Sequences

CONSTANTS
    Links,              \* leaf -> its children
    Name,               \* leaf -> item name
    Unwanted,           \* leaves whose content has a MIME type that is not permitted
    Keys,               \* public keys
    Uploads,            \* streams
    Downloads,          \* streams
    Plans,              \* [up, down, moves]: what clients do
    Allowed,            \* <<root, key>> that canUploadDag admits
    MaxFaults           \* bound: transactions and answers that fail

VARIABLES
    leaves,             \* stored leaves
    own,                \* ownership records: <<root, key>>
    rel, lab,           \* roots with cached relationships and labels
    active,             \* activeUploads
    plan,
    up,                 \* upload streams
    down,               \* download streams
    moves,              \* claims and releases still to come
    acked,              \* history: <<root, key>> of uploads answered with success
    lost,               \* history: roots given up by a failed upload, and released
    faults

dagVars == <<leaves, own, rel, lab, active, plan, up, down, moves, acked, lost, faults>>
store == <<leaves, own, rel, lab>>

Leaves == DOMAIN Links

ASSUME DagAssumption == \A l \in Leaves : Links[l] \subseteq Leaves /\ l \in DOMAIN Name

ASSUME PlanAssumption ==
    \A p \in Plans :
       /\ \A s \in Uploads : /\ p.up[s].root \in Leaves /\ p.up[s].key \in Keys
                            /\ p.up[s].packets \in Seq(SUBSET Leaves) /\ p.up[s].packets # <<>>
       /\ \A d \in Downloads : p.down[d].root \in Leaves /\ p.down[d].leaves \subseteq Leaves
                             /\ p.down[d].how \in {"all", "hashes", "labels"}
       /\ p.moves \subseteq {"claim", "release"} \X Leaves \X Keys

-----------------------------------------------------------------------------
\* All leaves of a DAG: whatever holds the root and the children of its leaves
\* holds them.
Closed(S) == \A l \in S : Links[l] \subseteq S
Reach == [root \in Leaves |-> {l \in Leaves : \A S \in SUBSET Leaves : root \in S /\ Closed(S) => l \in S}]

Owned(root)    == \E x \in own : x[1] = root
Complete(root) == Reach[root] \subseteq leaves

\* QueryDag: roots of some keys, any if there are none, where a leaf has one of
\* some names; only the root is looked at while no relationships are cached.
Known(root) == {root} \cup (IF root \in rel THEN Reach[root] ELSE {})
QueryDag(keys, names) ==
    {x[1] : x \in {y \in own : /\ keys # {} => y[2] \in keys
                               /\ names # {} => \E l \in Known(y[1]) \cap leaves : Name[l] \in names}}

DagInit ==
    /\ plan \in Plans
    /\ leaves = {} /\ own = {} /\ rel = {} /\ lab = {} /\ active = {}
    /\ up = [s \in Uploads |-> [pc |-> "new", i |-> 1, sent |-> {}, todo |-> {}, seen |-> {},
                          lack |-> FALSE]]
    /\ down = [d \in Downloads |-> [pc |-> "new", want |-> {}, safe |-> FALSE]]
    /\ moves = plan.moves /\ acked = {} /\ lost = {} /\ faults = 0

Fault == faults < MaxFaults /\ faults' = faults + 1

-----------------------------------------------------------------------------
(* Uploads.  A plan gives each stream [root, key, packets, final]: packets   *)
(* are sets of leaves, and final tells whether the last is marked so.        *)

Job(s)  == plan.up[s]
Root(s) == Job(s).root
Key(s)  == Job(s).key
Then(s, next) == up' = [up EXCEPT ![s] = next]
Goto(s, pc)   == Then(s, [up[s] EXCEPT !.pc = pc])

\* One upload at a time for a key.
Start(s) ==
    /\ up[s].pc = "new"
    /\ IF Key(s) \in active THEN Goto(s, "over") /\ UNCHANGED active
       ELSE Goto(s, IF Root(s) \in Job(s).packets[1] /\ <<Root(s), Key(s)>> \in Allowed
                    THEN "packet" ELSE "leave") /\ active' = active \cup {Key(s)}
    /\ UNCHANGED <<store, plan, down, moves, acked, lost, faults>>

\* The batch of a packet is skipped for leaves that are there, but not the
\* record of who owns the root.
OwnsMut(s, packet) == IF Root(s) \in packet \ leaves THEN {<<Root(s), Key(s)>>} ELSE {}
Owns(s, packet)    == IF Root(s) \in packet THEN {<<Root(s), Key(s)>>} ELSE {}

Failed(s) == IF up[s].i = 1 THEN "leave" ELSE "undo"

\* A packet is stored before its contents are looked at.  When that fails the
\* first packet stays and later ones have the DAG deleted.
Packet(s) ==
    /\ up[s].pc = "packet"
    /\ LET packet == Job(s).packets[up[s].i]
           last   == up[s].i = Len(Job(s).packets) /\ Job(s).final
       IN \/ /\ leaves' = leaves \cup packet /\ own' = own \cup Owns(s, packet)
             /\ UNCHANGED faults
             /\ IF packet \cap Unwanted # {} THEN Goto(s, Failed(s))
                ELSE Then(s, [up[s] EXCEPT !.pc = IF last /\ up[s].i = 1 THEN "missing" ELSE "answer",
                                           !.sent = @ \cup packet])
          \/ Fault /\ Goto(s, Failed(s)) /\ UNCHANGED <<leaves, own>>
    /\ UNCHANGED <<rel, lab, active, plan, down, moves, acked, lost>>

\* A client that cannot be answered after a later packet may have sent all.
Answer(s) ==
    /\ up[s].pc = "answer"
    /\ \/ Goto(s, IF up[s].i = Len(Job(s).packets) /\ Job(s).final THEN "missing" ELSE "read") /\ UNCHANGED faults
       \/ Fault /\ Goto(s, IF up[s].i = 1 THEN "leave" ELSE "missing")
    /\ UNCHANGED <<store, active, plan, down, moves, acked, lost>>

Read(s) ==
    /\ up[s].pc = "read"
    /\ \/ up[s].i < Len(Job(s).packets) /\ Then(s, [up[s] EXCEPT !.pc = "packet", !.i = @ + 1])
       \/ up[s].i = Len(Job(s).packets) /\ Goto(s, "undo")
    /\ UNCHANGED <<store, active, plan, down, moves, acked, lost, faults>>

\* Leaves that are referred to and were not sent must be there, ...
Missing(s) ==
    /\ up[s].pc = "missing"
    /\ LET refs == (UNION {Links[l] : l \in up[s].sent}) \ up[s].sent
       IN Then(s, [up[s] EXCEPT !.todo = refs, !.pc = IF refs = {} THEN "verify" ELSE "partial"])
    /\ UNCHANGED <<store, active, plan, down, moves, acked, lost, faults>>

\* ... and so must the leaves these refer to.
MoreMut(s, l) == {}
More(s, l)    == Links[l] \ (up[s].seen \cup {l})

Partial(s) ==
    /\ up[s].pc = "partial"
    /\ IF up[s].todo = {} THEN Goto(s, IF up[s].lack THEN "undo" ELSE "verify")
       ELSE \E l \in up[s].todo :
               Then(s, [up[s] EXCEPT !.seen = @ \cup {l}, !.lack = @ \/ l \notin leaves,
                            !.todo = (@ \ {l}) \cup IF l \in leaves THEN More(s, l) ELSE {}])
    /\ UNCHANGED <<store, active, plan, down, moves, acked, lost, faults>>

Verify(s) ==
    /\ up[s].pc = "verify"
    /\ \/ Goto(s, "relate") /\ UNCHANGED faults
       \/ Fault /\ Goto(s, "undo")
    /\ UNCHANGED <<store, active, plan, down, moves, acked, lost>>

\* Caches that cannot be written are done without.
Relate(s) ==
    /\ up[s].pc = "relate" /\ Goto(s, "label")
    /\ \/ Complete(Root(s)) /\ rel' = rel \cup {Root(s)} /\ UNCHANGED faults
       \/ ~Complete(Root(s)) /\ UNCHANGED <<rel, faults>>
       \/ Fault /\ UNCHANGED rel
    /\ UNCHANGED <<leaves, own, lab, active, plan, down, moves, acked, lost>>

LabelledMut(s) == {}
Labelled(s)    == IF Complete(Root(s)) THEN {Root(s)} ELSE {}
Label(s) ==
    /\ up[s].pc = "label" /\ Goto(s, "done")
    /\ \/ lab' = lab \cup Labelled(s) /\ UNCHANGED faults
       \/ Fault /\ UNCHANGED lab
    /\ UNCHANGED <<leaves, own, rel, active, plan, down, moves, acked, lost>>

Finish(s) ==
    /\ up[s].pc = "done" /\ Goto(s, "leave")
    /\ \/ acked' = acked \cup {<<Root(s), Key(s)>>} /\ UNCHANGED faults
       \/ Fault /\ UNCHANGED acked
    /\ UNCHANGED <<store, active, plan, down, moves, lost>>

\* DeleteDag: the ownership records of all keys, then what is cached.
Undo(s) ==
    /\ up[s].pc = "undo" /\ lost' = lost \cup {Root(s)}
    /\ \/ Goto(s, "forget") /\ own' = {x \in own : x[1] # Root(s)} /\ UNCHANGED faults
       \/ Fault /\ Goto(s, "leave") /\ UNCHANGED own
    /\ UNCHANGED <<leaves, rel, lab, active, plan, down, moves, acked>>

Forget(s) ==
    /\ up[s].pc = "forget" /\ Goto(s, "leave")
    /\ \/ rel' = rel \ {Root(s)} /\ lab' = lab \ {Root(s)} /\ UNCHANGED faults
       \/ Fault /\ UNCHANGED <<rel, lab>>
    /\ UNCHANGED <<leaves, own, active, plan, down, moves, acked, lost>>

\* However a stream ends, its key is free again.
Freed(s) == {Key(s)}
Leave(s) ==
    /\ up[s].pc = "leave" /\ Goto(s, "over") /\ active' = active \ Freed(s)
    /\ UNCHANGED <<store, plan, down, moves, acked, lost, faults>>

-----------------------------------------------------------------------------
(* Downloads.  A plan gives each stream [root, leaves, how]: how is "all",   *)
(* or "hashes" or "labels" when leaves are asked for.                        *)

Wish(d)  == plan.down[d]
To(d, pc) == down' = [down EXCEPT ![d].pc = pc]

Ask(d) ==
    /\ down[d].pc = "new"
    /\ down' = [down EXCEPT ![d] =
          [pc   |-> IF Wish(d).root \in leaves /\ Owned(Wish(d).root) THEN Wish(d).how ELSE "failed",
           want |-> {}, safe |-> \E k \in {x[2] : x \in own} : <<Wish(d).root, k>> \in acked]]
    /\ UNCHANGED <<store, active, plan, up, moves, acked, lost, faults>>

All(d) ==
    /\ down[d].pc = "all"
    /\ down' = [down EXCEPT ![d].pc = IF Owned(Wish(d).root) /\ Complete(Wish(d).root) THEN "served" ELSE "failed",
                            ![d].want = Reach[Wish(d).root]]
    /\ UNCHANGED <<store, active, plan, up, moves, acked, lost, faults>>

Labels(d) ==
    /\ down[d].pc = "labels" /\ To(d, IF Wish(d).root \in lab THEN "hashes" ELSE "failed")
    /\ UNCHANGED <<store, active, plan, up, moves, acked, lost, faults>>

Hashes(d) ==
    /\ down[d].pc = "hashes" /\ To(d, IF Wish(d).root \in rel THEN "walk" ELSE "index")
    /\ UNCHANGED <<store, active, plan, up, moves, acked, lost, faults>>

\* BuildPartialDagFromStore indexes a DAG whose relationships are not cached.
Index(d) ==
    /\ down[d].pc = "index"
    /\ IF Owned(Wish(d).root) /\ Complete(Wish(d).root)
       THEN To(d, "walk") /\ rel' = rel \cup {Wish(d).root}
       ELSE To(d, "failed") /\ UNCHANGED rel
    /\ UNCHANGED <<leaves, own, lab, active, plan, up, moves, acked, lost, faults>>

\* From each leaf up to the root, which must be owned when it is read.
Walk(d) ==
    /\ down[d].pc = "walk"
    /\ down' = [down EXCEPT ![d].pc = IF Owned(Wish(d).root) /\ Wish(d).leaves \subseteq Reach[Wish(d).root]
                                      THEN "served" ELSE "failed",
                            ![d].want = Wish(d).leaves]
    /\ UNCHANGED <<store, active, plan, up, moves, acked, lost, faults>>

-----------------------------------------------------------------------------
\* ClaimOwnership of a root that is stored; ReleaseOwnership by a cascade.
Claimable(root)    == root \in leaves

Claim ==
    \E m \in moves :
       /\ m[1] = "claim" /\ moves' = moves \ {m}
       /\ own' = IF Claimable(m[2]) THEN own \cup {<<m[2], m[3]>>} ELSE own
       /\ UNCHANGED <<leaves, rel, lab, active, plan, up, down, acked, lost, faults>>

Release ==
    \E m \in moves :
       /\ m[1] = "release" /\ moves' = moves \ {m}
       /\ own' = own \ {<<m[2], m[3]>>} /\ lost' = lost \cup {m[2]}
       /\ UNCHANGED <<leaves, rel, lab, active, plan, up, down, acked, faults>>

UploadStep(s) ==
    \/ Start(s) \/ Packet(s) \/ Answer(s) \/ Read(s) \/ Missing(s) \/ Partial(s) \/ Verify(s)
    \/ Relate(s) \/ Label(s) \/ Finish(s) \/ Undo(s) \/ Forget(s) \/ Leave(s)

DownloadStep(d) == Ask(d) \/ All(d) \/ Labels(d) \/ Hashes(d) \/ Index(d) \/ Walk(d)

DagNext == (\E s \in Uploads : UploadStep(s)) \/ (\E d \in Downloads : DownloadStep(d)) \/ Claim \/ Release

DagSpec == DagInit /\ [][DagNext]_dagVars

-----------------------------------------------------------------------------
UpPcs   == {"new", "packet", "answer", "read", "missing", "partial", "verify", "relate", "label",
            "done", "undo", "forget", "leave", "over"}
DownPcs == {"new", "all", "labels", "hashes", "index", "walk", "served", "failed"}

UpRec   == [pc : UpPcs, i : Nat, sent : SUBSET Leaves, todo : SUBSET Leaves, seen : SUBSET Leaves, lack : BOOLEAN]
DownRec == [pc : DownPcs, want : SUBSET Leaves, safe : BOOLEAN]

DagTypeOK ==
    /\ leaves \subseteq Leaves /\ own \subseteq Leaves \X Keys
    /\ rel \subseteq Leaves /\ lab \subseteq Leaves /\ active \subseteq Keys
    /\ plan \in Plans /\ moves \subseteq plan.moves
    /\ up \in [Uploads -> UpRec]
    /\ \A s \in Uploads : up[s].i \in 1..Len(Job(s).packets)
    /\ down \in [Downloads -> DownRec]
    /\ acked \subseteq Leaves \X Keys /\ lost \subseteq Leaves /\ faults \in Nat

\* The relay keeps what it acknowledged: every leaf of a DAG whose upload was
\* answered with success is stored, also those that the upload did not bring
\* and found on the relay, and those found behind them.
AckedComplete == \A x \in acked : Complete(x[1])

AckedOwned == \A x \in acked : x[1] \in lost \/ x \in own
OwnedThere == \A x \in own : x[1] \in leaves

\* Who uploaded a DAG owns it, whoever else uploads it at the same time, unless
\* an upload of it failed or it was given up, and no one owns what is not there.
OwnersRight == AckedOwned /\ OwnedThere

\* Without failures, what was uploaded when a download of it began is served,
\* whole, by hashes or by labels, and found by the names of its leaves, unless
\* it was given up.
AckedServed ==
    faults = 0 =>
       /\ \A d \in Downloads : (down[d].pc = "failed" /\ down[d].safe) =>
             Wish(d).root \in lost \/ ~(Wish(d).leaves \subseteq Reach[Wish(d).root])
       /\ \A x \in acked : x[1] \in lost \/
             \A l \in Reach[x[1]] : x[1] \in QueryDag({x[2]}, {Name[l]})

\* What a comment says of several owners and a failed upload breaks.
OwnersKept == \A x \in acked : (\A m \in plan.moves : m[1] = "release" => m[2] # x[1]) => x \in own
\* What the answer to an upload says and the store does.
Unstored == \A s \in Uploads :
    up[s].pc = "over" /\ Job(s).packets[1] \cap Unwanted # {} => <<Root(s), Key(s)>> \notin own
=============================================================================
