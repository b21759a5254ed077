----------------------------- MODULE Repositories -----------------------------
(***************************************************************************)
(* The handlers of permission events (kind 31415), of cascades (kind 72)   *)
(* and of the other events of repositories, each admitted by the access    *)
(* control first, and what they do to the DAGs those events refer to.      *)
(* Connections handle their events in turn; handlers of different          *)
(* connections interleave at every transaction of the store.  A DAG is     *)
(* there as long as someone owns it: its leaves are never deleted.  The    *)
(* relay may stop at any step and start again.                             *)
(***************************************************************************)
EXTENDS RepoRules

CONSTANTS
    Conns,
    Keys,               \* public keys, numbers: ownership records are read in their order
    Scenes,             \* [evt, own, script, moves]: what is stored and what clients do
    Batch, MaxPasses,   \* batchSize and maxPasses of a cascade, 1000 and 20 in the code
    MaxFaults,          \* bound: transactions that fail
    MaxRestarts         \* bound

ASSUME CascadeAssumption == Batch \in Nat \ {0}
ASSUME KeysAssumption == None \notin Keys
ASSUME BoundsAssumption == MaxPasses \in Nat \ {0} /\ MaxFaults \in Nat /\ MaxRestarts \in Nat
ASSUME PathsAssumption == \A d \in DOMAIN BlacklistPaths : BlacklistPaths[d] \in (DOMAIN Repo) \X Keys

VARIABLES
    evt,                \* the stored events
    own,                \* ownership records: <<root, key>>
    stored,             \* roots whose leaves are stored
    cached,             \* roots in the cache of social graphs
    blocked,            \* the blacklist in memory: <<repository, key>>
    scene,
    moves,              \* uploads and claims still to come: <<"upload" or "claim", root, key>>
    h,                  \* the handler of each connection
    oks,                \* history: ids acknowledged with OK true
    faults, restarts

vars == <<evt, own, stored, cached, blocked, scene, moves, h, oks, faults, restarts>>

AtRest == [pc |-> "idle", pos |-> 1, old |-> <<>>, todo |-> <<>>, refs |-> {}, pass |-> 0, had |-> {}]

Init ==
    /\ scene \in Scenes
    /\ evt = scene.evt /\ own = scene.own /\ moves = scene.moves
    /\ stored = {x[1] : x \in own} /\ cached = {} /\ blocked = Blacklist(evt)
    /\ h = [c \in Conns |-> AtRest]
    /\ oks = {} /\ faults = 0 /\ restarts = 0

-----------------------------------------------------------------------------
Ev(c)      == scene.script[c][h[c].pos]
Owners(w)  == {x[2] : x \in {y \in own : y[1] = w}}
Known      == cached \cup {x[1] : x \in own}
End(c)     == h' = [h EXCEPT ![c] = [AtRest EXCEPT !.pos = h[c].pos + 1]]
Ok(c)      == End(c) /\ oks' = oks \cup {Ev(c).id}
Refuse(c)  == End(c) /\ UNCHANGED oks
Then(c, next) == h' = [h EXCEPT ![c] = next] /\ UNCHANGED oks
Goto(c, pc)   == Then(c, [h[c] EXCEPT !.pc = pc])

Fault == faults < MaxFaults /\ faults' = faults + 1

\* The access control and the checks that need no store.
Admit(c) ==
    /\ h[c].pc = "idle" /\ h[c].pos <= Len(scene.script[c])
    /\ cached' = cached \cup (Consults(evt, Ev(c), blocked) \cap Known)
    /\ IF ~CanWriteEvent(evt, Ev(c), blocked, Known) THEN Refuse(c)
       ELSE IF Ev(c).kind = 31415 THEN (IF ValidTags(Ev(c)) /\ FirstTag(Ev(c), "r") # None
                                        THEN Goto(c, "query") ELSE Refuse(c))
       ELSE IF Ev(c).kind = 72 THEN (IF FirstTag(Ev(c), "r") # None /\ FirstTag(Ev(c), "k") = "31415"
                                     THEN Goto(c, "resolve") ELSE Refuse(c))
       ELSE Goto(c, "put")
    /\ UNCHANGED <<evt, own, stored, blocked, scene, moves, faults, restarts>>

-----------------------------------------------------------------------------
(* A permission event *)

Query(c) ==
    /\ h[c].pc = "query"
    /\ \E old \in Permissions(evt, FirstTag(Ev(c), "r")) :
          Then(c, [h[c] EXCEPT !.pc = "verify", !.old = old])
    /\ UNCHANGED <<evt, own, stored, cached, blocked, scene, moves, faults, restarts>>

Verify(c) ==
    /\ h[c].pc = "verify"
    /\ IF ~MayPublish(evt, Ev(c), h[c].old) THEN Refuse(c)
       ELSE Goto(c, IF FirstTag(Ev(c), "wot_file") = None THEN "put" ELSE "bind")
    /\ UNCHANGED <<evt, own, stored, cached, blocked, scene, moves, faults, restarts>>

BindableMut(c, w) == w \in stored /\ Bound(Ev(c), w, Ownership(Ev(c)).owner)
\* RetrieveLeaf: a root nobody owns is not there; the first record counts.
Bindable(c, w) == Owners(w) # {} /\ Bound(Ev(c), w, Min(Owners(w)))

Bind(c) ==
    /\ h[c].pc = "bind"
    /\ IF Bindable(c, FirstTag(Ev(c), "wot_file")) THEN Goto(c, "put") ELSE Refuse(c)
    /\ UNCHANGED <<evt, own, stored, cached, blocked, scene, moves, faults, restarts>>

\* The event is stored; a cascade is acknowledged even when that fails.
Put(c) ==
    /\ h[c].pc = "put"
    /\ \/ /\ evt' = evt \cup {Ev(c)} /\ UNCHANGED faults
          /\ IF Ev(c).kind = 31415 THEN Then(c, [h[c] EXCEPT !.pc = "clean", !.todo = h[c].old]) ELSE Ok(c)
       \/ /\ Fault /\ UNCHANGED evt
          /\ IF Ev(c).kind = 72 THEN Ok(c) ELSE Refuse(c)
    /\ UNCHANGED <<own, stored, cached, blocked, scene, moves, restarts>>

OutdatedMut(c, e) == e.kind = 31415 /\ FirstTag(e, "r") = FirstTag(Ev(c), "r") /\ e.id # Ev(c).id
Outdated(c, e) == e.id # Ev(c).id /\ h[c].todo # <<>> /\ e = h[c].todo[1]

\* The versions found before go.
Clean(c) ==
    /\ h[c].pc = "clean"
    /\ IF h[c].todo = <<>> THEN Goto(c, "orphan") /\ UNCHANGED <<evt, faults>>
       ELSE /\ Then(c, [h[c] EXCEPT !.todo = Tail(h[c].todo)])
            /\ \/ evt' = {e \in evt : ~Outdated(c, e)} /\ UNCHANGED faults
               \/ Fault /\ UNCHANGED evt
    /\ UNCHANGED <<own, stored, cached, blocked, scene, moves, restarts>>

OldGraph(c) == FirstTag(h[c].old[1], "wot_file")
Dropped(c)  == /\ h[c].old[1].id # Ev(c).id
               /\ OldGraph(c) \notin {None, FirstTag(Ev(c), "wot_file")}

\* A social graph that was replaced is forgotten ...
Forget(c) ==
    /\ h[c].pc = "orphan"
    /\ IF h[c].old = <<>> THEN Ok(c) /\ UNCHANGED cached
       ELSE IF Dropped(c) THEN cached' = cached \ {OldGraph(c)} /\ Goto(c, "refs")
       ELSE Then(c, [h[c] EXCEPT !.old = Tail(h[c].old)]) /\ UNCHANGED cached
    /\ UNCHANGED <<evt, own, stored, blocked, scene, moves, faults, restarts>>

Unreferred(w) == QueryEvents(evt, [Tagged(OfKind(31415), "wot_file", w) EXCEPT !.limit = 1]) = {<<>>}

\* ... and when no permission event refers to it ...
LookForRefs(c) ==
    /\ h[c].pc = "refs"
    /\ IF Unreferred(OldGraph(c)) THEN Goto(c, "drop")
       ELSE Then(c, [h[c] EXCEPT !.pc = "orphan", !.old = Tail(h[c].old)])
    /\ UNCHANGED <<evt, own, stored, cached, blocked, scene, moves, faults, restarts>>

\* ... it is given up with all its ownership records (DeleteDag).
Drop(c) ==
    /\ h[c].pc = "drop"
    /\ own' = {x \in own : x[1] # OldGraph(c)}
    /\ Then(c, [h[c] EXCEPT !.pc = "orphan", !.old = Tail(h[c].old)])
    /\ UNCHANGED <<evt, stored, cached, blocked, scene, moves, faults, restarts>>

-----------------------------------------------------------------------------
(* A cascade *)

Resource(r) == [AnyFilter EXCEPT !.tags = [n \in {"r"} |-> <<r>>]]

Resolve(c) ==
    /\ h[c].pc = "resolve"
    /\ \E s \in Permissions(evt, FirstTag(Ev(c), "r")) :
          IF Len(s) = 1 /\ ResolvedOwner(s[1]) = Ev(c).pubkey
          THEN Then(c, [h[c] EXCEPT !.pc = "gather",
                                    !.had = Found(evt, Resource(FirstTag(Ev(c), "r")))])
          ELSE Refuse(c)
    /\ UNCHANGED <<evt, own, stored, cached, blocked, scene, moves, faults, restarts>>

RefTags == {"bundle", "archive", "dag_root"}
RefsMut(e) == UNION {{<<w, e.pubkey>> : w \in Values(e, n)} : n \in {"bundle", "archive"}}
Refs(e) == UNION {{<<w, e.pubkey>> : w \in Values(e, n)} : n \in RefTags}

\* One pass: a batch of events of the resource, the newest first.
Gather(c) ==
    /\ h[c].pc = "gather"
    /\ \/ /\ UNCHANGED faults
          /\ \E s \in QueryEvents(evt, [Resource(FirstTag(Ev(c), "r")) EXCEPT !.limit = Batch]) :
                IF s = <<>> THEN Goto(c, "release")
                ELSE Then(c, [h[c] EXCEPT !.pc = "erase", !.todo = s, !.pass = @ + 1, !.old = s,
                                          !.refs = @ \cup UNION {Refs(e) : e \in Range(s)}])
       \/ Fault /\ Refuse(c)
    /\ UNCHANGED <<evt, own, stored, cached, blocked, scene, moves, restarts>>

\* A full batch may not have been the last one.
Again(c) == Len(h[c].old) = Batch /\ h[c].pass < MaxPasses

Erase(c) ==
    /\ h[c].pc = "erase"
    /\ LET rest == Tail(h[c].todo) IN
       Then(c, [h[c] EXCEPT !.todo = rest,
                            !.pc = IF rest # <<>> THEN "erase" ELSE IF Again(c) THEN "gather" ELSE "release"])
    /\ \/ evt' = {e \in evt : e.id # h[c].todo[1].id} /\ UNCHANGED faults
       \/ Fault /\ UNCHANGED evt
    /\ UNCHANGED <<own, stored, cached, blocked, scene, moves, restarts>>

\* The authors of the events give up the DAGs these referred to.
Release(c) ==
    /\ h[c].pc = "release"
    /\ IF h[c].refs = {} THEN Goto(c, "put") /\ UNCHANGED <<own, faults>>
       ELSE \E ref \in h[c].refs :
               /\ Then(c, [h[c] EXCEPT !.refs = @ \ {ref}])
               /\ \/ own' = own \ {ref} /\ UNCHANGED faults
                  \/ Fault /\ UNCHANGED own
    /\ UNCHANGED <<evt, stored, cached, blocked, scene, moves, restarts>>

-----------------------------------------------------------------------------
(* DAGs come in (module Dags has the details), and the relay restarts.      *)

Upload ==
    \E m \in moves :
       /\ m[1] = "upload" /\ moves' = moves \ {m}
       /\ IF CanWriteDag(evt, m[2], m[3], blocked, Known)
          THEN /\ own' = own \cup {<<m[2], m[3]>>} /\ stored' = stored \cup {m[2]}
               /\ cached' = IF Files[m[2]].wot THEN cached \cup {m[2]} ELSE cached
          ELSE UNCHANGED <<own, stored, cached>>
       /\ UNCHANGED <<evt, blocked, scene, h, oks, faults, restarts>>

Claim ==
    \E m \in moves :
       /\ m[1] = "claim" /\ moves' = moves \ {m}
       /\ own' = IF m[2] \in stored THEN own \cup {<<m[2], m[3]>>} ELSE own
       /\ UNCHANGED <<evt, stored, cached, blocked, scene, h, oks, faults, restarts>>

Restart ==
    /\ restarts < MaxRestarts /\ restarts' = restarts + 1
    /\ h' = [c \in Conns |-> IF h[c].pc = "idle" THEN h[c] ELSE [AtRest EXCEPT !.pos = h[c].pos + 1]]
    /\ cached' = {} /\ blocked' = Blacklist(evt)
    /\ UNCHANGED <<evt, own, stored, scene, moves, oks, faults>>

Step(c) ==
    \/ Admit(c) \/ Query(c) \/ Verify(c) \/ Bind(c) \/ Put(c) \/ Clean(c)
    \/ Forget(c) \/ LookForRefs(c) \/ Drop(c)
    \/ Resolve(c) \/ Gather(c) \/ Erase(c) \/ Release(c)

Next == (\E c \in Conns : Step(c)) \/ Upload \/ Claim \/ Restart

Spec == Init /\ [][Next]_vars

-----------------------------------------------------------------------------
Pcs == {"idle", "query", "verify", "bind", "put", "clean", "orphan", "refs", "drop",
        "resolve", "gather", "erase", "release"}

Quiet == \A c \in Conns : h[c].pc = "idle"
SentBy(s) == UNION {Range(s.script[c]) : c \in Conns}
Sent == SentBy(scene)

TypeOK ==
    /\ scene \in Scenes /\ moves \subseteq scene.moves /\ evt \subseteq scene.evt \cup Sent
    /\ own \subseteq stored \X Keys /\ cached \cup stored \subseteq DOMAIN Files
    /\ blocked \subseteq (DOMAIN Repo) \X Keys /\ oks \subseteq {e.id : e \in Sent}
    /\ \A c \in Conns : /\ h[c].pc \in Pcs /\ h[c].pass \in 0..MaxPasses
                         /\ h[c].pos \in 1..(Len(scene.script[c]) + 1)
                         /\ Range(h[c].todo) \cup Range(h[c].old) \cup h[c].had \subseteq scene.evt \cup Sent
                         /\ h[c].refs \subseteq (DOMAIN Files) \X Keys
    /\ faults \in 0..MaxFaults /\ restarts \in 0..MaxRestarts

\* An id is that of one event, and times fit into the keys of the store.
All(s) == s.evt \cup SentBy(s)
Regular(s) ==
    /\ IsFiniteSet(All(s)) /\ \A c \in Conns : s.script[c] \in Seq(Range(s.script[c]))
    /\ \A e \in All(s) : /\ e.id \in Int /\ e.at \in Nat /\ Unsigned(e.at) = e.at
                         /\ e.tags \in Seq(Range(e.tags)) /\ \A t \in Range(e.tags) : Len(t) \in Nat
    /\ \A a, b \in All(s) : a.id = b.id => a = b

\* A permission event names one repository, a social graph or none, and no other
\* DAG; social graphs are no code.
Orderly(s) ==
    \A e \in All(s) :
       /\ e.kind = 31415 => /\ \A n \in {"r", "wot_file"} : Values(e, n) \subseteq {FirstTag(e, n)}
                             /\ Refs(e) = {}
       /\ \A ref \in Refs(e) : ref[1] \notin {w \in DOMAIN Files : Files[w].wot}

\* What is stored at first is what the handlers leave.
Settled(s) ==
    \A a \in s.evt : a.kind = 31415 =>
       /\ FirstTag(a, "wot_file") \in {None} \cup {x[1] : x \in s.own}
       /\ \A b \in s.evt : b.kind = 31415 /\ FirstTag(b, "r") = FirstTag(a, "r") => a = b

\* What is owned, uploaded, claimed and referred to are the DAGs and keys there are.
Rooted(s) ==
    /\ s.own \subseteq (DOMAIN Files) \X Keys
    /\ \A m \in s.moves : m[2] \in DOMAIN Files /\ m[3] \in Keys
    /\ \A e \in All(s) : Refs(e) \subseteq (DOMAIN Files) \X Keys

\* Clients send each event once, and cascades come over one connection.
SentOnce(s) ==
    /\ \A c, d \in Conns : \A i \in DOMAIN s.script[c], j \in DOMAIN s.script[d] :
          s.script[c][i] = s.script[d][j] => c = d /\ i = j
    /\ SentBy(s) \cap s.evt = {}
InTurn(s) == \A c, d \in Conns : \A a \in Range(s.script[c]), b \in Range(s.script[d]) :
                a.kind = 72 /\ b.kind = 72 => c = d

Alone == \A c, d \in Conns : c # d => <<>> \in {scene.script[c], scene.script[d]}

Cascaded(r) == \E e \in Sent : e.kind = 72 /\ FirstTag(e, "r") = r
\* Handlers of a repository's permission events delete what they found before
\* their own event was stored.  However those of several connections
\* interleave, whatever fails and whenever the relay stops, one stays, and when
\* the connections take turns without a failure no other.
KeepsOne ==
    \A r \in DOMAIN Repo :
       (~Cascaded(r) /\ SentOnce(scene)) =>
          LET held == {e \in evt : e.kind = 31415 /\ FirstTag(e, "r") = r} IN
          /\ (\E e \in scene.evt \cup {x \in Sent : x.id \in oks} :
                 e.kind = 31415 /\ FirstTag(e, "r") = r) => held # {}
          /\ Alone /\ Quiet /\ faults = 0 /\ restarts = 0 => Cardinality(held) <= 1

\* The access control asks for the newest permission event in two ways, as the
\* first answer of the store and by a sort of all answers: they agree, also
\* while there are several of one time.
OneAuthority ==
    \A r \in DOMAIN Repo :
       \A s \in Permissions(evt, r), q \in QueryEvents(evt, [Tagged(OfKind(31415), "r", r) EXCEPT !.limit = 1]) :
          s # <<>> => q = <<Latest(s)>>

GaveUp(e) == {<<w, e.pubkey>> : w \in UNION {Values(e, n) : n \in {"bundle", "archive", "dag_root"}}}

\* When a cascade comes to store its tombstone with nothing failed, the events
\* that it was to remove are gone, and their authors own none of the DAGs
\* these referred to unless they uploaded or claimed them since.
CascadeComplete ==
    \A c \in Conns :
       (h[c].pc = "put" /\ Ev(c).kind = 72 /\ faults = 0 /\ h[c].pass < MaxPasses) =>
          /\ h[c].had \cap evt = {}
          /\ (UNION {GaveUp(e) : e \in h[c].had}) \cap own
                \subseteq {<<m[2], m[3]>> : m \in scene.moves \ moves}

Refers(e, w) == e.kind = 31415 /\ FirstTag(e, "wot_file") = w

\* With one connection, the social graph of a stored permission event has an
\* owner, however often versions come and go, and one that was replaced
\* everywhere has none.
GraphsKept ==
    Alone => \A w \in {x \in DOMAIN Files : Files[x].wot} :
       /\ (\E e \in evt : Refers(e, w)) => Owners(w) # {}
       /\ (/\ Quiet /\ faults = 0 /\ restarts = 0 /\ ~\E e \in Sent : e.kind = 72
           /\ \E e \in scene.evt \cup {x \in Sent : x.id \in oks} : Refers(e, w)
           /\ ~\E e \in evt : Refers(e, w)
           /\ ~\E m \in scene.moves \ moves : m[2] = w) => Owners(w) = {}

\* The permission events of the repositories that refer to a DAG.
Referring(w) ==
    LET refs == {e \in evt : \E x \in {<<31415, "wot_file">>, <<73, "bundle">>, <<73, "archive">>, <<74, "dag_root">>} :
                    e.kind = x[1] /\ w \in Values(e, x[2])}
    IN UNION {Permissions(evt, FirstTag(e, "r")) : e \in refs}

\* A DAG that names no repository is open to anyone as long as every
\* repository that refers to it is public, and to none but their readers as
\* long as every one is private.
OpenDags ==
    \A w \in {x \in DOMAIN Files : Files[x].r = None} :
       LET of == Referring(w) IN
       (of # {} /\ <<>> \notin of) =>
          /\ (\A s \in of : \A p \in Range(s) : ~Private(p)) => CanReadDag(evt, w, None, blocked)
          /\ (\A s \in of : \A p \in Range(s) : Private(p)) =>
                \A k \in Keys : CanReadDag(evt, w, k, blocked) =>
                    k \in Invited \/ \E s \in of : \E p \in Range(s) : Reader(p, k)

\* Whoever may write an event of a repository without an invitation may read
\* the events of that repository, and whoever may upload a DAG that names one
\* may download it, unless it is a social graph not yet referred to.
WritersRead ==
    /\ \A e \in Sent :
          CanWriteEvent(evt, e, blocked, Known) =>
             \A x \in evt : (FirstTag(x, "r") = FirstTag(e, "r") /\ x.kind \in OverrideKinds \ {31415})
                            => CanReadEvent(evt, x, e.pubkey) \/ e.pubkey \in Invited
    /\ \A w \in {x \in DOMAIN Files : Files[x].r # None /\ ~Files[x].wot}, k \in Keys :
          CanWriteDag(evt, w, k, blocked, Known) => CanReadDag(evt, w, k, blocked)

\* Permissions fit together, whatever events are stored and in which order.
AccessRules == OpenDags /\ WritersRead

\* What the comments promise and interleavings break.
OnePermission == Quiet /\ faults = 0 /\ restarts = 0 =>
    \A r \in DOMAIN Repo : Cardinality({e \in evt : e.kind = 31415 /\ FirstTag(e, "r") = r}) <= 1
Announced == Quiet /\ faults = 0 /\ restarts = 0 =>
    \A e \in scene.evt : e.kind = 31415 /\ ~Cascaded(FirstTag(e, "r")) =>
        \E x \in evt : x.kind = 31415 /\ FirstTag(x, "r") = FirstTag(e, "r")
OwnersAgree == \A e \in evt : e.kind = 31415 => ResolvedOwner(e) = Ownership(e).owner
GraphsBound == \A e \in evt : e.kind = 31415 /\ FirstTag(e, "wot_file") # None =>
                  Owners(FirstTag(e, "wot_file")) # {}
PublicDags == \A w \in DOMAIN Files :
    (\E s \in Referring(w) : s # <<>> /\ ~Private(Latest(s))) => CanReadDag(evt, w, None, blocked)
=============================================================================
