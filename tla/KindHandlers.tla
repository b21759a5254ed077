----------------------------- MODULE KindHandlers -----------------------------
(***************************************************************************)
(* The goroutines that handle the events clients send.  Each connection    *)
(* handles its events one after the other; those of different connections  *)
(* interleave at every transaction of the store.  What a handler does to   *)
(* the store depends on the kind of the event:                             *)
(*   stored as it is; stored if the event it refers to is;                 *)
(*   stored after all versions before it were removed, or the older ones;  *)
(*   or stored first and its other versions removed then (kind 10010).     *)
(* Kind 5 removes events, kind 1984 also counts the reports on an event.   *)
(* Repositories (kinds 31415 and 72), subscriptions, disputes and media    *)
(* moderation are modules of their own.                                    *)
(***************************************************************************)
EXTENDS KindRules

CONSTANTS
    Conns,
    Scripts,            \* what the clients may send: [Conns -> Seq(Event)]
    UnderReview,        \* ids of blocked posts and of posts that await review
    Filters,            \* filters the answers to which are judged
    MaxFaults           \* bound: transactions that fail

ASSUME BoundAssumption == MaxFaults \in Nat

VARIABLES
    evt,                \* the stored events
    index,              \* ids in the search index
    reports,            \* report notifications: id -> count
    script,             \* what the clients send
    h,                  \* the handler of each connection
    oks,                \* history: ids acknowledged with OK true
    begun,              \* history: events whose handler has started
    faults,             \* how many transactions have failed
    unstored            \* history: events whose StoreEvent failed, until one is stored
                        \* that serves as well

vars == <<evt, index, reports, script, h, oks, begun, faults, unstored>>

Events == UNION {UNION {Range(s[c]) : c \in Conns} : s \in Scripts}

AtRest == [pc |-> "idle", pos |-> 1, todo |-> <<>>]

Init ==
    /\ evt = {} /\ index = {} /\ reports = <<>>
    /\ script \in Scripts
    /\ h = [c \in Conns |-> AtRest]
    /\ oks = {} /\ begun = {} /\ faults = 0 /\ unstored = {}

-----------------------------------------------------------------------------
(* A handler's steps.  Ev(c) is the event it handles, todo the events it    *)
(* still has to remove.                                                     *)

Ev(c) == script[c][h[c].pos]

Goto(c, pc, todo) == h' = [h EXCEPT ![c].pc = pc, ![c].todo = todo]
End(c)            == h' = [h EXCEPT ![c] = [AtRest EXCEPT !.pos = h[c].pos + 1]]
Ok(c)             == End(c) /\ oks' = oks \cup {Ev(c).id}
Refuse(c)         == End(c) /\ UNCHANGED oks
Then(c, pc, todo) == Goto(c, pc, todo) /\ UNCHANGED oks

\* The handler takes an event that is one of these and acceptable.
Takes(c, kinds) ==
    /\ h[c].pc = "idle" /\ h[c].pos <= Len(script[c])
    /\ Ev(c).kind \in kinds /\ Accepts(Ev(c))
    /\ begun' = begun \cup {Ev(c)}

MineOfKind(e)  == [AnyFilter EXCEPT !.pubkeys = <<e.pubkey>>, !.kinds = <<e.kind>>]
WithDMut(e, d) == [AnyFilter EXCEPT !.tags = [n \in {"d"} |-> <<d>>]]
WithD(e, d)    == [AnyFilter EXCEPT !.pubkeys = <<e.pubkey>>, !.tags = [n \in {"d"} |-> <<d>>]]
SentBy(s)      == UNION {Range(s[c]) : c \in Conns}
Sent           == SentBy(script)
Stored(id)     == \E e \in evt : e.id = id
Event(id)      == CHOOSE e \in Sent : e.id = id
Ids(s)         == [i \in DOMAIN s |-> s[i].id]

\* What follows when rest is left to remove: the next one, or else storing the
\* event; kind 10010 has stored it already and kind 5 is not stored.
Continue(c, rest) ==
    IF Ev(c).kind = 5 THEN (IF rest = <<>> THEN Refuse(c) ELSE Then(c, "ask", rest))
    ELSE IF rest # <<>> THEN Then(c, IF Universal(Ev(c).kind) THEN "compare" ELSE "erase", rest)
    ELSE IF Ev(c).kind = 10010 THEN Ok(c) ELSE Then(c, "put", <<>>)

Reject(c) ==
    /\ h[c].pc = "idle" /\ h[c].pos <= Len(script[c]) /\ ~Accepts(Ev(c))
    /\ begun' = begun \cup {Ev(c)}
    /\ Refuse(c)
    /\ UNCHANGED <<evt, index, reports, script, faults, unstored>>

-----------------------------------------------------------------------------
(* What each family of kinds does before it stores                          *)

PlainKinds == {1, 7, 8, 77, 443, 444, 445, 1059, 1808, 9735, 9802, 10010, 10051, 11011,
               16630, 30008, 30009, 30078}

Plain(c) ==
    /\ Takes(c, PlainKinds)
    /\ Then(c, "put", <<>>)
    /\ UNCHANGED <<evt, index, reports, script, faults, unstored>>

\* No answer at all for kinds 6 and 1809 that name nothing.
Repost(c) ==
    /\ Takes(c, Reposts)
    /\ IF Reference(Ev(c)) # None /\ Stored(Reference(Ev(c))) THEN Then(c, "put", <<>>) ELSE Refuse(c)
    /\ UNCHANGED <<evt, index, reports, script, faults, unstored>>

\* Every version before this one goes, whichever is the newest.
WipeKinds == {0, 3, 10000, 10001, 10002, 30000, 30079}

Wipe(c) ==
    /\ Takes(c, WipeKinds)
    /\ \E old \in QueryEvents(evt, MineOfKind(Ev(c))) :
          IF old = <<>> /\ ~AcceptsFirst(Ev(c)) THEN Refuse(c) ELSE Continue(c, Ids(old))
    /\ UNCHANGED <<evt, index, reports, script, faults, unstored>>

\* So does every event of the author with this d tag, of whatever kind.
Write(c) ==
    /\ Takes(c, {30023})
    /\ \E old \in QueryEvents(evt, WithD(Ev(c), First(Ev(c), {"d"}))) : Continue(c, Ids(old))
    /\ UNCHANGED <<evt, index, reports, script, faults, unstored>>

\* The universal handler; an event without a d tag is looked for under "".
Name(e) == IF First(e, {"d"}) = None THEN "" ELSE First(e, {"d"})
Others(e) ==
    CASE Replaceable(e.kind) -> QueryEvents(evt, MineOfKind(e))
      [] Addressable(e.kind) -> QueryEvents(evt, [WithD(e, Name(e)) EXCEPT !.kinds = <<e.kind>>])
      [] OTHER -> {<<>>}

Replace(c) ==
    /\ h[c].pc = "idle" /\ h[c].pos <= Len(script[c]) /\ Universal(Ev(c).kind)
    /\ Takes(c, {Ev(c).kind})
    /\ IF Ephemeral(Ev(c).kind) THEN Ok(c)
       ELSE \E old \in Others(Ev(c)) : Continue(c, Ids(old))
    /\ UNCHANGED <<evt, index, reports, script, faults, unstored>>

OlderMut(c, e) == TRUE
Older(c, e) == e.at < Ev(c).at

\* Event by event: an older one goes, a newer one ends it, an equal one stays.
Compare(c) ==
    /\ h[c].pc = "compare"
    /\ LET e == Event(Head(h[c].todo)) IN
       IF Older(c, e) THEN Then(c, "erase", h[c].todo)
       ELSE IF e.at > Ev(c).at THEN Refuse(c)
       ELSE Continue(c, Tail(h[c].todo))
    /\ UNCHANGED <<evt, index, reports, script, begun, faults, unstored>>

\* An audio message replaces the older ones of the same file, or none at all.
Audio(c) ==
    /\ Takes(c, {1063})
    /\ \E mine \in QueryEvents(evt, MineOfKind(Ev(c))) :
          LET same == Picked(mine, {i \in DOMAIN mine :
                                      First(mine[i], {"blossom_hash"}) = First(Ev(c), {"blossom_hash"})})
          IN IF \A i \in DOMAIN same : Older(c, same[i]) THEN Continue(c, Ids(same)) ELSE Refuse(c)
    /\ UNCHANGED <<evt, index, reports, script, faults, unstored>>

\* A report on a stored event is counted, unless the event awaits or has
\* failed its review.
Reported(e) == LET t == {i \in DOMAIN e.tags : e.tags[i][1] = "e" /\ Len(e.tags[i]) >= 3}
               IN IF t = {} THEN None ELSE e.tags[Max(t)][2]

\* ... and then the report is acknowledged before it is stored.
ReportEvent(c) ==
    LET id == Reported(Ev(c)) IN
    /\ Takes(c, {1984})
    /\ IF id = None THEN Then(c, "put", <<>>)
       ELSE IF ~Stored(id) THEN Refuse(c)
       ELSE IF id \in UnderReview THEN Goto(c, "put", <<>>) /\ oks' = oks \cup {Ev(c).id}
       ELSE Then(c, "count", <<>>)
    /\ UNCHANGED <<evt, index, reports, script, faults, unstored>>

\* The row is looked for ...
FindReport(c) ==
    /\ h[c].pc = "count"
    /\ Then(c, IF Reported(Ev(c)) \in DOMAIN reports THEN "add" ELSE "create", <<>>)
    /\ UNCHANGED <<evt, index, reports, script, begun, faults, unstored>>

\* ... and one is added to it, or it is created.  The second row of an event
\* is refused by the table and the count of this report is lost.
CountReport(c) ==
    LET id == Reported(Ev(c)) IN
    /\ h[c].pc \in {"add", "create"}
    /\ reports' = IF id \notin DOMAIN reports THEN [x \in DOMAIN reports \cup {id} |-> IF x = id THEN 1 ELSE reports[x]]
                  ELSE IF h[c].pc = "add" THEN [reports EXCEPT ![id] = @ + 1] ELSE reports
    /\ Then(c, "put", <<>>)
    /\ UNCHANGED <<evt, index, script, begun, faults, unstored>>

-----------------------------------------------------------------------------
(* DeleteEvent reads the event in one transaction and removes it with its   *)
(* keys in another, then from the search index.                             *)

Skip(c) == IF Ev(c).kind = 30023 THEN Refuse(c) ELSE Continue(c, Tail(h[c].todo))

Look(c) ==
    /\ h[c].pc = "erase"
    /\ IF Stored(Head(h[c].todo)) THEN Then(c, "remove", h[c].todo) ELSE Skip(c)
    /\ UNCHANGED <<evt, index, reports, script, begun, faults, unstored>>

Erase(c) ==
    LET id == Head(h[c].todo) IN
    /\ h[c].pc = "remove"
    /\ \/ /\ evt' = {e \in evt : e.id # id}
          /\ IF Event(id).kind = 1 THEN Then(c, "unindex", h[c].todo) ELSE Continue(c, Tail(h[c].todo))
          /\ UNCHANGED faults
       \/ /\ faults < MaxFaults /\ faults' = faults + 1
          /\ Skip(c) /\ UNCHANGED evt
    /\ UNCHANGED <<index, reports, script, begun, unstored>>

Unindex(c) ==
    /\ h[c].pc = "unindex"
    /\ index' = index \ {Head(h[c].todo)}
    /\ Continue(c, Tail(h[c].todo))
    /\ UNCHANGED <<evt, reports, script, begun, faults, unstored>>

\* Kind 5: every e tag is looked up, and removed if it is the author's own.
Delete(c) ==
    /\ Takes(c, {5})
    /\ LET t == Picked(Ev(c).tags, {i \in DOMAIN Ev(c).tags : Ev(c).tags[i][1] = "e" /\ Len(Ev(c).tags[i]) >= 2})
       IN Continue(c, [i \in DOMAIN t |-> t[i][2]])
    /\ UNCHANGED <<evt, index, reports, script, faults, unstored>>

OwnMut(c, id) == Stored(id)
Own(c, id) == Stored(id) /\ Event(id).pubkey = Ev(c).pubkey

Ask(c) ==
    /\ h[c].pc = "ask"
    /\ IF Own(c, Head(h[c].todo)) THEN Then(c, "erase", h[c].todo) ELSE Continue(c, Tail(h[c].todo))
    /\ UNCHANGED <<evt, index, reports, script, begun, faults, unstored>>

-----------------------------------------------------------------------------
(* Versions *)

\* The versions of one thing: at most one is wanted.
SameThing(a, b) ==
    /\ a.pubkey = b.pubkey /\ a.kind = b.kind
    /\ \/ a.kind \in WipeKinds \cup {10010}
       \/ a.kind = 30023 /\ First(a, {"d"}) = First(b, {"d"})
       \/ a.kind = 1063 /\ First(a, {"blossom_hash"}) = First(b, {"blossom_hash"})
       \/ Universal(a.kind) /\ Replaceable(a.kind)
       \/ Universal(a.kind) /\ Addressable(a.kind) /\ Name(a) = Name(b)

\* Where versions are compared.
Compared(e) == e.kind = 1063 \/ Universal(e.kind)

\* x, stored, stands for e: it is e, or another version that is not older where
\* versions are compared.
Serves(x, e) == (x = e \/ SameThing(x, e)) /\ (Compared(e) => x.at >= e.at)

-----------------------------------------------------------------------------
(* StoreEvent: the event with its keys in one transaction, then the index   *)

Put(c) ==
    /\ h[c].pc = "put"
    /\ \/ /\ evt' = evt \cup {Ev(c)}
          /\ CASE Ev(c).kind = 1 -> Then(c, "index", <<>>)
               [] Ev(c).kind = 10010 -> Then(c, "clean", <<>>)
               [] OTHER -> Ok(c)
          /\ unstored' = {x \in unstored : ~Serves(Ev(c), x)}
          /\ UNCHANGED faults
       \/ /\ faults < MaxFaults /\ faults' = faults + 1
          /\ unstored' = unstored \cup {Ev(c)}
          /\ Refuse(c) /\ UNCHANGED evt
    /\ UNCHANGED <<index, reports, script, begun>>

Index(c) ==
    /\ h[c].pc = "index"
    /\ index' = index \cup {Ev(c).id}
    /\ Ok(c)
    /\ UNCHANGED <<evt, reports, script, begun, faults, unstored>>

\* Kind 10010 removes up to ten others once its own is stored.
Clean(c) ==
    /\ h[c].pc = "clean"
    /\ \E all \in QueryEvents(evt, [MineOfKind(Ev(c)) EXCEPT !.limit = 10]) :
          Continue(c, Ids(Picked(all, {i \in DOMAIN all : all[i].id # Ev(c).id})))
    /\ UNCHANGED <<evt, index, reports, script, begun, faults, unstored>>

-----------------------------------------------------------------------------
Step(c) ==
    \/ Reject(c) \/ Plain(c) \/ Repost(c) \/ Wipe(c) \/ Write(c) \/ Replace(c) \/ Compare(c)
    \/ Audio(c) \/ ReportEvent(c) \/ FindReport(c) \/ CountReport(c)
    \/ Delete(c) \/ Ask(c) \/ Look(c) \/ Erase(c) \/ Unindex(c)
    \/ Put(c) \/ Index(c) \/ Clean(c)

Next == \E c \in Conns : Step(c)

Spec     == Init /\ [][Next]_vars

-----------------------------------------------------------------------------
(* What clients send                                                        *)

\* The kinds with a handler of their own.
ASSUME HandledAssumption == PlainKinds \cup Reposts \cup WipeKinds \cup {5, 1063, 1984, 30023} \subseteq Handled

\* An id is that of one event, and times fit into the keys of the store.
Regular(s) ==
    /\ \A c \in Conns : s[c] \in Seq(Range(s[c]))
    /\ \A e \in SentBy(s) : /\ e.id \in Int /\ e.at \in Nat /\ Unsigned(e.at) = e.at
                             /\ e.tags \in Seq(Range(e.tags))
    /\ \A a, b \in SentBy(s) : a.id = b.id => a = b

\* An article is sent once, a list has one name, and the preferences of a user
\* come over one connection.
Orderly(s) ==
    /\ \A c, d \in Conns : \A i \in DOMAIN s[c], j \in DOMAIN s[d] :
          s[c][i] = s[d][j] /\ s[c][i].kind = 30023 => c = d /\ i = j
    /\ \A e \in SentBy(s) : Universal(e.kind) /\ Addressable(e.kind) => Values(e, "d") \subseteq {First(e, {"d"})}
    /\ \A c, d \in Conns : \A a \in Range(s[c]), b \in Range(s[d]) :
          a.kind = 10010 /\ b.kind = 10010 /\ a.pubkey = b.pubkey => c = d

\* No query has more to answer than it may.
Few(s) == IsFiniteSet(SentBy(s)) /\ Cardinality(SentBy(s)) <= DefaultLimit

-----------------------------------------------------------------------------
TypeOK ==
    /\ evt \subseteq Events /\ index \subseteq {e.id : e \in Events}
    /\ DOMAIN reports \subseteq {e.id : e \in Events} /\ \A id \in DOMAIN reports : reports[id] \in Nat \ {0}
    /\ script \in Scripts
    /\ \A c \in Conns :
          /\ h[c].pc \in {"idle", "compare", "count", "add", "create", "ask", "erase", "remove",
                          "unindex", "put", "index", "clean"}
          /\ h[c].pos \in 1..(Len(script[c]) + 1)
          /\ h[c].pc \in {"compare", "ask", "erase", "remove", "unindex"} <=> h[c].todo # <<>>
    /\ begun \subseteq Events /\ oks \subseteq {e.id : e \in begun}
    /\ faults \in 0..MaxFaults /\ unstored \subseteq Events

Quiet == \A c \in Conns : h[c].pc = "idle"

\* The author asked for the removal of e: with kind 5, or by writing an article
\* of that name.
Withdrawn(e) == \E x \in begun :
    /\ x.pubkey = e.pubkey /\ Accepts(x)
    /\ \/ x.kind = 5 /\ \E t \in Range(x.tags) : t[1] = "e" /\ Len(t) >= 2 /\ t[2] = e.id
       \/ x.kind = 30023 /\ x # e /\ First(x, {"d"}) \in Values(e, "d")

\* ... or of another version, which may have taken its place.
Unwanted(e) == Withdrawn(e) \/ \E x \in begun : SameThing(x, e) /\ Withdrawn(x)

\* A failing StoreEvent cut off a handler that removes the other versions before
\* it stores, or one that has acknowledged its event already, a report on one
\* under review, and nothing that serves was stored since.
RemovesFirst(e) == SameThing(e, e) /\ e.kind \notin {10010, 30023}
OkFirst(e)      == e.kind = 1984 /\ Reported(e) \in UnderReview
CutOff(e)       == (RemovesFirst(e) \/ OkFirst(e)) /\ \E x \in unstored : Serves(x, e)

\* Whatever was acknowledged and not withdrawn by its author is stored, in this
\* version or another one, and a note is in the search index: no order in which
\* the handlers of several connections remove and store leaves none, and a
\* failing call does so only when it is the StoreEvent of another version in a
\* handler that removes before it stores, until a version is stored again.  (An
\* article asks for the removal of what has its name, so that the one it replaces
\* is withdrawn even if storing it fails.)  What is stored as it is, and the
\* preferences, which are stored first, survive every failing call.
NothingLost ==
    Quiet =>
        \A e \in begun : e.id \in oks /\ ~Ephemeral(e.kind) /\ ~Unwanted(e) =>
            /\ e \in evt \/ (\E x \in evt : SameThing(x, e)) \/ CutOff(e)
            /\ e.kind = 1 => e.id \in index

NewestStored ==
    Quiet =>
        \A e \in begun : e.id \in oks /\ Compared(e) /\ ~Ephemeral(e.kind) /\ ~Unwanted(e) =>
            (\E x \in evt : Serves(x, e)) \/ CutOff(e)

\* One connection alone leaves one version, or several of one time, as long as no
\* call fails (a failing deletion leaves the version it was to remove); the
\* universal handler finds no version without a d tag.
Alone(e)    == \E c \in Conns : \A d \in Conns \ {c} : ~\E x \in Range(script[d]) : SameThing(x, e)
Findable(e) == Universal(e.kind) /\ Addressable(e.kind) => First(e, {"d"}) # None
OneVersion ==
    Quiet /\ faults = 0 =>
        \A a, b \in evt : SameThing(a, b) /\ Alone(a) /\ Findable(a) /\ Findable(b) =>
            a = b \/ (Compared(a) /\ a.at = b.at)

\* Where versions are compared, the newest one that was acknowledged is never
\* given up for an older one, however many handlers are at it and whatever call
\* fails, unless a failing StoreEvent cut a handler off after its deletions; and
\* while no call has failed, a connection that is alone with its events leaves no
\* other version.
NewestKept == NewestStored /\ OneVersion

\* A handler removes only events of the author of the event it handles.
OwnEventsOnly ==
    [][\A e \in evt \ evt' : \E c \in Conns : h[c] # h'[c] /\ Ev(c).pubkey = e.pubkey]_vars

\* A query by the indexes finds what its filter describes: the newest matching
\* events, newest first, up to the limit.
QueryRight == Quiet => \A f \in Filters : Right(evt, f)

\* The row of a reported event holds the number of its reports.
Counted(id) == {e \in begun : e.kind = 1984 /\ Reported(e) = id /\ e.id \in oks}
ReportsCounted ==
    Quiet /\ faults = 0 =>
        \A id \in DOMAIN reports : reports[id] = Cardinality(Counted(id))

\* Of the profiles an author published, the newest one is the one stored.
NewestProfile ==
    Quiet /\ faults = 0 =>
        \A e \in begun : e.kind = 0 /\ e.id \in oks => \E x \in evt : SameThing(x, e) /\ x.at >= e.at
=============================================================================
