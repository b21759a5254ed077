------------------------- MODULE KindHandlersProofs -------------------------
(***************************************************************************)
(* Theorems of KindHandlers, for any connections and any events sent over  *)
(* them in any order.                                                      *)
(***************************************************************************)
EXTENDS KindHandlers, EventStoreProofs

Replacing(k) == k \in WipeKinds \cup {1063} \/ (Universal(k) /\ ~Ephemeral(k))
Removing     == {"erase", "remove", "unindex"}
Pcs          == {"idle", "compare", "count", "add", "create", "ask", "erase", "remove", "unindex",
                 "put", "index", "clean"}
NamedBy(s)   == {e.id : e \in SentBy(s)} \cup
                {t[2] : t \in {x \in UNION {Range(e.tags) : e \in SentBy(s)} : x[1] = "e" /\ Len(x) >= 2}}
Handler      == [pc : Pcs, pos : Nat \ {0}, todo : Seq(NamedBy(script))]

-----------------------------------------------------------------------------
(* The inductive invariant *)

\* Why the handler of e may remove x.
Displaced(e, x) ==
    IF e.kind = 30023 THEN First(e, {"d"}) \in Values(x, "d") /\ x # e
    ELSE SameThing(e, x) /\ (e.kind = 10010 => x # e) /\ (e.kind = 1063 => x.at < e.at)

\* Why it has an id on its list.
Due(s, e, id) ==
    IF e.kind = 5 THEN \E t \in Range(e.tags) : t[1] = "e" /\ Len(t) >= 2 /\ t[2] = id
    ELSE \E x \in SentBy(s) : x.id = id /\ x.pubkey = e.pubkey /\ (Orderly(s) => Displaced(e, x))

\* The list of the universal handler starts with the newest.
Sorted(s, todo) ==
    \A i, j \in DOMAIN todo : \A x, y \in SentBy(s) :
        i < j /\ x.id = todo[i] /\ y.id = todo[j] => x.at >= y.at

Dues(s, e, todo) ==
    /\ todo \in Seq(NamedBy(s))
    /\ \A i \in DOMAIN todo : Due(s, e, todo[i])
    /\ Universal(e.kind) => Sorted(s, todo)

\* A handler only gets to the steps of its kind ...
Fits(e, pc) ==
    /\ pc \in Pcs
    /\ pc = "ask" => e.kind = 5
    /\ pc = "compare" => Universal(e.kind) /\ ~Ephemeral(e.kind)
    /\ pc \in Removing => e.kind \in {5, 30023, 10010} \/ Replacing(e.kind)
    /\ pc = "put" => e.kind # 5
    /\ pc \in {"count", "add", "create"} => e.kind = 1984
    /\ pc = "index" => e.kind = 1
    /\ pc = "clean" => e.kind = 10010

\* ... with something on its list where it goes through that.
Ready(s, e, pc, todo) ==
    /\ pc \in {"compare", "ask"} \cup Removing <=> todo # <<>>
    /\ pc \in Removing =>
          /\ Universal(e.kind) => \A x \in SentBy(s) : x.id = todo[1] => x.at < e.at
          /\ e.kind = 5 => \E x \in SentBy(s) : x.id = todo[1] /\ x.pubkey = e.pubkey

Task(c) ==
    h[c].pc # "idle" =>
       /\ h[c].pos \in DOMAIN script[c] /\ Ev(c) \in begun /\ Accepts(Ev(c))
       /\ Fits(Ev(c), h[c].pc) /\ Dues(script, Ev(c), h[c].todo) /\ Ready(script, Ev(c), h[c].pc, h[c].todo)

Shape ==
    /\ Regular(script) /\ h \in [Conns -> Handler]
    /\ begun \subseteq Sent /\ evt \subseteq begun /\ IsFiniteSet(evt)
    /\ oks \subseteq {e.id : e \in begun} /\ faults \in Nat /\ unstored \subseteq begun

\* A stored article was handled before.
Past == \A e \in evt : e.kind = 30023 =>
           \E d \in Conns : \E j \in DOMAIN script[d] : j < h[d].pos /\ script[d][j] = e

Basics == Shape /\ (Orderly(script) => Past) /\ \A c \in Conns : Task(c)

-----------------------------------------------------------------------------
(* The events that were sent *)

\* An event that is sent is found by its id.
LEMMA EventIs ==
    ASSUME Regular(script), NEW x \in Sent
    PROVE  Event(x.id) = x
<1>1. Event(x.id) \in Sent /\ Event(x.id).id = x.id  BY DEF Event
<1>. QED  BY <1>1 DEF Regular, Sent

LEMMA EvSent ==
    ASSUME NEW c \in Conns, h[c].pos \in DOMAIN script[c]
    PROVE  Ev(c) \in Sent
BY DEF Ev, Sent, SentBy, Range

LEMMA TimedEvents ==
    ASSUME Shape
    PROVE  Timed(evt)
BY DEF Shape, Regular, Sent, Timed

\* The next event of a connection.
LEMMA NextEvent ==
    ASSUME Shape, NEW c \in Conns, h[c].pos <= Len(script[c])
    PROVE  h[c].pos \in DOMAIN script[c] /\ Ev(c) \in Sent
<1>1. script[c] \in Seq(Range(script[c]))  BY DEF Shape, Regular
<1>2. DOMAIN script[c] = 1..Len(script[c]) /\ Len(script[c]) \in Nat  BY <1>1, LenProperties
<1>3. h[c].pos \in Nat \ {0}  BY DEF Shape, Handler
<1>4. h[c].pos \in DOMAIN script[c]  BY <1>2, <1>3
<1>. QED  BY <1>4, EvSent

-----------------------------------------------------------------------------
(* A step of a handler *)

\* What a step of c leaves as it is.
Moved(c, pc, todo, pos) ==
    /\ script' = script
    /\ h' \in [Conns -> Handler] /\ h'[c].pc = pc /\ h'[c].todo = todo /\ h'[c].pos = pos
    /\ \A d \in Conns \ {c} : h'[d] = h[d]

LEMMA GotoIs ==
    ASSUME h \in [Conns -> Handler], NEW c \in Conns, NEW pc \in Pcs, NEW todo \in Seq(NamedBy(script)),
           Goto(c, pc, todo), script' = script
    PROVE  Moved(c, pc, todo, h[c].pos)
<1>1. h' = [h EXCEPT ![c] = [h[c] EXCEPT !.pc = pc, !.todo = todo]]  BY DEF Goto, Handler
<1>2. [h[c] EXCEPT !.pc = pc, !.todo = todo] \in Handler  BY DEF Handler
<1>3. h'[c] = [h[c] EXCEPT !.pc = pc, !.todo = todo]  BY <1>1
<1>4. h'[c].pc = pc /\ h'[c].todo = todo /\ h'[c].pos = h[c].pos  BY <1>3 DEF Handler
<1>. QED  BY <1>1, <1>2, <1>4 DEF Moved

LEMMA EndIs ==
    ASSUME h \in [Conns -> Handler], NEW c \in Conns, End(c), script' = script
    PROVE  Moved(c, "idle", <<>>, h[c].pos + 1)
<1> DEFINE r == [AtRest EXCEPT !.pos = h[c].pos + 1]
<1>1. h' = [h EXCEPT ![c] = r]  BY DEF End
<1>2. r = [pc |-> "idle", pos |-> h[c].pos + 1, todo |-> <<>>]  BY DEF AtRest
<1>3. r \in Handler /\ r.pc = "idle" /\ r.todo = <<>> /\ r.pos = h[c].pos + 1
  <2>1. h[c].pos + 1 \in Nat \ {0}  BY DEF Handler
  <2>2. <<>> \in Seq(NamedBy(script))  OBVIOUS
  <2>. QED  BY <1>2, <2>1, <2>2 DEF Handler, Pcs
<1> HIDE DEF r
<1>. QED  BY <1>1, <1>3 DEF Moved

\* A step of c on event e.
Stepped(c, pc, todo, pos) ==
    /\ Moved(c, pc, todo, pos)
    /\ begun \subseteq begun' /\ begun' \subseteq begun \cup {Ev(c)}

\* The handlers of the other connections stay where they are.
LEMMA OthersTask ==
    ASSUME Basics, NEW c \in Conns, script' = script, begun \subseteq begun',
           NEW d \in Conns, h'[d] = h[d]
    PROVE  Task(d)' /\ Ev(d)' = Ev(d)
<1>1. Ev(d)' = Ev(d)  BY DEF Ev
<1>2. Task(d)  BY DEF Basics
<1>. QED  BY <1>1, <1>2 DEF Task

\* A handler that has ended.
LEMMA EndTask ==
    ASSUME NEW c \in Conns, NEW pos, Moved(c, "idle", <<>>, pos)
    PROVE  Task(c)'
BY DEF Task, Moved

\* A handler that goes on with its event.
LEMMA GoTask ==
    ASSUME Shape, NEW c \in Conns, NEW pc \in Pcs, NEW todo, Moved(c, pc, todo, h[c].pos),
           h[c].pos \in DOMAIN script[c], Ev(c) \in begun', Accepts(Ev(c)),
           Fits(Ev(c), pc), Dues(script, Ev(c), todo), Ready(script, Ev(c), pc, todo)
    PROVE  Task(c)' /\ Ev(c)' = Ev(c)
<1>1. Ev(c)' = Ev(c)  BY DEF Ev, Moved
<1>2. script' = script /\ h'[c].pc = pc /\ h'[c].todo = todo /\ h'[c].pos = h[c].pos  BY DEF Moved
<1>. QED  BY <1>1, <1>2 DEF Task

\* Nothing is left of an empty list, and what holds for a list does for its rest.
LEMMA NoneDue ==
    ASSUME NEW e
    PROVE  Dues(script, e, <<>>)
<1>1. <<>> \in Seq(NamedBy(script)) /\ DOMAIN <<>> = {}  OBVIOUS
<1>2. Sorted(script, <<>>)  BY <1>1 DEF Sorted
<1>. QED  BY <1>1, <1>2 DEF Dues

LEMMA TailDue ==
    ASSUME NEW e, NEW todo, Dues(script, e, todo), todo # <<>>
    PROVE  /\ Dues(script, e, Tail(todo)) /\ Due(script, e, Head(todo)) /\ Head(todo) = todo[1]
           /\ 1 \in DOMAIN todo
<1> DEFINE rest == Tail(todo)
<1>1. todo \in Seq(NamedBy(script))  BY DEF Dues
<1>2. Len(todo) \in Nat /\ DOMAIN todo = 1..Len(todo) /\ Len(todo) # 0
  BY <1>1, LenProperties, EmptySeq
<1>3. rest \in Seq(NamedBy(script)) /\ Len(rest) = Len(todo) - 1 /\ DOMAIN rest = 1..Len(rest)
      /\ \A i \in 1..Len(rest) : rest[i] = todo[i + 1]
  BY <1>1, <1>2, HeadTailProperties, LenProperties
<1>4. \A i \in DOMAIN rest : i + 1 \in DOMAIN todo /\ rest[i] = todo[i + 1]  BY <1>2, <1>3
<1>5. \A i, j \in DOMAIN rest : i < j => i + 1 < j + 1  BY <1>3
<1>6. Head(todo) = todo[1] /\ 1 \in DOMAIN todo  BY <1>1, <1>2, HeadTailProperties
<1> HIDE DEF rest
<1>7. \A i \in DOMAIN rest : Due(script, e, rest[i])  BY <1>4 DEF Dues
<1>8. Universal(e.kind) => Sorted(script, rest)  BY <1>4, <1>5 DEF Dues, Sorted
<1>. QED  BY <1>3, <1>6, <1>7, <1>8 DEF Dues, rest

-----------------------------------------------------------------------------
(* What the parts of a handler come to *)

LEMMA ThenIs ==
    ASSUME Shape, NEW c \in Conns, NEW pc \in Pcs, NEW todo \in Seq(NamedBy(script)), Then(c, pc, todo), script' = script
    PROVE  Moved(c, pc, todo, h[c].pos) /\ oks' = oks
BY GotoIs DEF Then, Shape

LEMMA RefuseIs ==
    ASSUME Shape, NEW c \in Conns, Refuse(c), script' = script
    PROVE  Moved(c, "idle", <<>>, h[c].pos + 1) /\ oks' = oks
BY EndIs DEF Refuse, Shape

LEMMA OkIs ==
    ASSUME Shape, NEW c \in Conns, Ok(c), script' = script
    PROVE  Moved(c, "idle", <<>>, h[c].pos + 1) /\ oks' = oks \cup {Ev(c).id}
BY EndIs DEF Ok, Shape

\* How a handler may leave a step.
Goes(c) == \E pc \in Pcs : \E todo : /\ Moved(c, pc, todo, h[c].pos) /\ oks' = oks /\ pc # "idle"
                                      /\ Task(c)' /\ Ev(c)' = Ev(c)
Ends(c) == Moved(c, "idle", <<>>, h[c].pos + 1) /\ oks' = oks
Done(c) == Moved(c, "idle", <<>>, h[c].pos + 1) /\ oks' = oks \cup {Ev(c).id}

\* What follows when the rest of the list is left.
LEMMA ContinueIs ==
    ASSUME Shape, NEW c \in Conns, NEW rest, Dues(script, Ev(c), rest), Continue(c, rest), script' = script,
           h[c].pos \in DOMAIN script[c], Ev(c) \in begun', Accepts(Ev(c)),
           Ev(c).kind \in {5, 30023, 10010} \/ Replacing(Ev(c).kind)
    PROVE  /\ rest = <<>> /\ Ev(c).kind = 5 => Ends(c)
           /\ rest = <<>> /\ Ev(c).kind = 10010 => Done(c)
           /\ ~(rest = <<>> /\ Ev(c).kind \in {5, 10010}) =>
                 LET pc == IF rest = <<>> THEN "put" ELSE IF Ev(c).kind = 5 THEN "ask"
                           ELSE IF Universal(Ev(c).kind) THEN "compare" ELSE "erase"
                 IN Moved(c, pc, rest, h[c].pos) /\ oks' = oks /\ Task(c)' /\ Ev(c)' = Ev(c)
<1> DEFINE e == Ev(c)
           pc == IF rest = <<>> THEN "put" ELSE IF e.kind = 5 THEN "ask"
                 ELSE IF Universal(e.kind) THEN "compare" ELSE "erase"
<1>1. rest \in Seq(NamedBy(script)) /\ <<>> \in Seq(NamedBy(script))  BY DEF Dues
<1>2. 5 \in Handled /\ 10010 \in Handled /\ 30023 \in Handled
  BY HandledAssumption DEF PlainKinds
<1>3. Universal(e.kind) => e.kind \notin {5, 10010, 30023}  BY <1>2 DEF Universal
<1>4. pc \in Pcs  BY DEF Pcs
<1>5. CASE rest = <<>> /\ e.kind = 5
  <2>1. Refuse(c)  BY <1>5 DEF Continue
  <2>. QED  BY <1>5, <2>1, RefuseIs DEF Ends
<1>6. CASE rest = <<>> /\ e.kind = 10010
  <2>1. Ok(c)  BY <1>6 DEF Continue
  <2>. QED  BY <1>6, <2>1, OkIs DEF Done
<1>7. CASE ~(rest = <<>> /\ e.kind \in {5, 10010})
  <2>1. Then(c, pc, rest)  BY <1>7 DEF Continue
  <2>2. Moved(c, pc, rest, h[c].pos) /\ oks' = oks
    <3>. HIDE DEF pc
    <3>. QED  BY <1>1, <1>4, <2>1, ThenIs
  <2>3. Fits(e, pc)
    <3>1. pc = "ask" => e.kind = 5  OBVIOUS
    <3>2. pc = "compare" => Universal(e.kind) /\ ~Ephemeral(e.kind)
      <4>1. Universal(e.kind) => e.kind \notin WipeKinds \cup {1063}
        BY HandledAssumption DEF Universal
      <4>. QED  BY <1>3, <4>1 DEF Replacing
    <3>3. pc = "put" => e.kind # 5  BY <1>7
    <3>4. pc \in {"put", "ask", "compare", "erase"}  OBVIOUS
    <3>. HIDE DEF pc, e
    <3>. QED  BY <1>4, <3>1, <3>2, <3>3, <3>4 DEF Fits, Removing, e
  <2>4. Ready(script, e, pc, rest)
    <3>1. pc \in {"compare", "ask"} \cup Removing <=> rest # <<>>  BY DEF Removing
    <3>2. pc \in Removing => ~Universal(e.kind) /\ e.kind # 5  BY DEF Removing
    <3>. HIDE DEF pc
    <3>. QED  BY <3>1, <3>2 DEF Ready
  <2>5. Task(c)' /\ Ev(c)' = e
    <3>. HIDE DEF pc
    <3>. QED  BY <1>4, <2>2, <2>3, <2>4, GoTask
  <2>. QED  BY <1>7, <2>2, <2>5
<1>. QED  BY <1>5, <1>6, <1>7
-----------------------------------------------------------------------------
(* The queries of the handlers *)

\* The events of an author and a kind.
LEMMA MineIs ==
    ASSUME NEW e, NEW n \in Int
    PROVE  LET f == [MineOfKind(e) EXCEPT !.limit = n] IN
           /\ Proper(f) /\ f.ids = <<>> /\ f.limit = n
           /\ \A x : Matches(x, f) <=> x.pubkey = e.pubkey /\ x.kind = e.kind
<1> DEFINE f == [MineOfKind(e) EXCEPT !.limit = n]
           z == <<>>
           a == <<e.pubkey>>
           b == <<e.kind>>
           l == 0
<1>0. /\ MineOfKind(e) = [AnyFilter EXCEPT !.pubkeys = a, !.kinds = b]
      /\ AnyFilter = [ids |-> z, pubkeys |-> z, kinds |-> z, tags |-> z,
                      since |-> None, until |-> None, search |-> None, limit |-> l]
      /\ f = [MineOfKind(e) EXCEPT !.limit = n]
  BY DEF MineOfKind, AnyFilter
<1> HIDE DEF f, z, a, b, l
<1>1. f = [ids |-> z, pubkeys |-> a, kinds |-> b, tags |-> z,
           since |-> None, until |-> None, search |-> None, limit |-> n]
  BY <1>0
<1>2. DOMAIN f.tags = {} /\ z = <<>> /\ a = <<e.pubkey>> /\ b = <<e.kind>>  BY <1>1 DEF z, a, b
<1>3. Bounded(f)  BY <1>1 DEF Bounded
<1>4. Proper(f)  BY <1>1, <1>2, <1>3, AnyIs, OneValue DEF Proper
<1>5. \A x : Matches(x, f) <=> x.pubkey = e.pubkey /\ x.kind = e.kind
  BY <1>1, <1>2, OneValue DEF Matches
<1>. QED  BY <1>1, <1>2, <1>4, <1>5 DEF f

LEMMA MineAll ==
    ASSUME NEW e
    PROVE  /\ Proper(MineOfKind(e)) /\ MineOfKind(e).ids = <<>> /\ MineOfKind(e).limit = 0
           /\ \A x : Matches(x, MineOfKind(e)) <=> x.pubkey = e.pubkey /\ x.kind = e.kind
<1> DEFINE f == MineOfKind(e)
           z == <<>>
           a == <<e.pubkey>>
           b == <<e.kind>>
           l == 0
<1>0. /\ f = [AnyFilter EXCEPT !.pubkeys = a, !.kinds = b]
      /\ AnyFilter = [ids |-> z, pubkeys |-> z, kinds |-> z, tags |-> z,
                      since |-> None, until |-> None, search |-> None, limit |-> l]
  BY DEF MineOfKind, AnyFilter
<1> HIDE DEF f, z, a, b, l
<1>1. f = [ids |-> z, pubkeys |-> a, kinds |-> b, tags |-> z,
           since |-> None, until |-> None, search |-> None, limit |-> l]
  BY <1>0
<1>2. DOMAIN f.tags = {} /\ z = <<>> /\ a = <<e.pubkey>> /\ b = <<e.kind>> /\ l = 0  BY <1>1 DEF z, a, b, l
<1>3. Bounded(f)  BY <1>1, <1>2 DEF Bounded
<1>4. Proper(f)  BY <1>1, <1>2, <1>3, AnyIs, OneValue DEF Proper
<1>5. \A x : Matches(x, f) <=> x.pubkey = e.pubkey /\ x.kind = e.kind
  BY <1>1, <1>2, OneValue DEF Matches
<1>. QED  BY <1>1, <1>2, <1>4, <1>5 DEF f

\* Those with a d tag.
LEMMA WithDIs ==
    ASSUME NEW e, NEW d
    PROVE  LET f == WithD(e, d)
               g == [WithD(e, d) EXCEPT !.kinds = <<e.kind>>] IN
           /\ Proper(f) /\ f.ids = <<>> /\ f.limit = 0
           /\ \A x : Matches(x, f) <=> x.pubkey = e.pubkey /\ d \in Values(x, "d")
           /\ Proper(g) /\ g.ids = <<>> /\ g.limit = 0
           /\ \A x : Matches(x, g) <=> x.pubkey = e.pubkey /\ x.kind = e.kind /\ d \in Values(x, "d")
<1> DEFINE f == WithD(e, d)
           g == [WithD(e, d) EXCEPT !.kinds = <<e.kind>>]
           t == [n \in {"d"} |-> <<d>>]
           z == <<>>
           a == <<e.pubkey>>
           b == <<e.kind>>
           l == 0
<1>0. /\ f = [AnyFilter EXCEPT !.pubkeys = a, !.tags = t]
      /\ AnyFilter = [ids |-> z, pubkeys |-> z, kinds |-> z, tags |-> z,
                      since |-> None, until |-> None, search |-> None, limit |-> l]
      /\ g = [f EXCEPT !.kinds = b]
  BY DEF WithD, AnyFilter
<1>2. DOMAIN t = {"d"} /\ t["d"] = <<d>>  OBVIOUS
<1> HIDE DEF f, g, t, z, a, b, l
<1>1. /\ f = [ids |-> z, pubkeys |-> a, kinds |-> z, tags |-> t,
              since |-> None, until |-> None, search |-> None, limit |-> l]
      /\ g = [ids |-> z, pubkeys |-> a, kinds |-> b, tags |-> t,
              since |-> None, until |-> None, search |-> None, limit |-> l]
  BY <1>0
<1>9. z = <<>> /\ a = <<e.pubkey>> /\ b = <<e.kind>> /\ l = 0  BY DEF z, a, b, l
<1>3. Bounded(f) /\ Bounded(g)  BY <1>1, <1>9 DEF Bounded
<1>4. \A n \in DOMAIN t : t[n] \in Seq(Range(t[n])) /\ Range(t[n]) = {d}  BY <1>2, OneValue
<1>5. Proper(f) /\ Proper(g)  BY <1>1, <1>3, <1>4, <1>9, AnyIs, OneValue DEF Proper
<1>6. \A x : (\A n \in DOMAIN t : Values(x, n) \cap Range(t[n]) # {}) <=> d \in Values(x, "d")
  BY <1>2, <1>4
<1>7. \A x : Matches(x, f) <=> x.pubkey = e.pubkey /\ d \in Values(x, "d")
  <2>. SUFFICES ASSUME NEW x PROVE Matches(x, f) <=> x.pubkey = e.pubkey /\ d \in Values(x, "d")  OBVIOUS
  <2>1. f.tags = t /\ f.pubkeys = <<e.pubkey>> /\ f.kinds = <<>> /\ f.ids = <<>> /\ f.since = None /\ f.until = None
        /\ f.search = None
    BY <1>1, <1>9
  <2>. QED  BY <2>1, <1>6, OneValue DEF Matches
<1>8. \A x : Matches(x, g) <=> x.pubkey = e.pubkey /\ x.kind = e.kind /\ d \in Values(x, "d")
  <2>. SUFFICES ASSUME NEW x
                PROVE  Matches(x, g) <=> x.pubkey = e.pubkey /\ x.kind = e.kind /\ d \in Values(x, "d")
    OBVIOUS
  <2>1. g.tags = t /\ g.pubkeys = <<e.pubkey>> /\ g.kinds = <<e.kind>> /\ g.ids = <<>> /\ g.since = None
        /\ g.until = None /\ g.search = None
    BY <1>1, <1>9
  <2>. QED  BY <2>1, <1>6, OneValue DEF Matches
<1>. QED  BY <1>1, <1>5, <1>7, <1>8, <1>9 DEF f, g

LEMMA WithDAll ==
    ASSUME NEW e, NEW d
    PROVE  /\ Proper(WithD(e, d)) /\ WithD(e, d).ids = <<>> /\ WithD(e, d).limit = 0
           /\ \A x : Matches(x, WithD(e, d)) <=> x.pubkey = e.pubkey /\ d \in Values(x, "d")
BY WithDIs

-----------------------------------------------------------------------------
(* Lists from queries *)

LEMMA IdsDue ==
    ASSUME Shape, NEW e, e.kind # 5, NEW old \in Seq(evt),
           \A i \in DOMAIN old : old[i].pubkey = e.pubkey /\ (Orderly(script) => Displaced(e, old[i])),
           \A i, j \in DOMAIN old : i < j => old[i].at >= old[j].at
    PROVE  Dues(script, e, Ids(old))
<1> DEFINE todo == Ids(old)
<1>1. Len(old) \in Nat /\ DOMAIN old = 1..Len(old) /\ \A i \in DOMAIN old : old[i] \in evt
  BY LenProperties, ElementOfSeq
<1>2. DOMAIN todo = DOMAIN old /\ \A i \in DOMAIN todo : todo[i] = old[i].id  BY DEF Ids
<1>3. \A i \in DOMAIN old : old[i] \in SentBy(script)  BY <1>1 DEF Shape, Sent
<1>4. \A i \in DOMAIN todo : todo[i] \in NamedBy(script)  BY <1>2, <1>3 DEF NamedBy
<1>5. todo \in Seq(NamedBy(script))
  <2>1. todo = [i \in 1..Len(old) |-> todo[i]]  BY <1>1 DEF Ids
  <2>2. todo \in [1..Len(old) -> NamedBy(script)]
    <3>. HIDE DEF todo
    <3>. QED  BY <1>1, <1>2, <1>4, <2>1
  <2>. QED  BY <1>1, <2>2, SeqDef
<1> HIDE DEF todo
<1>6. \A i \in DOMAIN todo : Due(script, e, todo[i])  BY <1>2, <1>3 DEF Due
<1>7. Sorted(script, todo)
  <2>. SUFFICES ASSUME NEW i \in DOMAIN todo, NEW j \in DOMAIN todo, NEW x \in SentBy(script), NEW y \in SentBy(script),
                       i < j, x.id = todo[i], y.id = todo[j]
                PROVE  x.at >= y.at
    BY DEF Sorted
  <2>0. \A a, b \in SentBy(script) : a.id = b.id => a = b  BY DEF Shape, Regular
  <2>1. x = old[i] /\ y = old[j]  BY <1>2, <1>3, <2>0
  <2>. QED  BY <1>2, <2>1
<1>. QED  BY <1>5, <1>6, <1>7 DEF Dues, todo

\* Removing versions of the author's own.
LEMMA WipeDue ==
    ASSUME Shape, NEW e, e.kind \in WipeKinds, NEW old \in QueryEvents(evt, MineOfKind(e))
    PROVE  Dues(script, e, Ids(old))
<1>1. Proper(MineOfKind(e)) /\ MineOfKind(e).ids = <<>>  BY MineAll
<1>2. /\ old \in Seq(evt)
      /\ \A i \in DOMAIN old : old[i] \in Matching(evt, MineOfKind(e))
      /\ \A i, j \in DOMAIN old : i < j => old[i].at >= old[j].at
  BY <1>1, AnswerIs, TimedEvents
<1>3. \A i \in DOMAIN old : old[i].pubkey = e.pubkey /\ old[i].kind = e.kind
  BY <1>2, MineAll DEF Matching
<1>4. e.kind # 5 /\ e.kind # 30023 /\ e.kind # 10010 /\ e.kind # 1063  BY DEF WipeKinds
<1>5. \A i \in DOMAIN old : Displaced(e, old[i])  BY <1>3, <1>4 DEF Displaced, SameThing
<1>. QED  BY <1>2, <1>3, <1>4, <1>5, IdsDue

LEMMA WriteDue ==
    ASSUME Shape, NEW e, e.kind = 30023, Orderly(script) => e \notin evt,
           NEW old \in QueryEvents(evt, WithD(e, First(e, {"d"})))
    PROVE  Dues(script, e, Ids(old))
<1> DEFINE f == WithD(e, First(e, {"d"}))
<1>1. Proper(f) /\ f.ids = <<>>  BY WithDAll
<1>2. \A x : Matches(x, f) <=> x.pubkey = e.pubkey /\ First(e, {"d"}) \in Values(x, "d")  BY WithDAll
<1> HIDE DEF f
<1>3. /\ old \in Seq(evt)
      /\ \A i \in DOMAIN old : old[i] \in Matching(evt, f)
      /\ \A i, j \in DOMAIN old : i < j => old[i].at >= old[j].at
  <2>1. old \in QueryEvents(evt, f)  BY DEF f
  <2>. QED  BY <1>1, <2>1, AnswerIs, TimedEvents
<1>4. \A i \in DOMAIN old : old[i].pubkey = e.pubkey /\ First(e, {"d"}) \in Values(old[i], "d") /\ old[i] \in evt
  BY <1>2, <1>3 DEF Matching
<1>5. \A i \in DOMAIN old : Orderly(script) => Displaced(e, old[i])  BY <1>4 DEF Displaced
<1>. QED  BY <1>3, <1>4, <1>5, IdsDue

LEMMA KindsApart ==
    ASSUME NEW k, Replaceable(k)
    PROVE  ~Addressable(k) /\ ~Ephemeral(k)
<1>1. k \in Int /\ k <= 19999  BY DEF Replaceable
<1>2. Addressable(k) => 30000 <= k  BY DEF Addressable
<1>3. Ephemeral(k) => 20000 <= k  BY DEF Ephemeral
<1>. QED  BY <1>1, <1>2, <1>3

LEMMA OthersDue ==
    ASSUME Shape, NEW e \in Sent, Universal(e.kind), NEW old \in Others(e)
    PROVE  Dues(script, e, Ids(old))
<1>1. e.kind \notin {5, 30023, 10010, 1063}
  BY HandledAssumption DEF Universal, PlainKinds
<1>2. CASE Replaceable(e.kind)
  <2>0. ~Addressable(e.kind)  BY <1>2, KindsApart
  <2>1. old \in QueryEvents(evt, MineOfKind(e))  BY <1>2, <2>0 DEF Others
  <2>2. Proper(MineOfKind(e)) /\ MineOfKind(e).ids = <<>>  BY MineAll
  <2>3. /\ old \in Seq(evt)
        /\ \A i \in DOMAIN old : old[i] \in Matching(evt, MineOfKind(e))
        /\ \A i, j \in DOMAIN old : i < j => old[i].at >= old[j].at
    BY <2>1, <2>2, AnswerIs, TimedEvents
  <2>4. \A i \in DOMAIN old : old[i].pubkey = e.pubkey /\ old[i].kind = e.kind
    BY <2>3, MineAll DEF Matching
  <2>5. \A i \in DOMAIN old : Displaced(e, old[i])  BY <1>1, <1>2, <2>4 DEF Displaced, SameThing
  <2>. QED  BY <1>1, <2>3, <2>4, <2>5, IdsDue
<1>3. CASE ~Replaceable(e.kind) /\ Addressable(e.kind)
  <2> DEFINE f == [WithD(e, Name(e)) EXCEPT !.kinds = <<e.kind>>]
  <2>1. old \in QueryEvents(evt, f)  BY <1>3 DEF Others
  <2>2. Proper(f) /\ f.ids = <<>>  BY WithDIs
  <2>3. \A x : Matches(x, f) <=> x.pubkey = e.pubkey /\ x.kind = e.kind /\ Name(e) \in Values(x, "d")  BY WithDIs
  <2> HIDE DEF f
  <2>4. /\ old \in Seq(evt)
        /\ \A i \in DOMAIN old : old[i] \in Matching(evt, f)
        /\ \A i, j \in DOMAIN old : i < j => old[i].at >= old[j].at
    BY <2>1, <2>2, AnswerIs, TimedEvents
  <2>5. \A i \in DOMAIN old : /\ old[i].pubkey = e.pubkey /\ old[i].kind = e.kind
                              /\ Name(e) \in Values(old[i], "d") /\ old[i] \in evt
    BY <2>3, <2>4 DEF Matching
  <2>6. ASSUME NEW i \in DOMAIN old, Orderly(script) PROVE Displaced(e, old[i])
    <3>1. old[i] \in SentBy(script)  BY <2>5 DEF Shape, Sent
    <3>2. Values(old[i], "d") \subseteq {First(old[i], {"d"})}  BY <1>3, <2>5, <2>6, <3>1 DEF Orderly
    <3>3. Name(e) = First(old[i], {"d"})  BY <2>5, <3>2
    <3>4. Name(old[i]) = Name(e)  BY <3>3 DEF Name
    <3>5. SameThing(e, old[i])  BY <1>3, <2>5, <3>4 DEF SameThing
    <3>. QED  BY <1>1, <3>5 DEF Displaced
  <2>. QED  BY <1>1, <2>4, <2>5, <2>6, IdsDue
<1>4. CASE ~Replaceable(e.kind) /\ ~Addressable(e.kind)
  <2>1. old = <<>>  BY <1>4 DEF Others
  <2>2. Ids(old) = <<>>  BY <2>1 DEF Ids
  <2>. QED  BY <2>2, NoneDue
<1>. QED  BY <1>2, <1>3, <1>4


-----------------------------------------------------------------------------
(* What a step of a handler does *)

\* An event that is stored already, or was.
Held(c) == \/ h[c].pc \in {"index", "clean"}
           \/ h[c].pc \in Removing /\ Ev(c).kind = 10010

\* An event that takes the place of its other versions.
Renews(e) == Replacing(e.kind) /\ SameThing(e, e)

\* The handler will store its event, unless StoreEvent fails.
Committed(c) ==
    \/ /\ h[c].pc # "idle" /\ Renews(Ev(c))
       /\ \/ h[c].pc \in Removing \cup {"put"}
          \/ h[c].pc = "compare" /\ \A x \in Sent : x.id = h[c].todo[1] => x.at <= Ev(c).at
    \/ h[c].pc = "put" /\ OkFirst(Ev(c))

LEMMA RenewsStays ==
    ASSUME NEW c \in Conns, Renews(Ev(c)), Ev(c)' = Ev(c)
    PROVE  Renews(Ev(c))'
<1>1. PICK e : e = Ev(c)  OBVIOUS
<1>2. Renews(e)'  BY <1>1 DEF Renews
<1>. QED  BY <1>1, <1>2

Moves(c) ==
    /\ script' = script /\ h' \in [Conns -> Handler] /\ \A d \in Conns \ {c} : h'[d] = h[d]
    /\ h[c].pos \in DOMAIN script[c]
    /\ begun' = begun \/ begun' = begun \cup {Ev(c)}
    /\ Ev(c) \in begun' /\ Task(c)'
    /\ oks' \in {oks, oks \cup {Ev(c).id}}
    /\ \/ h'[c].pos = h[c].pos /\ h'[c].pc # "idle"
       \/ h'[c].pos = h[c].pos + 1 /\ h'[c].pc = "idle"

Stores(c) ==
    /\ \A x \in evt' \ evt : x = Ev(c) /\ h[c].pc = "put" /\ (x.kind = 30023 => h'[c].pc = "idle")
    /\ \A x \in evt \ evt' : h[c].pc = "remove" /\ x.id = Head(h[c].todo)
    /\ \A i \in index \ index' : h[c].pc = "unindex" /\ i = Head(h[c].todo)
    /\ faults' \in Nat /\ faults <= faults'
    /\ unstored' \subseteq unstored \cup {Ev(c)}
    /\ \A x \in unstored \ unstored' : Ev(c) \in evt' /\ Serves(Ev(c), x)

Answers(c) ==
    /\ Committed(c) => Committed(c)' \/ Ev(c) \in evt' \/ Ev(c) \in unstored'
    /\ Held(c)' => Held(c) \/ Ev(c) \in evt'
    /\ oks' # oks => \/ Ephemeral(Ev(c).kind)
                     \/ Held(c) /\ (Ev(c).kind = 1 => Ev(c).id \in index')
                     \/ Ev(c).kind # 1 /\ (Ev(c) \in evt' \/ Committed(c)')

Turn(c) == Moves(c) /\ Stores(c) /\ Answers(c)

\* A handler that takes an event ...
Starts(c) ==
    /\ h[c].pc = "idle" /\ h[c].pos \in DOMAIN script[c] /\ Ev(c) \in Sent
    /\ begun' = begun \cup {Ev(c)} /\ script' = script
    /\ evt' = evt /\ index' = index /\ faults' = faults /\ unstored' = unstored

LEMMA StartStores ==
    ASSUME Shape, NEW c \in Conns, Starts(c)
    PROVE  Stores(c)
BY DEF Stores, Starts, Shape

LEMMA StartEnd ==
    ASSUME Shape, NEW c \in Conns, Starts(c), Refuse(c)
    PROVE  Turn(c)
<1>1. Moved(c, "idle", <<>>, h[c].pos + 1) /\ oks' = oks  BY RefuseIs DEF Starts
<1>2. Task(c)'  BY <1>1, EndTask
<1>3. Moves(c)  BY <1>1, <1>2 DEF Moves, Moved, Starts
<1>4. ~Committed(c) /\ ~Held(c)'  BY <1>1 DEF Committed, Held, Starts, Moved, Removing
<1>. QED  BY <1>1, <1>3, <1>4, StartStores DEF Turn, Answers

\* ... and goes on without a list ...
LEMMA StartThen ==
    ASSUME Shape, NEW c \in Conns, Starts(c), Accepts(Ev(c)), NEW pc \in {"put", "count"}, Fits(Ev(c), pc),
           Then(c, pc, <<>>)
    PROVE  Turn(c)
<1>0. pc \in Pcs /\ pc # "idle" /\ pc \notin Removing /\ pc \notin {"index", "clean", "compare", "ask"}
  BY DEF Pcs, Removing
<1>1. Moved(c, pc, <<>>, h[c].pos) /\ oks' = oks
  <2>1. <<>> \in Seq(NamedBy(script))  OBVIOUS
  <2>. QED  BY <1>0, <2>1, ThenIs DEF Starts
<1>2. Ready(script, Ev(c), pc, <<>>)  BY <1>0 DEF Ready
<1>3. Task(c)' /\ Ev(c)' = Ev(c)  BY <1>0, <1>1, <1>2, NoneDue, GoTask DEF Starts
<1>4. Moves(c)  BY <1>0, <1>1, <1>3 DEF Moves, Moved, Starts
<1>5. ~Committed(c) /\ ~Held(c)'  BY <1>0, <1>1 DEF Committed, Held, Starts, Moved
<1>. QED  BY <1>1, <1>4, <1>5, StartStores DEF Turn, Answers

\* ... or with one.
LEMMA StartList ==
    ASSUME Shape, NEW c \in Conns, Starts(c), Accepts(Ev(c)), Ev(c).kind \in {5, 30023} \/ Replacing(Ev(c).kind),
           NEW rest, Dues(script, Ev(c), rest), Continue(c, rest)
    PROVE  Turn(c)
<1>0. Ev(c).kind # 10010
  BY HandledAssumption DEF Replacing, Universal, WipeKinds, PlainKinds
<1>1. Ev(c) \in begun' /\ h[c].pos \in DOMAIN script[c] /\ script' = script  BY DEF Starts
<1>2. CASE rest = <<>> /\ Ev(c).kind = 5
  <2>1. Refuse(c)  BY <1>2 DEF Continue
  <2>. QED  BY <2>1, StartEnd
<1>3. CASE ~(rest = <<>> /\ Ev(c).kind = 5)
  <2> DEFINE pc == IF rest = <<>> THEN "put" ELSE IF Ev(c).kind = 5 THEN "ask"
                   ELSE IF Universal(Ev(c).kind) THEN "compare" ELSE "erase"
  <2>1. Moved(c, pc, rest, h[c].pos) /\ oks' = oks /\ Task(c)' /\ Ev(c)' = Ev(c)
    BY <1>0, <1>1, <1>3, ContinueIs
  <2>2. pc # "idle" /\ pc \notin {"index", "clean"}  OBVIOUS
  <2> HIDE DEF pc
  <2>3. Moves(c)  BY <2>1, <2>2 DEF Moves, Moved, Starts
  <2>4. ~Committed(c) /\ ~Held(c)'  BY <1>0, <2>1, <2>2 DEF Committed, Held, Starts, Moved
  <2>. QED  BY <2>1, <2>3, <2>4, StartStores DEF Turn, Answers
<1>. QED  BY <1>2, <1>3


-----------------------------------------------------------------------------
(* The steps that take an event *)

LEMMA TakesIs ==
    ASSUME Shape, NEW c \in Conns, NEW kinds, Takes(c, kinds), UNCHANGED <<evt, index, script, faults, unstored>>
    PROVE  Starts(c) /\ Accepts(Ev(c)) /\ Ev(c).kind \in kinds
<1>1. h[c].pos \in DOMAIN script[c] /\ Ev(c) \in Sent  BY NextEvent DEF Takes
<1>. QED  BY <1>1 DEF Takes, Starts

LEMMA RejectTurn ==
    ASSUME Shape, NEW c \in Conns, Reject(c)
    PROVE  Turn(c)
<1>1. h[c].pos \in DOMAIN script[c] /\ Ev(c) \in Sent  BY NextEvent DEF Reject
<1>2. Starts(c)  BY <1>1 DEF Reject, Starts
<1>3. Refuse(c)  BY DEF Reject
<1>. QED  BY <1>2, <1>3, StartEnd

LEMMA PlainTurn ==
    ASSUME Shape, NEW c \in Conns, Plain(c)
    PROVE  Turn(c)
<1>1. Starts(c) /\ Accepts(Ev(c)) /\ Ev(c).kind \in PlainKinds  BY TakesIs DEF Plain
<1>2. Fits(Ev(c), "put")  BY <1>1 DEF Fits, PlainKinds, Pcs, Removing
<1>3. Then(c, "put", <<>>)  BY DEF Plain
<1>. QED  BY <1>1, <1>2, <1>3, StartThen

LEMMA RepostTurn ==
    ASSUME Shape, NEW c \in Conns, Repost(c)
    PROVE  Turn(c)
<1>1. Starts(c) /\ Accepts(Ev(c)) /\ Ev(c).kind \in Reposts  BY TakesIs DEF Repost
<1>2. Fits(Ev(c), "put")  BY <1>1 DEF Fits, Reposts, Pcs, Removing
<1>3. Then(c, "put", <<>>) \/ Refuse(c)  BY DEF Repost
<1>. QED  BY <1>1, <1>2, <1>3, StartThen, StartEnd

LEMMA WipeTurn ==
    ASSUME Shape, NEW c \in Conns, Wipe(c)
    PROVE  Turn(c)
<1>1. Starts(c) /\ Accepts(Ev(c)) /\ Ev(c).kind \in WipeKinds  BY TakesIs DEF Wipe
<1>2. PICK old \in QueryEvents(evt, MineOfKind(Ev(c))) : Refuse(c) \/ Continue(c, Ids(old))  BY DEF Wipe
<1>3. Dues(script, Ev(c), Ids(old))  BY <1>1, WipeDue
<1>4. Replacing(Ev(c).kind)  BY <1>1 DEF Replacing
<1>. QED  BY <1>1, <1>2, <1>3, <1>4, StartEnd, StartList

\* An article that is about to be handled for the first time is not stored.
LEMMA NotPast ==
    ASSUME Shape, Past, Orderly(script), NEW c \in Conns, h[c].pos \in DOMAIN script[c], Ev(c).kind = 30023
    PROVE  Ev(c) \notin evt
<1>. SUFFICES ASSUME Ev(c) \in evt PROVE FALSE  OBVIOUS
<1>1. PICK d \in Conns : \E j \in DOMAIN script[d] : j < h[d].pos /\ script[d][j] = Ev(c)  BY DEF Past
<1>2. PICK j \in DOMAIN script[d] : j < h[d].pos /\ script[d][j] = Ev(c)  BY <1>1
<1>3. d = c /\ j = h[c].pos  BY <1>2 DEF Orderly, Ev
<1>4. h[c].pos \in Nat  BY DEF Shape, Handler
<1>. QED  BY <1>2, <1>3, <1>4

LEMMA WriteTurn ==
    ASSUME Basics, NEW c \in Conns, Write(c)
    PROVE  Turn(c)
<1>0. Shape  BY DEF Basics
<1>1. Starts(c) /\ Accepts(Ev(c)) /\ Ev(c).kind = 30023  BY <1>0, TakesIs DEF Write
<1>2. PICK old \in QueryEvents(evt, WithD(Ev(c), First(Ev(c), {"d"}))) : Continue(c, Ids(old))  BY DEF Write
<1>3. Orderly(script) => Ev(c) \notin evt  BY <1>0, <1>1, NotPast DEF Basics, Starts
<1>4. Dues(script, Ev(c), Ids(old))  BY <1>0, <1>1, <1>3, WriteDue
<1>. QED  BY <1>0, <1>1, <1>2, <1>4, StartList

LEMMA ReplaceTurn ==
    ASSUME Shape, NEW c \in Conns, Replace(c)
    PROVE  Turn(c)
<1>1. Starts(c) /\ Accepts(Ev(c))  BY TakesIs DEF Replace
<1>2. Universal(Ev(c).kind)  BY DEF Replace
<1>3. CASE Ephemeral(Ev(c).kind)
  <2>1. Ok(c)  BY <1>3 DEF Replace
  <2>2. Moved(c, "idle", <<>>, h[c].pos + 1) /\ oks' = oks \cup {Ev(c).id}  BY <1>1, <2>1, OkIs DEF Starts
  <2>3. Task(c)'  BY <2>2, EndTask
  <2>4. Moves(c)  BY <1>1, <2>2, <2>3 DEF Moves, Moved, Starts
  <2>5. ~Committed(c) /\ ~Held(c)'  BY <1>1, <2>2 DEF Committed, Held, Starts, Moved, Removing
  <2>. QED  BY <1>1, <1>3, <2>4, <2>5, StartStores DEF Turn, Answers
<1>4. CASE ~Ephemeral(Ev(c).kind)
  <2>1. PICK old \in Others(Ev(c)) : Continue(c, Ids(old))  BY <1>4 DEF Replace
  <2>2. Dues(script, Ev(c), Ids(old))  BY <1>1, <1>2, OthersDue DEF Starts
  <2>. QED  BY <1>1, <1>2, <1>4, <2>1, <2>2, StartList DEF Replacing
<1>. QED  BY <1>3, <1>4

LEMMA AudioTurn ==
    ASSUME Shape, NEW c \in Conns, Audio(c)
    PROVE  Turn(c)
<1> DEFINE e == Ev(c)
           at(mine) == {i \in DOMAIN mine : First(mine[i], {"blossom_hash"}) = First(e, {"blossom_hash"})}
           same(mine) == Picked(mine, at(mine))
<1>1. Starts(c) /\ Accepts(e) /\ e.kind = 1063  BY TakesIs DEF Audio
<1>2. PICK mine \in QueryEvents(evt, MineOfKind(e)) :
         \/ (\A i \in DOMAIN same(mine) : Older(c, same(mine)[i])) /\ Continue(c, Ids(same(mine)))
         \/ Refuse(c)
  BY DEF Audio
<1>3. CASE Refuse(c)  BY <1>1, <1>3, StartEnd
<1>4. CASE (\A i \in DOMAIN same(mine) : Older(c, same(mine)[i])) /\ Continue(c, Ids(same(mine)))
  <2> DEFINE s == same(mine)
             pos == at(mine)
  <2>1. /\ mine \in Seq(evt)
        /\ \A i \in DOMAIN mine : mine[i] \in Matching(evt, MineOfKind(e))
        /\ \A i, j \in DOMAIN mine : i < j => mine[i].at >= mine[j].at
    <3>1. Proper(MineOfKind(e)) /\ MineOfKind(e).ids = <<>>  BY MineAll
    <3>. QED  BY <3>1, AnswerIs, TimedEvents
  <2>2. pos \in SUBSET DOMAIN mine  OBVIOUS
  <2>3. /\ s \in Seq(evt) /\ Range(s) = {mine[i] : i \in pos}
        /\ \A m, n \in DOMAIN s : m < n => \E i, j \in pos : i < j /\ s[m] = mine[i] /\ s[n] = mine[j]
    <3>1. s = Picked(mine, pos)  OBVIOUS
    <3>. HIDE DEF pos, s, at
    <3>. QED  BY <2>1, <2>2, <3>1, PickedIs
  <2>4. \A i \in pos : mine[i].pubkey = e.pubkey /\ mine[i].kind = e.kind
                       /\ First(mine[i], {"blossom_hash"}) = First(e, {"blossom_hash"})
    BY <2>1, MineAll DEF Matching
  <2>5. \A i \in DOMAIN s : s[i].at < e.at  BY <1>4 DEF Older
  <2> HIDE DEF s, pos
  <2>6. \A n \in DOMAIN s : \E i \in pos : s[n] = mine[i]  BY <2>3 DEF Range
  <2>7. \A n \in DOMAIN s : s[n].pubkey = e.pubkey /\ Displaced(e, s[n])
    <3>1. TAKE n \in DOMAIN s
    <3>2. PICK i \in pos : s[n] = mine[i]  BY <2>6
    <3>3. SameThing(e, s[n])  BY <1>1, <2>4, <3>2 DEF SameThing
    <3>. QED  BY <1>1, <2>4, <2>5, <3>2, <3>3 DEF Displaced
  <2>8. \A m, n \in DOMAIN s : m < n => s[m].at >= s[n].at
    <3>1. TAKE m, n \in DOMAIN s
    <3>2. HAVE m < n
    <3>3. PICK i, j \in pos : i < j /\ s[m] = mine[i] /\ s[n] = mine[j]  BY <2>3, <3>2
    <3>. QED  BY <2>1, <2>2, <3>3
  <2>9. Dues(script, e, Ids(s))  BY <1>1, <2>3, <2>7, <2>8, IdsDue
  <2>10. Continue(c, Ids(s))  BY <1>4 DEF s
  <2>. QED  BY <1>1, <2>9, <2>10, StartList DEF Replacing
<1>. QED  BY <1>2, <1>3, <1>4

LEMMA ReportTurn ==
    ASSUME Shape, NEW c \in Conns, ReportEvent(c)
    PROVE  Turn(c)
<1>1. Starts(c) /\ Accepts(Ev(c)) /\ Ev(c).kind = 1984  BY TakesIs DEF ReportEvent
<1>2. Fits(Ev(c), "put") /\ Fits(Ev(c), "count")  BY <1>1 DEF Fits, Pcs, Removing
<1>3. \/ Then(c, "put", <<>>) \/ Then(c, "count", <<>>) \/ Refuse(c)
      \/ OkFirst(Ev(c)) /\ Goto(c, "put", <<>>) /\ oks' = oks \cup {Ev(c).id}
  BY <1>1 DEF ReportEvent, OkFirst
<1>4. CASE OkFirst(Ev(c)) /\ Goto(c, "put", <<>>) /\ oks' = oks \cup {Ev(c).id}
  <2>1. "put" \in Pcs /\ "put" \notin Removing /\ <<>> \in Seq(NamedBy(script))  BY DEF Pcs, Removing
  <2>2. Moved(c, "put", <<>>, h[c].pos)
    <3>1. PICK todo \in Seq(NamedBy(script)) : todo = <<>>  BY <2>1
    <3>2. Goto(c, "put", todo)  BY <1>4, <3>1
    <3>3. h \in [Conns -> Handler] /\ script' = script  BY <1>1 DEF Starts, Shape
    <3>. QED  BY <2>1, <3>1, <3>2, <3>3, GotoIs
  <2>3. Ready(script, Ev(c), "put", <<>>)  BY <2>1 DEF Ready
  <2>4. Task(c)' /\ Ev(c)' = Ev(c)  BY <1>1, <1>2, <2>1, <2>2, <2>3, NoneDue, GoTask DEF Starts
  <2>5. Moves(c)  BY <1>1, <1>4, <2>2, <2>4 DEF Moves, Moved, Starts
  <2>6. ~Committed(c) /\ ~Held(c)'  BY <1>1, <2>1, <2>2 DEF Committed, Held, Starts, Moved
  <2>7. Committed(c)'  BY <1>4, <2>2, <2>4 DEF Committed, Moved
  <2>. QED  BY <1>1, <2>5, <2>6, <2>7, StartStores DEF Turn, Answers
<1>. QED  BY <1>1, <1>2, <1>3, <1>4, StartThen, StartEnd

LEMMA DeleteTurn ==
    ASSUME Shape, NEW c \in Conns, Delete(c)
    PROVE  Turn(c)
<1> DEFINE e == Ev(c)
           at == {i \in DOMAIN e.tags : e.tags[i][1] = "e" /\ Len(e.tags[i]) >= 2}
           t == Picked(e.tags, at)
           rest == [i \in DOMAIN t |-> t[i][2]]
<1>1. Starts(c) /\ Accepts(e) /\ e.kind = 5  BY TakesIs DEF Delete
<1>2. Continue(c, rest)  BY DEF Delete
<1>3. e \in SentBy(script) /\ e.tags \in Seq(Range(e.tags))  BY <1>1 DEF Starts, Sent, Shape, Regular
<1>4. t \in Seq(Range(e.tags)) /\ Range(t) = {e.tags[i] : i \in at}
  <2>1. at \in SUBSET DOMAIN e.tags  OBVIOUS
  <2>2. PICK tags : tags = e.tags  OBVIOUS
  <2>3. PICK T : T = Range(e.tags)  OBVIOUS
  <2> HIDE DEF at
  <2>4. tags \in Seq(T)  BY <1>3, <2>2, <2>3
  <2>5. Picked(tags, at) \in Seq(T) /\ Range(Picked(tags, at)) = {tags[i] : i \in at}
    BY <2>1, <2>2, <2>4, PickedIs
  <2>. QED  BY <2>2, <2>3, <2>5
<1>5. at \subseteq DOMAIN e.tags /\ \A i \in at : e.tags[i][1] = "e" /\ Len(e.tags[i]) >= 2  OBVIOUS
<1> HIDE DEF at, t
<1>6. Len(t) \in Nat /\ DOMAIN t = 1..Len(t)  BY <1>4, LenProperties
<1>7. \A n \in DOMAIN t : t[n] \in Range(e.tags) /\ t[n][1] = "e" /\ Len(t[n]) >= 2
  <2>1. \A n \in DOMAIN t : \E i \in at : t[n] = e.tags[i]  BY <1>4 DEF Range
  <2>. QED  BY <1>5, <2>1 DEF Range
<1>8. \A n \in DOMAIN t : t[n][2] \in NamedBy(script)
  BY <1>3, <1>7 DEF NamedBy
<1>9. rest \in Seq(NamedBy(script))  BY <1>6, <1>8, SeqDef
<1>10. DOMAIN rest = DOMAIN t /\ \A n \in DOMAIN t : rest[n] = t[n][2]  OBVIOUS
<1> HIDE DEF rest
<1>11. \A n \in DOMAIN rest : Due(script, e, rest[n])  BY <1>1, <1>7, <1>10 DEF Due
<1>12. ~Universal(e.kind)  BY <1>1, HandledAssumption DEF Universal
<1>13. Dues(script, e, rest)  BY <1>9, <1>11, <1>12 DEF Dues
<1>. QED  BY <1>1, <1>2, <1>13, StartList


-----------------------------------------------------------------------------
(* The steps of a handler that is at work *)

LEMMA Working ==
    ASSUME Basics, NEW c \in Conns, h[c].pc # "idle"
    PROVE  /\ Shape /\ h[c].pos \in DOMAIN script[c] /\ Ev(c) \in begun /\ Ev(c) \in Sent /\ Accepts(Ev(c))
           /\ Fits(Ev(c), h[c].pc) /\ Dues(script, Ev(c), h[c].todo) /\ Ready(script, Ev(c), h[c].pc, h[c].todo)
BY DEF Basics, Task, Shape

\* The kinds that remove are no others.
LEMMA KindsDiffer ==
    ASSUME NEW k
    PROVE  /\ Replacing(k) => k \notin {1, 5, 1984, 10010, 30023}
           /\ Universal(k) => k \notin WipeKinds \cup {1, 5, 1063, 1984, 10010, 30023}
BY HandledAssumption DEF Replacing, Universal, WipeKinds, PlainKinds

\* What is left on a list is no newer than its first.
LEMMA TailBound ==
    ASSUME Shape, NEW e \in Sent, Universal(e.kind), NEW todo, Dues(script, e, todo), todo # <<>>,
           \A x \in Sent : x.id = todo[1] => x.at <= e.at
    PROVE  \A x \in Sent : \A i \in DOMAIN Tail(todo) : x.id = Tail(todo)[i] => x.at <= e.at
<1>. SUFFICES ASSUME NEW x \in Sent, NEW i \in DOMAIN Tail(todo), x.id = Tail(todo)[i] PROVE x.at <= e.at
  OBVIOUS
<1>1. todo \in Seq(NamedBy(script)) /\ Due(script, e, todo[1]) /\ 1 \in DOMAIN todo  BY TailDue DEF Dues
<1>2. i \in Nat \ {0} /\ i + 1 \in DOMAIN todo /\ Tail(todo)[i] = todo[i + 1]
  <2>1. Len(todo) \in Nat /\ DOMAIN todo = 1..Len(todo) /\ Len(todo) # 0  BY <1>1, LenProperties, EmptySeq
  <2>2. Tail(todo) \in Seq(NamedBy(script)) /\ Len(Tail(todo)) = Len(todo) - 1
        /\ DOMAIN Tail(todo) = 1..Len(Tail(todo)) /\ \A n \in 1..Len(Tail(todo)) : Tail(todo)[n] = todo[n + 1]
    BY <1>1, <2>1, HeadTailProperties, LenProperties
  <2>. QED  BY <2>1, <2>2
<1>3. PICK y \in SentBy(script) : y.id = todo[1]  BY <1>1, KindsDiffer DEF Due
<1>4. Sorted(script, todo)  BY DEF Dues
<1>5. 1 < i + 1  BY <1>2
<1>6. y.at >= x.at  BY <1>1, <1>2, <1>3, <1>4, <1>5 DEF Sorted, Sent
<1>7. y.at <= e.at  BY <1>3 DEF Sent
<1>8. x.at \in Nat /\ y.at \in Nat /\ e.at \in Nat  BY <1>3 DEF Shape, Regular, Sent
<1>. QED  BY <1>6, <1>7, <1>8

\* A handler that goes on with what is left of its list.
Bounds(e, rest) ==
    Universal(e.kind) => \A x \in Sent : \A i \in DOMAIN rest : x.id = rest[i] => x.at <= e.at

Resumes(c) ==
    /\ Moves(c)
    /\ Held(c)' => Ev(c).kind = 10010
    /\ oks' # oks => Ev(c).kind = 10010

LEMMA Resume ==
    ASSUME Basics, NEW c \in Conns, h[c].pc # "idle", NEW rest, Dues(script, Ev(c), rest), Continue(c, rest),
           script' = script, begun' = begun,
           Ev(c).kind \in {5, 30023, 10010} \/ Replacing(Ev(c).kind)
    PROVE  /\ Resumes(c)
           /\ (Renews(Ev(c)) /\ Bounds(Ev(c), rest)) => Committed(c)'
<1> DEFINE e == Ev(c)
<1>1. Shape /\ h[c].pos \in DOMAIN script[c] /\ e \in begun' /\ Accepts(e)  BY Working
<1>2. CASE rest = <<>> /\ e.kind = 5
  <2>1. Ends(c)  BY <1>1, <1>2, ContinueIs
  <2>2. Task(c)'  BY <2>1, EndTask DEF Ends
  <2>3. Moves(c)  BY <1>1, <2>1, <2>2 DEF Moves, Moved, Ends
  <2>4. ~Held(c)' /\ oks' = oks  BY <2>1 DEF Held, Ends, Moved, Removing
  <2>. QED  BY <1>2, <2>3, <2>4, KindsDiffer DEF Resumes, Renews
<1>3. CASE rest = <<>> /\ e.kind = 10010
  <2>1. Done(c)  BY <1>1, <1>3, ContinueIs
  <2>2. Task(c)'  BY <2>1, EndTask DEF Done
  <2>3. Moves(c)  BY <1>1, <2>1, <2>2 DEF Moves, Moved, Done
  <2>. QED  BY <1>3, <2>3, KindsDiffer DEF Resumes, Renews
<1>4. CASE ~(rest = <<>> /\ e.kind \in {5, 10010})
  <2> DEFINE pc == IF rest = <<>> THEN "put" ELSE IF e.kind = 5 THEN "ask"
                   ELSE IF Universal(e.kind) THEN "compare" ELSE "erase"
  <2>1. Moved(c, pc, rest, h[c].pos) /\ oks' = oks /\ Task(c)' /\ Ev(c)' = e
    BY <1>1, <1>4, ContinueIs
  <2>2. pc # "idle" /\ pc \notin {"index", "clean"}  OBVIOUS
  <2>3. Replacing(e.kind) => pc = "put" \/ pc = "erase" \/ (pc = "compare" /\ Universal(e.kind) /\ rest # <<>>)
    BY KindsDiffer
  <2> HIDE DEF pc
  <2>4. Moves(c)  BY <1>1, <2>1, <2>2 DEF Moves, Moved
  <2>5. Held(c)' => e.kind = 10010  BY <2>1, <2>2 DEF Held, Moved
  <2>6. ASSUME Renews(e), Bounds(e, rest)
        PROVE  Committed(c)'
    <3>0. Replacing(e.kind)  BY <2>6 DEF Renews
    <3>1. h'[c].pc = pc /\ h'[c].todo = rest /\ Sent' = Sent  BY <2>1 DEF Moved, Sent
    <3>2. pc = "compare" => 1 \in DOMAIN rest  BY <2>3, <3>0, TailDue
    <3>3. Renews(Ev(c))'  BY <2>1, <2>6, RenewsStays
    <3>4. pc = "compare" => \A x \in Sent : x.id = rest[1] => x.at <= e.at  BY <2>3, <2>6, <3>0, <3>2 DEF Bounds
    <3>5. pc = "compare" => (\A x \in Sent : x.id = h[c].todo[1] => x.at <= Ev(c).at)'  BY <2>1, <3>1, <3>4
    <3>6. pc \in Removing \cup {"put", "compare"}  BY <2>3, <3>0 DEF Removing
    <3>. QED  BY <2>2, <3>1, <3>3, <3>5, <3>6 DEF Committed
  <2>. QED  BY <2>1, <2>4, <2>5, <2>6 DEF Resumes
<1>. QED  BY <1>2, <1>3, <1>4

\* A handler that goes on to another step with the same list.
LEMMA Proceed ==
    ASSUME Basics, NEW c \in Conns, h[c].pc # "idle", NEW pc \in Pcs \ {"idle"}, NEW todo, Then(c, pc, todo),
           script' = script, begun' = begun,
           Fits(Ev(c), pc), Dues(script, Ev(c), todo), Ready(script, Ev(c), pc, todo)
    PROVE  Moves(c) /\ h'[c].pc = pc /\ Ev(c)' = Ev(c) /\ oks' = oks
<1>1. Shape /\ h[c].pos \in DOMAIN script[c] /\ Ev(c) \in begun' /\ Accepts(Ev(c))  BY Working
<1>2. todo \in Seq(NamedBy(script))  BY DEF Dues
<1>3. Moved(c, pc, todo, h[c].pos) /\ oks' = oks  BY <1>1, <1>2, ThenIs
<1>4. Task(c)' /\ Ev(c)' = Ev(c)  BY <1>1, <1>3, GoTask
<1>. QED  BY <1>1, <1>3, <1>4 DEF Moves, Moved

\* A handler that ends.
LEMMA Finish ==
    ASSUME Basics, NEW c \in Conns, h[c].pc # "idle", script' = script, begun' = begun, Refuse(c) \/ Ok(c)
    PROVE  /\ Moves(c) /\ h'[c].pc = "idle" /\ ~Held(c)' /\ (Refuse(c) => oks' = oks)
<1>1. Shape /\ h[c].pos \in DOMAIN script[c] /\ Ev(c) \in begun'  BY Working
<1>2. /\ Moved(c, "idle", <<>>, h[c].pos + 1) /\ oks' \in {oks, oks \cup {Ev(c).id}}
      /\ Refuse(c) => oks' = oks
  BY <1>1, RefuseIs, OkIs
<1>3. Task(c)'  BY <1>2, EndTask
<1>4. Moves(c)  BY <1>1, <1>2, <1>3 DEF Moves, Moved
<1>. QED  BY <1>2, <1>4 DEF Moved, Held, Removing


-----------------------------------------------------------------------------
(* ... and what each of them does *)

\* Steps that change no events.
LEMMA SameStores ==
    ASSUME Shape, NEW c \in Conns, evt' = evt, index \subseteq index', faults' = faults, unstored' = unstored
    PROVE  Stores(c)
BY DEF Stores, Shape

LEMMA CountTurn ==
    ASSUME Basics, NEW c \in Conns, FindReport(c) \/ CountReport(c)
    PROVE  Turn(c)
<1>1. h[c].pc \in {"count", "add", "create"} /\ h[c].pc # "idle"  BY DEF FindReport, CountReport
<1>2. Shape /\ Fits(Ev(c), h[c].pc)  BY <1>1, Working
<1>3. Ev(c).kind = 1984 /\ ~Replacing(Ev(c).kind)  BY <1>1, <1>2, KindsDiffer DEF Fits
<1>4. PICK pc \in {"add", "create", "put"} : Then(c, pc, <<>>)  BY DEF FindReport, CountReport
<1>5. /\ pc \in Pcs \ {"idle"} /\ pc \notin Removing /\ pc \notin {"index", "clean"}
      /\ Fits(Ev(c), pc) /\ Ready(script, Ev(c), pc, <<>>)
  BY <1>3 DEF Fits, Ready, Pcs, Removing
<1>6. script' = script /\ begun' = begun /\ evt' = evt /\ index' = index /\ faults' = faults
      /\ unstored' = unstored
  BY DEF FindReport, CountReport
<1>7. Moves(c) /\ h'[c].pc = pc /\ oks' = oks  BY <1>1, <1>4, <1>5, <1>6, NoneDue, Proceed
<1>8. ~Committed(c) /\ ~Held(c)'  BY <1>1, <1>3, <1>5, <1>7 DEF Committed, Renews, Held
<1>. QED  BY <1>2, <1>6, <1>7, <1>8, SameStores DEF Turn, Answers

LEMMA CompareTurn ==
    ASSUME Basics, NEW c \in Conns, Compare(c)
    PROVE  Turn(c)
<1> DEFINE e == Ev(c)
           todo == h[c].todo
<1>1. h[c].pc = "compare"  BY DEF Compare
<1>2. /\ Shape /\ e \in Sent /\ Fits(e, "compare") /\ Dues(script, e, todo) /\ Ready(script, e, "compare", todo)
  BY <1>1, Working
<1>3. Universal(e.kind) /\ ~Ephemeral(e.kind) /\ Replacing(e.kind) /\ e.kind # 5 /\ e.kind # 10010 /\ todo # <<>>
  BY <1>2, KindsDiffer DEF Fits, Ready, Replacing
<1>4. Due(script, e, todo[1]) /\ Head(todo) = todo[1] /\ Dues(script, e, Tail(todo))  BY <1>2, <1>3, TailDue
<1>5. PICK x \in Sent : x.id = todo[1]  BY <1>3, <1>4 DEF Due, Sent
<1>6. Event(Head(todo)) = x /\ \A y \in Sent : y.id = todo[1] => y = x
  BY <1>2, <1>4, <1>5, EventIs DEF Shape, Regular, Sent
<1>7. script' = script /\ begun' = begun /\ evt' = evt /\ index' = index /\ faults' = faults /\ unstored' = unstored
  BY DEF Compare
<1>8. Stores(c)  BY <1>2, <1>7, SameStores
<1>9. x.at \in Nat /\ e.at \in Nat  BY <1>2 DEF Shape, Regular, Sent
<1>10. CASE x.at < e.at
  <2>1. Then(c, "erase", todo)  BY <1>6, <1>10 DEF Compare, Older
  <2>2. Fits(e, "erase") /\ Ready(script, e, "erase", todo)
    BY <1>3, <1>6, <1>10 DEF Fits, Ready, Pcs, Removing, Sent
  <2>3. Moves(c) /\ h'[c].pc = "erase" /\ Ev(c)' = e /\ oks' = oks
    <3>1. "erase" \in Pcs \ {"idle"}  BY DEF Pcs
    <3>. QED  BY <1>1, <1>2, <1>7, <2>1, <2>2, <3>1, Proceed
  <2>4. (Committed(c) => Committed(c)') /\ ~Held(c)'
    <3>1. Committed(c) => Renews(e)  BY <1>1 DEF Committed
    <3>2. Renews(e) => Renews(Ev(c))'  BY <2>3, RenewsStays
    <3>. QED  BY <1>3, <2>3, <3>1, <3>2 DEF Committed, Held, Removing
  <2>. QED  BY <1>8, <2>3, <2>4 DEF Turn, Answers
<1>11. CASE x.at > e.at
  <2>1. Refuse(c)  BY <1>6, <1>9, <1>11 DEF Compare, Older
  <2>2. Moves(c) /\ ~Held(c)' /\ oks' = oks  BY <1>1, <1>7, <2>1, Finish
  <2>3. ~Committed(c)  BY <1>1, <1>5, <1>9, <1>11 DEF Committed, Removing
  <2>. QED  BY <1>8, <2>2, <2>3 DEF Turn, Answers
<1>12. CASE x.at = e.at
  <2>1. Continue(c, Tail(todo))  BY <1>6, <1>9, <1>12 DEF Compare, Older
  <2>2. \A y \in Sent : y.id = todo[1] => y.at <= e.at  BY <1>6, <1>9, <1>12
  <2>3. Bounds(e, Tail(todo))  BY <1>2, <1>3, <2>2, TailBound DEF Bounds
  <2>4. Resumes(c)  BY <1>1, <1>3, <1>4, <1>7, <2>1, Resume
  <2>5. Committed(c) => Committed(c)'
    <3>1. Committed(c) => Renews(e)  BY <1>1 DEF Committed
    <3>. QED  BY <1>1, <1>3, <1>4, <1>7, <2>1, <2>3, <3>1, Resume
  <2>. QED  BY <1>3, <1>8, <2>4, <2>5 DEF Turn, Answers, Resumes
<1>. QED  BY <1>9, <1>10, <1>11, <1>12

\* What is left once the first on a list is gone.
LEMMA NextOnList ==
    ASSUME Basics, NEW c \in Conns, h[c].pc \in Removing, Continue(c, Tail(h[c].todo)),
           script' = script, begun' = begun
    PROVE  Resumes(c) /\ (Committed(c) => Committed(c)')
<1> DEFINE e == Ev(c)
           todo == h[c].todo
<1>1. h[c].pc # "idle"  BY DEF Removing
<1>2. /\ Shape /\ e \in Sent /\ Fits(e, h[c].pc) /\ Dues(script, e, todo) /\ Ready(script, e, h[c].pc, todo)
  BY <1>1, Working
<1>3. todo # <<>> /\ (e.kind \in {5, 30023, 10010} \/ Replacing(e.kind))  BY <1>2 DEF Fits, Ready
<1>4. Dues(script, e, Tail(todo))  BY <1>2, <1>3, TailDue
<1>5. Bounds(e, Tail(todo))
  <2>. SUFFICES ASSUME Universal(e.kind)
                PROVE  \A x \in Sent : \A i \in DOMAIN Tail(todo) : x.id = Tail(todo)[i] => x.at <= e.at
    BY DEF Bounds
  <2>1. \A x \in Sent : x.id = todo[1] => x.at <= e.at  BY <1>2 DEF Ready, Sent, Shape, Regular
  <2>. QED  BY <1>2, <1>3, <2>1, TailBound
<1>6. Committed(c) => Renews(e)  BY DEF Committed, Removing
<1>7. Resumes(c)  BY <1>1, <1>3, <1>4, Resume
<1>8. Committed(c) => Committed(c)'  BY <1>1, <1>3, <1>4, <1>5, <1>6, Resume
<1>. QED  BY <1>7, <1>8

\* The event is not there, or could not be removed.
LEMMA SkipTurn ==
    ASSUME Basics, NEW c \in Conns, h[c].pc \in Removing, Skip(c), script' = script, begun' = begun, Stores(c)
    PROVE  Turn(c)
<1>1. h[c].pc # "idle"  BY DEF Removing
<1>2. CASE Ev(c).kind = 30023
  <2>1. Refuse(c)  BY <1>2 DEF Skip
  <2>2. Moves(c) /\ ~Held(c)' /\ oks' = oks  BY <1>1, <2>1, Finish
  <2>3. ~Committed(c)  BY <1>2, KindsDiffer DEF Committed, Renews, Removing
  <2>. QED  BY <2>2, <2>3 DEF Turn, Answers
<1>3. CASE Ev(c).kind # 30023
  <2>1. Continue(c, Tail(h[c].todo))  BY <1>3 DEF Skip
  <2>2. Resumes(c) /\ (Committed(c) => Committed(c)')  BY <2>1, NextOnList
  <2>3. Ev(c).kind = 10010 => Held(c)  BY DEF Held
  <2>. QED  BY <2>2, <2>3, KindsDiffer DEF Turn, Answers, Resumes
<1>. QED  BY <1>2, <1>3

\* The list stays as it is.
LEMMA SameList ==
    ASSUME Basics, NEW c \in Conns, h[c].pc \in Removing, NEW pc \in Removing, Then(c, pc, h[c].todo),
           script' = script, begun' = begun
    PROVE  Moves(c) /\ (Committed(c) => Committed(c)') /\ (Held(c)' => Held(c)) /\ oks' = oks
<1>1. h[c].pc # "idle" /\ pc \in Pcs \ {"idle"} /\ pc \notin {"index", "clean"}  BY DEF Removing, Pcs
<1>2. /\ Fits(Ev(c), h[c].pc) /\ Dues(script, Ev(c), h[c].todo) /\ Ready(script, Ev(c), h[c].pc, h[c].todo)
  BY <1>1, Working
<1>3. Fits(Ev(c), pc)  BY <1>1, <1>2 DEF Fits, Removing
<1>4. Ready(script, Ev(c), pc, h[c].todo)  BY <1>1, <1>2 DEF Ready
<1>5. Moves(c) /\ h'[c].pc = pc /\ Ev(c)' = Ev(c) /\ oks' = oks  BY <1>1, <1>2, <1>3, <1>4, Proceed
<1>6. Committed(c) => Renews(Ev(c)) /\ Renews(Ev(c))'  BY <1>5, RenewsStays DEF Committed, Removing
<1>7. Committed(c) => Committed(c)'  BY <1>1, <1>5, <1>6 DEF Committed
<1>8. Held(c)' => Held(c)  BY <1>1, <1>5 DEF Held
<1>. QED  BY <1>5, <1>7, <1>8

LEMMA LookTurn ==
    ASSUME Basics, NEW c \in Conns, Look(c)
    PROVE  Turn(c)
<1>1. h[c].pc \in Removing /\ script' = script /\ begun' = begun /\ evt' = evt /\ index' = index /\ faults' = faults
      /\ unstored' = unstored
  BY DEF Look, Removing
<1>2. Stores(c)  BY <1>1, SameStores DEF Basics
<1>3. CASE Skip(c)  BY <1>1, <1>2, <1>3, SkipTurn
<1>4. CASE Then(c, "remove", h[c].todo)
  <2>1. "remove" \in Removing  BY DEF Removing
  <2>2. Moves(c) /\ (Committed(c) => Committed(c)') /\ (Held(c)' => Held(c)) /\ oks' = oks
    BY <1>1, <1>4, <2>1, SameList
  <2>. QED  BY <1>2, <2>2 DEF Turn, Answers
<1>. QED  BY <1>3, <1>4 DEF Look

LEMMA EraseTurn ==
    ASSUME Basics, NEW c \in Conns, Erase(c)
    PROVE  Turn(c)
<1>1. h[c].pc = "remove" /\ h[c].pc \in Removing /\ script' = script /\ begun' = begun /\ index' = index /\ unstored' = unstored
  BY DEF Erase, Removing
<1>2. Shape  BY DEF Basics
<1>3. CASE faults' = faults + 1 /\ Skip(c) /\ evt' = evt
  <2>1. Stores(c)  BY <1>1, <1>2, <1>3 DEF Stores, Shape
  <2>. QED  BY <1>1, <1>3, <2>1, SkipTurn
<1>4. CASE evt' = {e \in evt : e.id # Head(h[c].todo)} /\ faults' = faults
  <2>1. Stores(c)  BY <1>1, <1>2, <1>4 DEF Stores, Shape
  <2>2. CASE Then(c, "unindex", h[c].todo)
    <3>1. "unindex" \in Removing  BY DEF Removing
    <3>2. Moves(c) /\ (Committed(c) => Committed(c)') /\ (Held(c)' => Held(c)) /\ oks' = oks
      BY <1>1, <2>2, <3>1, SameList
    <3>. QED  BY <2>1, <3>2 DEF Turn, Answers
  <2>3. CASE Continue(c, Tail(h[c].todo))
    <3>1. Resumes(c) /\ (Committed(c) => Committed(c)')  BY <1>1, <2>3, NextOnList
    <3>2. Ev(c).kind = 10010 => Held(c)  BY <1>1 DEF Held
    <3>. QED  BY <2>1, <3>1, <3>2, KindsDiffer DEF Turn, Answers, Resumes
  <2>. QED  BY <1>4, <2>2, <2>3, <1>3 DEF Erase
<1>. QED  BY <1>3, <1>4 DEF Erase

LEMMA UnindexTurn ==
    ASSUME Basics, NEW c \in Conns, Unindex(c)
    PROVE  Turn(c)
<1>1. /\ h[c].pc = "unindex" /\ h[c].pc \in Removing /\ script' = script /\ begun' = begun /\ evt' = evt
      /\ faults' = faults /\ unstored' = unstored /\ index' = index \ {Head(h[c].todo)} /\ Continue(c, Tail(h[c].todo))
  BY DEF Unindex, Removing
<1>2. Stores(c)  BY <1>1 DEF Stores, Basics, Shape
<1>3. Resumes(c) /\ (Committed(c) => Committed(c)')  BY <1>1, NextOnList
<1>4. Ev(c).kind = 10010 => Held(c)  BY <1>1 DEF Held
<1>. QED  BY <1>2, <1>3, <1>4, KindsDiffer DEF Turn, Answers, Resumes

LEMMA AskTurn ==
    ASSUME Basics, NEW c \in Conns, Ask(c)
    PROVE  Turn(c)
<1> DEFINE todo == h[c].todo
<1>1. h[c].pc = "ask" /\ script' = script /\ begun' = begun /\ evt' = evt /\ index' = index /\ faults' = faults
      /\ unstored' = unstored
  BY DEF Ask
<1>2. Shape /\ Fits(Ev(c), "ask") /\ Dues(script, Ev(c), todo) /\ Ready(script, Ev(c), "ask", todo)  BY <1>1, Working
<1>3. /\ Ev(c).kind = 5 /\ todo # <<>> /\ ~Replacing(Ev(c).kind) /\ ~Universal(Ev(c).kind) /\ ~Committed(c)
  BY <1>1, <1>2, KindsDiffer DEF Fits, Ready, Committed, Renews
<1>4. Dues(script, Ev(c), Tail(todo)) /\ Head(todo) = todo[1]  BY <1>2, <1>3, TailDue
<1>5. Stores(c)  BY <1>1, <1>2, SameStores
<1>6. CASE Own(c, Head(todo)) /\ Then(c, "erase", todo)
  <2>1. PICK x \in evt : x.id = todo[1]  BY <1>4, <1>6 DEF Own, Stored
  <2>2. x \in Sent /\ Event(todo[1]) = x  BY <1>2, <2>1, EventIs DEF Shape
  <2>3. x.pubkey = Ev(c).pubkey  BY <1>4, <1>6, <2>2 DEF Own
  <2>4. "erase" \in Pcs \ {"idle"} /\ "erase" \in Removing  BY DEF Pcs, Removing
  <2>5. Fits(Ev(c), "erase") /\ Ready(script, Ev(c), "erase", todo)
    BY <1>3, <2>1, <2>2, <2>3 DEF Fits, Ready, Pcs, Removing, Sent
  <2>6. Moves(c) /\ h'[c].pc = "erase" /\ Ev(c)' = Ev(c) /\ oks' = oks
    BY <1>1, <1>2, <1>6, <2>4, <2>5, Proceed
  <2>7. ~Held(c)'  BY <1>3, <2>6 DEF Held
  <2>. QED  BY <1>3, <1>5, <2>6, <2>7 DEF Turn, Answers
<1>7. CASE Continue(c, Tail(todo))
  <2>1. Resumes(c)  BY <1>1, <1>3, <1>4, <1>7, Resume
  <2>. QED  BY <1>3, <1>5, <2>1 DEF Turn, Answers, Resumes
<1>. QED  BY <1>6, <1>7 DEF Ask

LEMMA PutTurn ==
    ASSUME Basics, NEW c \in Conns, Put(c)
    PROVE  Turn(c)
<1> DEFINE e == Ev(c)
<1>1. h[c].pc = "put" /\ script' = script /\ begun' = begun /\ index' = index  BY DEF Put
<1>2. Shape /\ Fits(e, "put") /\ Ready(script, e, "put", h[c].todo)  BY <1>1, Working
<1>3. CASE faults' = faults + 1 /\ Refuse(c) /\ evt' = evt /\ unstored' = unstored \cup {e}
  <2>1. Stores(c)  BY <1>1, <1>2, <1>3 DEF Stores, Shape
  <2>2. Moves(c) /\ ~Held(c)' /\ oks' = oks  BY <1>1, <1>3, Finish
  <2>. QED  BY <1>3, <2>1, <2>2 DEF Turn, Answers
<1>4. CASE evt' = evt \cup {e} /\ faults' = faults /\ unstored' = {x \in unstored : ~Serves(e, x)}
  <2>1. /\ e \in evt' /\ \A x \in evt' \ evt : x = e
        /\ unstored' \subseteq unstored /\ \A x \in unstored \ unstored' : Serves(e, x)
    BY <1>4
  <2>2. CASE \E pc \in {"index", "clean"} : Then(c, pc, <<>>) /\ e.kind = IF pc = "index" THEN 1 ELSE 10010
    <3>1. PICK pc \in {"index", "clean"} : Then(c, pc, <<>>) /\ e.kind = IF pc = "index" THEN 1 ELSE 10010  BY <2>2
    <3>2. /\ pc \in Pcs \ {"idle"} /\ Fits(e, pc) /\ Ready(script, e, pc, <<>>) /\ e.kind # 30023
      BY <3>1 DEF Fits, Ready, Pcs, Removing
    <3>3. Moves(c) /\ oks' = oks  BY <1>1, <3>1, <3>2, NoneDue, Proceed
    <3>4. Stores(c)  BY <1>1, <1>2, <1>4, <2>1, <3>2 DEF Stores, Shape
    <3>. QED  BY <2>1, <3>3, <3>4 DEF Turn, Answers
  <2>3. CASE Ok(c) /\ e.kind # 1
    <3>1. Moves(c) /\ h'[c].pc = "idle"  BY <1>1, <2>3, Finish
    <3>2. Stores(c)  BY <1>1, <1>2, <1>4, <2>1, <3>1 DEF Stores, Shape
    <3>. QED  BY <2>1, <2>3, <3>1, <3>2 DEF Turn, Answers
  <2>4. \/ e.kind = 1 /\ Then(c, "index", <<>>)
        \/ e.kind = 10010 /\ Then(c, "clean", <<>>)
        \/ e.kind # 1 /\ Ok(c)
        \/ faults' = faults + 1
    BY DEF Put
  <2>5. faults' # faults + 1  BY <1>2, <1>4 DEF Shape
  <2>. QED  BY <2>2, <2>3, <2>4, <2>5
<1>. QED  BY <1>3, <1>4 DEF Put

LEMMA IndexTurn ==
    ASSUME Basics, NEW c \in Conns, Index(c)
    PROVE  Turn(c)
<1>1. /\ h[c].pc = "index" /\ script' = script /\ begun' = begun /\ evt' = evt /\ faults' = faults
      /\ unstored' = unstored /\ index' = index \cup {Ev(c).id} /\ Ok(c)
  BY DEF Index
<1>2. Shape /\ Fits(Ev(c), "index")  BY <1>1, Working
<1>3. Moves(c) /\ ~Held(c)'  BY <1>1, Finish
<1>4. ~Committed(c) /\ Held(c)  BY <1>1 DEF Committed, Held, Removing
<1>. QED  BY <1>1, <1>2, <1>3, <1>4, SameStores DEF Turn, Answers

LEMMA CleanTurn ==
    ASSUME Basics, NEW c \in Conns, Clean(c)
    PROVE  Turn(c)
<1> DEFINE e == Ev(c)
           f == [MineOfKind(e) EXCEPT !.limit = 10]
           at(all) == {i \in DOMAIN all : all[i].id # e.id}
<1>1. h[c].pc = "clean" /\ script' = script /\ begun' = begun /\ evt' = evt /\ index' = index /\ faults' = faults
      /\ unstored' = unstored
  BY DEF Clean
<1>2. Shape /\ Fits(e, "clean")  BY <1>1, Working
<1>3. e.kind = 10010  BY <1>2 DEF Fits
<1>4. PICK all \in QueryEvents(evt, f) : Continue(c, Ids(Picked(all, at(all))))  BY DEF Clean
<1>5. /\ Proper(f) /\ f.ids = <<>>
      /\ \A x : Matches(x, f) <=> x.pubkey = e.pubkey /\ x.kind = e.kind
  <2>1. 10 \in Int  OBVIOUS
  <2>2. Proper(f) /\ f.ids = <<>>  BY <2>1, MineIs
  <2>3. \A x : Matches(x, f) <=> x.pubkey = e.pubkey /\ x.kind = e.kind  BY <2>1, MineIs
  <2>. QED  BY <2>2, <2>3
<1> DEFINE pos == at(all)
           s == Picked(all, pos)
<1> HIDE DEF f
<1>6. /\ all \in Seq(evt) /\ \A i \in DOMAIN all : all[i] \in Matching(evt, f)
      /\ \A i, j \in DOMAIN all : i < j => all[i].at >= all[j].at
  BY <1>2, <1>4, <1>5, AnswerIs, TimedEvents
<1>7. pos \in SUBSET DOMAIN all /\ \A i \in pos : all[i].id # e.id  OBVIOUS
<1>8. Continue(c, Ids(s))  BY <1>4
<1> HIDE DEF pos
<1>9. /\ s \in Seq(evt) /\ Range(s) = {all[i] : i \in pos}
      /\ \A m, n \in DOMAIN s : m < n => \E i, j \in pos : i < j /\ s[m] = all[i] /\ s[n] = all[j]
  BY <1>6, <1>7, PickedIs
<1> HIDE DEF s
<1>10. \A n \in DOMAIN s : \E i \in pos : s[n] = all[i]  BY <1>9 DEF Range
<1>11. \A n \in DOMAIN s : s[n].pubkey = e.pubkey /\ Displaced(e, s[n])
  <2>1. TAKE n \in DOMAIN s
  <2>2. PICK i \in pos : s[n] = all[i]  BY <1>10
  <2>3. s[n].pubkey = e.pubkey /\ s[n].kind = e.kind /\ s[n].id # e.id  BY <1>5, <1>6, <1>7, <2>2 DEF Matching
  <2>. QED  BY <1>3, <2>3 DEF Displaced, SameThing
<1>12. \A m, n \in DOMAIN s : m < n => s[m].at >= s[n].at
  <2>1. TAKE m, n \in DOMAIN s
  <2>2. HAVE m < n
  <2>3. PICK i, j \in pos : i < j /\ s[m] = all[i] /\ s[n] = all[j]  BY <1>9, <2>2
  <2>. QED  BY <1>6, <1>7, <2>3
<1>13. Dues(script, e, Ids(s))  BY <1>2, <1>3, <1>9, <1>11, <1>12, IdsDue
<1>14. Resumes(c)  BY <1>1, <1>3, <1>8, <1>13, Resume
<1>15. ~Committed(c) /\ Held(c)  BY <1>1 DEF Committed, Held, Removing
<1>. QED  BY <1>1, <1>2, <1>3, <1>14, <1>15, SameStores DEF Turn, Answers, Resumes

LEMMA StepTurn ==
    ASSUME Basics, NEW c \in Conns, Step(c)
    PROVE  Turn(c)
<1>1. Shape  BY DEF Basics
<1>. QED  BY <1>1, RejectTurn, PlainTurn, RepostTurn, WipeTurn, WriteTurn, ReplaceTurn, CompareTurn, AudioTurn,
             ReportTurn, CountTurn, DeleteTurn, AskTurn, LookTurn, EraseTurn, UnindexTurn, PutTurn, IndexTurn,
             CleanTurn DEF Step


-----------------------------------------------------------------------------
(* The invariant is kept *)

LEMMA TurnShape ==
    ASSUME Basics, NEW c \in Conns, Turn(c)
    PROVE  Shape'
<1>1. Shape /\ h[c].pos \in DOMAIN script[c] /\ Ev(c) \in Sent  BY EvSent DEF Basics, Turn, Moves
<1>2. script' = script /\ Sent' = Sent /\ Handler' = Handler  BY DEF Turn, Moves, Sent, Handler
<1>3. begun' \subseteq begun \cup {Ev(c)} /\ begun \subseteq begun' /\ Ev(c) \in begun'  BY DEF Turn, Moves
<1>4. begun' \subseteq Sent  BY <1>1, <1>3 DEF Shape
<1>5. evt' \subseteq evt \cup {Ev(c)}  BY DEF Turn, Stores
<1>6. evt' \subseteq begun'  BY <1>1, <1>3, <1>5 DEF Shape
<1>7. IsFiniteSet(evt')
  <2>1. IsFiniteSet(evt \cup {Ev(c)})  BY <1>1, FS_AddElement DEF Shape
  <2>. QED  BY <1>5, <2>1, FS_Subset
<1>8. oks' \subseteq {e.id : e \in begun'}
  <2>1. oks' = oks \/ oks' = oks \cup {Ev(c).id}  BY DEF Turn, Moves
  <2>2. oks \subseteq {e.id : e \in begun}  BY <1>1 DEF Shape
  <2>. QED  BY <1>3, <2>1, <2>2
<1>9. h' \in [Conns -> Handler] /\ faults' \in Nat  BY DEF Turn, Moves, Stores
<1>10. unstored' \subseteq begun'  BY <1>1, <1>3 DEF Turn, Stores, Shape
<1>. QED  BY <1>1, <1>2, <1>4, <1>6, <1>7, <1>8, <1>9, <1>10 DEF Shape

LEMMA TurnPast ==
    ASSUME Basics, NEW c \in Conns, Turn(c), Past
    PROVE  Past'
<1>1. /\ script' = script /\ \A d \in Conns \ {c} : h'[d] = h[d]
      /\ h[c].pos \in DOMAIN script[c] /\ h[c].pos \in Nat
      /\ h'[c].pos = h[c].pos \/ h'[c].pos = h[c].pos + 1
      /\ h'[c].pc = "idle" => h'[c].pos = h[c].pos + 1
  BY DEF Turn, Moves, Basics, Shape, Handler
<1>. SUFFICES ASSUME NEW e \in evt', e.kind = 30023
              PROVE  \E d \in Conns : \E j \in DOMAIN script[d] : j < h'[d].pos /\ script[d][j] = e
  BY <1>1 DEF Past
<1>2. CASE e \in evt
  <2>1. PICK d \in Conns : \E j \in DOMAIN script[d] : j < h[d].pos /\ script[d][j] = e  BY <1>2 DEF Past
  <2>2. PICK j \in DOMAIN script[d] : j < h[d].pos /\ script[d][j] = e  BY <2>1
  <2>3. j \in Nat /\ h[d].pos \in Nat
    <3>1. script[d] \in Seq(Range(script[d]))  BY DEF Basics, Shape, Regular
    <3>. QED  BY <3>1, LenProperties DEF Basics, Shape, Handler
  <2>4. j < h'[d].pos  BY <1>1, <2>2, <2>3
  <2>. QED  BY <2>2, <2>4
<1>3. CASE e \notin evt
  <2>1. e = Ev(c) /\ h'[c].pc = "idle"  BY <1>3 DEF Turn, Stores
  <2>2. h[c].pos < h'[c].pos /\ script[c][h[c].pos] = e  BY <1>1, <2>1 DEF Ev
  <2>. QED  BY <1>1, <2>2
<1>. QED  BY <1>2, <1>3

LEMMA TurnBasics ==
    ASSUME Basics, NEW c \in Conns, Turn(c)
    PROVE  Basics'
<1>1. Shape'  BY TurnShape
<1>2. script' = script /\ begun \subseteq begun' /\ Task(c)' /\ \A d \in Conns \ {c} : h'[d] = h[d]
  BY DEF Turn, Moves
<1>3. ASSUME NEW d \in Conns PROVE Task(d)'
  <2>1. CASE d = c  BY <1>2, <2>1
  <2>2. CASE d # c  BY <1>2, <2>2, OthersTask
  <2>. QED  BY <2>1, <2>2
<1>4. Orderly(script) => Past'  BY TurnPast DEF Basics
<1>. QED  BY <1>1, <1>2, <1>3, <1>4 DEF Basics

LEMMA StillBasics ==
    ASSUME Basics, UNCHANGED vars
    PROVE  Basics'
<1>1. evt' = evt /\ script' = script /\ h' = h /\ oks' = oks /\ begun' = begun /\ faults' = faults
      /\ unstored' = unstored
  BY DEF vars
<1>2. Shape' /\ (Past => Past')  BY <1>1 DEF Basics, Shape, Past, Sent, Handler
<1>3. \A c \in Conns : Task(c)'  BY <1>1 DEF Basics, Task, Ev
<1>. QED  BY <1>1, <1>2, <1>3 DEF Basics

LEMMA NextBasics ==
    ASSUME Basics, [Next]_vars
    PROVE  Basics'
<1>1. CASE Next
  <2>1. PICK c \in Conns : Step(c)  BY <1>1 DEF Next
  <2>. QED  BY <2>1, StepTurn, TurnBasics
<1>2. CASE UNCHANGED vars  BY <1>2, StillBasics
<1>. QED  BY <1>1, <1>2

LEMMA InitBasics ==
    ASSUME \A s \in Scripts : Regular(s), Init
    PROVE  Basics
<1>1. Regular(script) /\ evt = {} /\ oks = {} /\ begun = {} /\ faults = 0 /\ unstored = {}
      /\ h = [c \in Conns |-> AtRest]
  BY DEF Init
<1>2. AtRest \in Handler /\ AtRest.pc = "idle"  BY DEF AtRest, Handler, Pcs
<1>3. \A c \in Conns : h[c] = AtRest  BY <1>1
<1>4. h \in [Conns -> Handler]  BY <1>1, <1>2
<1>5. IsFiniteSet(evt)  BY <1>1, FS_EmptySet
<1>6. Shape  BY <1>1, <1>4, <1>5 DEF Shape
<1>7. \A c \in Conns : Task(c)  BY <1>2, <1>3 DEF Task
<1>. QED  BY <1>1, <1>6, <1>7 DEF Basics, Past

LEMMA AlwaysBasics ==
    ASSUME \A s \in Scripts : Regular(s)
    PROVE  Spec => []Basics
<1>1. Init => Basics  BY InitBasics
<1>2. Basics /\ [Next]_vars => Basics'  BY NextBasics
<1>. QED  BY <1>1, <1>2, PTL DEF Spec

-----------------------------------------------------------------------------
(* Whose events are removed, and what queries find *)

\* The event that goes is that of a list.
LEMMA GoneIs ==
    ASSUME Basics, NEW c \in Conns, Turn(c), NEW x \in evt, x \notin evt'
    PROVE  /\ h[c].pc = "remove" /\ x \in Sent /\ x.id = h[c].todo[1] /\ x.pubkey = Ev(c).pubkey
           /\ Ev(c).kind # 5 /\ Orderly(script) => Displaced(Ev(c), x)
           /\ Ev(c).kind = 5 => \E t \in Range(Ev(c).tags) : t[1] = "e" /\ Len(t) >= 2 /\ t[2] = x.id
           /\ Universal(Ev(c).kind) => x.at < Ev(c).at
<1>1. h[c].pc = "remove" /\ x.id = Head(h[c].todo)  BY DEF Turn, Stores
<1>2. h[c].pc # "idle" /\ h[c].pc \in Removing  BY <1>1 DEF Removing
<1>3. Shape /\ Dues(script, Ev(c), h[c].todo) /\ Ready(script, Ev(c), h[c].pc, h[c].todo)  BY <1>2, Working
<1>4. h[c].todo # <<>>  BY <1>2, <1>3 DEF Ready
<1>5. Due(script, Ev(c), x.id) /\ x.id = h[c].todo[1]  BY <1>1, <1>3, <1>4, TailDue
<1>6. x \in Sent /\ \A y \in SentBy(script) : y.id = x.id => y = x
  BY <1>3 DEF Shape, Regular, Sent
<1>7. Ev(c).kind = 5 => x.pubkey = Ev(c).pubkey  BY <1>2, <1>3, <1>5, <1>6 DEF Ready
<1>8. Ev(c).kind # 5 => x.pubkey = Ev(c).pubkey /\ (Orderly(script) => Displaced(Ev(c), x))
  BY <1>5, <1>6 DEF Due
<1>9. Ev(c).kind = 5 => \E t \in Range(Ev(c).tags) : t[1] = "e" /\ Len(t) >= 2 /\ t[2] = x.id
  BY <1>5 DEF Due
<1>10. Universal(Ev(c).kind) => x.at < Ev(c).at  BY <1>2, <1>3, <1>5, <1>6 DEF Ready, Sent
<1>. QED  BY <1>1, <1>5, <1>6, <1>7, <1>8, <1>9, <1>10

LEMMA EraseMoves ==
    ASSUME Shape, NEW c \in Conns, Step(c), h[c].pc = "remove"
    PROVE  h'[c] # h[c]
<1>1. Erase(c)
  <2>1. "remove" \notin {"idle", "compare", "count", "add", "create", "ask", "erase", "unindex", "put", "index", "clean"}
    OBVIOUS
  <2>. QED  BY <2>1 DEF Step, Reject, Plain, Repost, Wipe, Write, Replace, Compare, Audio, ReportEvent, FindReport,
                        CountReport, Delete, Ask, Look, Unindex, Put, Index, Clean, Takes
<1>2. \/ \E pc \in {"unindex", "ask", "compare", "erase", "put"} : \E todo : Goto(c, pc, todo)
      \/ End(c)
  BY <1>1 DEF Erase, Skip, Continue, Then, Refuse, Ok
<1>3. h \in [Conns -> Handler]  BY DEF Shape
<1>4. CASE End(c)
  <2>1. h'[c].pc = "idle"  BY <1>3, <1>4 DEF End, AtRest
  <2>. QED  BY <2>1
<1>5. CASE \E pc \in {"unindex", "ask", "compare", "erase", "put"} : \E todo : Goto(c, pc, todo)
  <2>1. PICK pc \in {"unindex", "ask", "compare", "erase", "put"} : \E todo : Goto(c, pc, todo)  BY <1>5
  <2>2. PICK todo : Goto(c, pc, todo)  BY <2>1
  <2>3. h'[c].pc = pc  BY <1>3, <2>2 DEF Goto, Handler
  <2>. QED  BY <2>3
<1>. QED  BY <1>2, <1>4, <1>5

\* The events a handler removes are all its author's.
THEOREM OwnEvents ==
    ASSUME \A s \in Scripts : Regular(s)
    PROVE  Spec => OwnEventsOnly
<1>1. ASSUME Basics, [Next]_vars
      PROVE  [\A e \in evt \ evt' : \E c \in Conns : h[c] # h'[c] /\ Ev(c).pubkey = e.pubkey]_vars
  <2>1. CASE UNCHANGED vars  BY <2>1
  <2>2. CASE Next
    <3>1. PICK c \in Conns : Step(c)  BY <2>2 DEF Next
    <3>2. Turn(c) /\ Shape  BY <1>1, <3>1, StepTurn DEF Basics
    <3>3. ASSUME NEW e \in evt \ evt' PROVE h[c] # h'[c] /\ Ev(c).pubkey = e.pubkey
      BY <1>1, <3>1, <3>2, GoneIs, EraseMoves
    <3>. QED  BY <3>3
  <2>. QED  BY <1>1, <2>1, <2>2
<1>2. Spec => []Basics  BY AlwaysBasics
<1>. QED  BY <1>1, <1>2, PTL DEF Spec, OwnEventsOnly

\* Queries by the indexes are right in every state.
THEOREM QueriesAreRight ==
    ASSUME \A s \in Scripts : Regular(s), \A f \in Filters : Proper(f)
    PROVE  Spec => []QueryRight
<1>1. Basics => QueryRight
  <2>. SUFFICES ASSUME Basics, NEW f \in Filters PROVE Right(evt, f)  BY DEF QueryRight
  <2>1. Timed(evt) /\ Proper(f)  BY TimedEvents DEF Basics
  <2>. QED  BY <2>1, QueryIs
<1>2. Spec => []Basics  BY AlwaysBasics
<1>. QED  BY <1>1, <1>2, PTL


-----------------------------------------------------------------------------
(* Versions of one thing *)

LEMMA SameTurned ==
    ASSUME NEW a, NEW b, SameThing(a, b)
    PROVE  SameThing(b, a)
BY DEF SameThing

LEMMA SameChain ==
    ASSUME NEW a, NEW b, NEW d, SameThing(a, b), SameThing(b, d)
    PROVE  SameThing(a, d)
<1>1. Universal(a.kind) => a.kind \notin {1063, 30023} \cup WipeKinds  BY KindsDiffer
<1>. QED  BY <1>1 DEF SameThing

\* What is unwanted in one version is so in the others.
LEMMA UnwantedAll ==
    ASSUME NEW x \in begun, NEW e, x = e \/ SameThing(x, e), Unwanted(x)
    PROVE  Unwanted(e)
<1>1. CASE x = e  BY <1>1
<1>2. CASE SameThing(x, e) /\ Withdrawn(x)  BY <1>2 DEF Unwanted
<1>3. CASE SameThing(x, e) /\ \E y \in begun : SameThing(y, x) /\ Withdrawn(y)
  <2>1. PICK y \in begun : SameThing(y, x) /\ Withdrawn(y)  BY <1>3
  <2>2. SameThing(y, e)  BY <1>3, <2>1, SameChain
  <2>. QED  BY <2>1, <2>2 DEF Unwanted
<1>. QED  BY <1>1, <1>2, <1>3 DEF Unwanted

LEMMA UnwantedStays ==
    ASSUME begun \subseteq begun', NEW e, Unwanted(e)
    PROVE  Unwanted(e)'
BY DEF Unwanted, Withdrawn

-----------------------------------------------------------------------------
(* Nothing is lost *)

\* An event that is stored already is there, or was withdrawn.
There(c) == Held(c) => Ev(c) \in evt \/ Unwanted(Ev(c))

\* An acknowledged event is there in some version, or a handler will store one, or
\* could not.
Covered(e) ==
    \/ \E x \in evt : Serves(x, e)
    \/ \E c \in Conns : Committed(c) /\ Serves(Ev(c), e)
Wanted(e) == e.id \in oks /\ ~Ephemeral(e.kind) /\ ~Unwanted(e)
Kept == \A e \in begun : Wanted(e) => (Covered(e) \/ CutOff(e)) /\ (e.kind = 1 => e.id \in index)

Losing == Basics /\ Orderly(script) /\ (\A c \in Conns : There(c)) /\ Kept

\* Why an event is removed.
LEMMA GoneHow ==
    ASSUME Basics, Orderly(script), NEW c \in Conns, Turn(c), NEW x \in evt, x \notin evt'
    PROVE  \/ Withdrawn(x)
           \/ Ev(c).kind = 10010 /\ SameThing(Ev(c), x) /\ x # Ev(c)
           \/ Replacing(Ev(c).kind) /\ SameThing(Ev(c), x) /\ (Compared(x) => x.at < Ev(c).at)
<1>1. /\ h[c].pc = "remove" /\ x \in Sent /\ x.pubkey = Ev(c).pubkey
      /\ Ev(c).kind # 5 => Displaced(Ev(c), x)
      /\ Ev(c).kind = 5 => \E t \in Range(Ev(c).tags) : t[1] = "e" /\ Len(t) >= 2 /\ t[2] = x.id
      /\ Universal(Ev(c).kind) => x.at < Ev(c).at
  BY GoneIs
<1>2. h[c].pc # "idle" /\ h[c].pc \in Removing  BY <1>1 DEF Removing
<1>3. Ev(c) \in begun /\ Accepts(Ev(c)) /\ Fits(Ev(c), h[c].pc)  BY <1>2, Working
<1>4. Ev(c).kind \in {5, 30023, 10010} \/ Replacing(Ev(c).kind)  BY <1>2, <1>3 DEF Fits
<1>5. CASE Ev(c).kind = 5  BY <1>1, <1>3, <1>5 DEF Withdrawn
<1>6. CASE Ev(c).kind = 30023
  <2>1. First(Ev(c), {"d"}) \in Values(x, "d") /\ x # Ev(c)  BY <1>1, <1>6 DEF Displaced
  <2>. QED  BY <1>1, <1>3, <1>6, <2>1 DEF Withdrawn
<1>7. CASE Ev(c).kind = 10010  BY <1>1, <1>7 DEF Displaced
<1>8. CASE Replacing(Ev(c).kind)
  <2>1. SameThing(Ev(c), x) /\ (Ev(c).kind = 1063 => x.at < Ev(c).at)  BY <1>1, <1>8, KindsDiffer DEF Displaced
  <2>2. x.kind = Ev(c).kind  BY <2>1 DEF SameThing
  <2>. QED  BY <1>1, <1>8, <2>1, <2>2 DEF Compared
<1>. QED  BY <1>4, <1>5, <1>6, <1>7, <1>8

\* The handlers of the other connections.
LEMMA OthersStay ==
    ASSUME NEW c \in Conns, Turn(c), NEW d \in Conns, d # c
    PROVE  /\ Ev(d)' = Ev(d) /\ h'[d] = h[d] /\ (Held(d)' <=> Held(d)) /\ (Committed(d) => Committed(d)')
<1>1. h'[d] = h[d] /\ script' = script  BY DEF Turn, Moves
<1>2. Ev(d)' = Ev(d) /\ Sent' = Sent  BY <1>1 DEF Ev, Sent
<1>. QED  BY <1>1, <1>2 DEF Held, Committed

LEMMA SameEvent ==
    ASSUME NEW c \in Conns, Turn(c), h'[c].pc # "idle"
    PROVE  Ev(c)' = Ev(c)
BY DEF Turn, Moves, Ev

LEMMA HeldKinds ==
    ASSUME Basics, NEW c \in Conns, Held(c)
    PROVE  Ev(c).kind \in {1, 10010} /\ (h[c].pc = "remove" => Ev(c).kind = 10010) /\ h[c].pos \in DOMAIN script[c]
<1>1. h[c].pc # "idle"  BY DEF Held, Removing
<1>2. Fits(Ev(c), h[c].pc) /\ h[c].pos \in DOMAIN script[c]  BY <1>1, Working
<1>. QED  BY <1>2 DEF Fits, Held

LEMMA TurnThere ==
    ASSUME Losing, NEW c \in Conns, Turn(c), NEW d \in Conns
    PROVE  There(d)'
<1>0. Basics /\ Orderly(script) /\ There(c) /\ There(d) /\ begun \subseteq begun'  BY DEF Losing, Turn, Moves
<1>1. CASE d = c
  <2>. SUFFICES ASSUME Held(c)', Ev(c) \notin evt' PROVE Unwanted(Ev(c))'
    <3>1. Held(c)' => h'[c].pc # "idle"  BY DEF Held, Removing
    <3>. QED  BY <1>1, <3>1, SameEvent DEF There
  <2>1. Held(c)  BY DEF Turn, Answers
  <2>2. Ev(c).kind \in {1, 10010} /\ ~Replacing(Ev(c).kind)  BY <1>0, <2>1, HeldKinds, KindsDiffer
  <2>3. h'[c].pc # "idle"  BY DEF Held, Removing
  <2>4. Ev(c)' = Ev(c)  BY <2>3, SameEvent
  <2>5. Unwanted(Ev(c))
    <3>1. CASE Ev(c) \in evt
      <4>1. Withdrawn(Ev(c))  BY <1>0, <2>2, <3>1, GoneHow
      <4>. QED  BY <4>1 DEF Unwanted
    <3>2. CASE Ev(c) \notin evt  BY <1>0, <2>1, <3>2 DEF There
    <3>. QED  BY <3>1, <3>2
  <2>6. PICK e : e = Ev(c)  OBVIOUS
  <2>7. Unwanted(e)'  BY <1>0, <2>5, <2>6, UnwantedStays
  <2>. QED  BY <2>4, <2>6, <2>7
<1>2. CASE d # c
  <2>0. Ev(d)' = Ev(d) /\ (Held(d)' <=> Held(d))  BY <1>2, OthersStay
  <2>. SUFFICES ASSUME Held(d), Ev(d) \notin evt' PROVE Unwanted(Ev(d))'  BY <2>0 DEF There
  <2>1. Ev(d).kind \in {1, 10010} /\ ~Replacing(Ev(d).kind) /\ h[d].pos \in DOMAIN script[d]
    BY <1>0, HeldKinds, KindsDiffer
  <2>2. Unwanted(Ev(d))
    <3>1. CASE Ev(d) \in evt
      <4>1. CASE Ev(c).kind = 10010 /\ SameThing(Ev(c), Ev(d))
        <5>1. Ev(d).kind = 10010 /\ Ev(c).pubkey = Ev(d).pubkey  BY <4>1 DEF SameThing
        <5>2. Ev(c) \in Range(script[c]) /\ Ev(d) \in Range(script[d])  BY <2>1 DEF Ev, Range, Turn, Moves
        <5>3. c = d  BY <1>0, <4>1, <5>1, <5>2 DEF Orderly
        <5>. QED  BY <1>2, <5>3
      <4>2. CASE Replacing(Ev(c).kind) /\ SameThing(Ev(c), Ev(d))
        <5>1. Ev(c).kind = Ev(d).kind  BY <4>2 DEF SameThing
        <5>. QED  BY <2>1, <4>2, <5>1
      <4>3. CASE Withdrawn(Ev(d))  BY <4>3 DEF Unwanted
      <4>. QED  BY <1>0, <3>1, <4>1, <4>2, <4>3, GoneHow
    <3>2. CASE Ev(d) \notin evt  BY <1>0, <3>2 DEF There
    <3>. QED  BY <3>1, <3>2
  <2>3. PICK e : e = Ev(d)  OBVIOUS
  <2>4. Unwanted(e)'  BY <1>0, <2>2, <2>3, UnwantedStays
  <2>. QED  BY <2>0, <2>3, <2>4
<1>. QED  BY <1>1, <1>2

\* What is removed leaves another that serves as well, or nobody wants it.
LEMMA StillServed ==
    ASSUME Losing, NEW c \in Conns, Turn(c), NEW x \in evt, x \notin evt', NEW e \in begun, Serves(x, e),
           ~Unwanted(e)
    PROVE  Serves(Ev(c), e) /\ (Ev(c) \in evt' \/ Committed(c))
<1>0. Basics /\ Orderly(script) /\ There(c) /\ Shape  BY DEF Losing, Basics
<1>1. h[c].pc = "remove" /\ x.id = h[c].todo[1] /\ x \in Sent  BY <1>0, GoneIs
<1>2. x = e \/ SameThing(x, e)  BY DEF Serves
<1>3. x \in begun  BY <1>0 DEF Shape
<1>4. ~Unwanted(x) /\ ~Withdrawn(x)  BY <1>2, <1>3, UnwantedAll DEF Unwanted
<1>5. CASE Ev(c).kind = 10010 /\ SameThing(Ev(c), x) /\ x # Ev(c)
  <2>1. SameThing(Ev(c), e)  BY <1>2, <1>5, SameChain
  <2>2. Held(c) /\ h[c].pc # "idle"  BY <1>1, <1>5 DEF Held, Removing
  <2>3. Ev(c) \in begun /\ Ev(c) \in Sent  BY <1>0, <2>2, Working
  <2>4. Ev(c) \in evt  BY <2>1, <2>2, <2>3, <1>0, UnwantedAll DEF There
  <2>5. Ev(c) \in evt'
    <3>. SUFFICES ASSUME Ev(c) \notin evt' PROVE FALSE  OBVIOUS
    <3>1. Ev(c).id = h[c].todo[1]  BY <1>0, <2>4, GoneIs
    <3>2. Ev(c) = x  BY <1>0, <1>1, <2>3, <3>1 DEF Shape, Regular, Sent
    <3>. QED  BY <1>5, <3>2
  <2>6. e.kind = 10010  BY <1>5, <2>1 DEF SameThing
  <2>7. ~Compared(e)  BY <2>6, KindsDiffer DEF Compared
  <2>. QED  BY <2>1, <2>5, <2>7 DEF Serves
<1>6. CASE Replacing(Ev(c).kind) /\ SameThing(Ev(c), x) /\ (Compared(x) => x.at < Ev(c).at)
  <2>1. SameThing(Ev(c), e)  BY <1>2, <1>6, SameChain
  <2>2. h[c].pc \in Removing /\ h[c].pc # "idle"  BY <1>1 DEF Removing
  <2>3. Committed(c)
    <3>1. SameThing(x, Ev(c))  BY <1>6, SameTurned
    <3>2. SameThing(Ev(c), Ev(c))  BY <1>6, <3>1, SameChain
    <3>. QED  BY <1>6, <2>2, <3>2 DEF Committed, Renews
  <2>4. e.kind = x.kind  BY <1>2 DEF SameThing
  <2>5. Compared(e) => x.at < Ev(c).at /\ x.at >= e.at  BY <1>6, <2>4 DEF Compared, Serves
  <2>6. x.at \in Nat /\ e.at \in Nat /\ Ev(c).at \in Nat
    <3>1. Ev(c) \in Sent /\ e \in Sent  BY <1>0, <2>2, Working DEF Shape
    <3>. QED  BY <1>0, <1>1, <3>1 DEF Shape, Regular, Sent
  <2>7. Compared(e) => Ev(c).at >= e.at  BY <2>5, <2>6
  <2>. QED  BY <2>1, <2>3, <2>7 DEF Serves
<1>. QED  BY <1>0, <1>4, <1>5, <1>6, GoneHow

\* What a committed handler stands for is not cut off without a trace.
LEMMA CommittedTo ==
    ASSUME NEW d \in Conns, Committed(d), NEW e, Serves(Ev(d), e)
    PROVE  RemovesFirst(e) \/ OkFirst(e)
<1> DEFINE x == Ev(d)
<1>1. x = e \/ SameThing(x, e)  BY DEF Serves
<1>2. CASE Renews(x)
  <2>1. x.kind \notin {10010, 30023} /\ SameThing(x, x)  BY <1>2, KindsDiffer DEF Renews
  <2>2. CASE x = e  BY <2>1, <2>2 DEF RemovesFirst
  <2>3. CASE SameThing(x, e)
    <3>1. SameThing(e, e)  BY <2>3, SameTurned, SameChain
    <3>2. e.kind = x.kind  BY <2>3 DEF SameThing
    <3>. QED  BY <2>1, <3>1, <3>2 DEF RemovesFirst
  <2>. QED  BY <1>1, <2>2, <2>3
<1>3. CASE OkFirst(x)
  <2>1. x.kind = 1984  BY <1>3 DEF OkFirst
  <2>2. ~SameThing(x, e)  BY <2>1, KindsDiffer DEF SameThing, WipeKinds
  <2>. QED  BY <1>1, <1>3, <2>2
<1>. QED  BY <1>2, <1>3 DEF Committed

\* A version that serves another one serves what that one does.
LEMMA ServesChain ==
    ASSUME NEW y, NEW x, NEW e, Serves(y, x), Serves(x, e), y.at \in Nat, x.at \in Nat, e.at \in Nat
    PROVE  Serves(y, e)
<1>1. y = e \/ SameThing(y, e)  BY SameChain DEF Serves
<1>2. x = e \/ x.kind = e.kind  BY DEF Serves, SameThing
<1>3. Compared(e) => Compared(x)  BY <1>2 DEF Compared
<1>4. Compared(e) => y.at >= x.at /\ x.at >= e.at  BY <1>3 DEF Serves
<1>. QED  BY <1>1, <1>4 DEF Serves

\* A committed handler stores its event, stays committed or is cut off.
LEMMA StillCommitted ==
    ASSUME NEW c \in Conns, Turn(c), NEW d \in Conns, Committed(d), NEW e, Serves(Ev(d), e)
    PROVE  Covered(e)' \/ CutOff(e)'
<1> DEFINE x == Ev(d)
<1>1. CASE d # c
  <2>1. Ev(d)' = x /\ Committed(d)'  BY <1>1, OthersStay
  <2>2. Serves(Ev(d), e)'  BY <2>1 DEF Serves
  <2>. QED  BY <2>1, <2>2 DEF Covered
<1>2. CASE d = c /\ Ev(c) \in evt'
  <2>1. PICK y \in evt' : y = Ev(c)  BY <1>2
  <2>2. Serves(y, e)'  BY <1>2, <2>1 DEF Serves
  <2>. QED  BY <2>1, <2>2 DEF Covered
<1>3. CASE d = c /\ Committed(c)'
  <2>1. h'[c].pc # "idle"  BY <1>3 DEF Committed
  <2>2. Ev(c)' = Ev(c)  BY <2>1, SameEvent
  <2>3. Serves(Ev(c), e)'  BY <1>3, <2>2 DEF Serves
  <2>. QED  BY <1>3, <2>3 DEF Covered
<1>4. CASE d = c /\ Ev(c) \in unstored'
  <2>1. PICK y \in unstored' : y = Ev(c)  BY <1>4
  <2>2. Serves(y, e)'  BY <1>4, <2>1 DEF Serves
  <2>3. RemovesFirst(e) \/ OkFirst(e)  BY CommittedTo
  <2>. QED  BY <2>1, <2>2, <2>3 DEF CutOff
<1>. QED  BY <1>1, <1>2, <1>3, <1>4 DEF Turn, Answers

\* What was cut off stays so until a version is stored that serves.
LEMMA StillCutOff ==
    ASSUME Basics, NEW c \in Conns, Turn(c), NEW e \in Sent, CutOff(e)
    PROVE  Covered(e)' \/ CutOff(e)'
<1>1. PICK x \in unstored : Serves(x, e)  BY DEF CutOff
<1>2. CASE x \in unstored'
  <2>1. Serves(x, e)'  BY <1>1 DEF Serves
  <2>. QED  BY <1>2, <2>1 DEF CutOff
<1>3. CASE x \notin unstored'
  <2>1. Ev(c) \in evt' /\ Serves(Ev(c), x)  BY <1>1, <1>3 DEF Turn, Stores
  <2>2. x \in Sent /\ Ev(c) \in Sent  BY <1>1, EvSent DEF Turn, Moves, Basics, Shape
  <2>3. x.at \in Nat /\ Ev(c).at \in Nat /\ e.at \in Nat  BY <2>2 DEF Basics, Shape, Regular, Sent
  <2>4. Serves(Ev(c), e)  BY <1>1, <2>1, <2>3, ServesChain
  <2>5. PICK y \in evt' : y = Ev(c)  BY <2>1
  <2>6. Serves(y, e)'  BY <2>4, <2>5 DEF Serves
  <2>. QED  BY <2>5, <2>6 DEF Covered
<1>. QED  BY <1>2, <1>3

LEMMA TurnKept ==
    ASSUME Losing, NEW c \in Conns, Turn(c)
    PROVE  Kept'
<1>0. /\ Basics /\ Shape /\ Orderly(script) /\ There(c) /\ begun \subseteq begun' /\ begun' \subseteq begun \cup {Ev(c)}
      /\ Ev(c) \in Sent /\ begun \subseteq Sent
  BY EvSent DEF Losing, Turn, Moves, Basics, Shape
<1>. SUFFICES ASSUME NEW e \in begun', Wanted(e)'
              PROVE  (Covered(e)' \/ CutOff(e)') /\ (e.kind = 1 => e.id \in index')
  BY DEF Kept
<1>1. Kept  BY DEF Losing
<1>2. e.id \in oks' /\ ~Ephemeral(e.kind) /\ ~Unwanted(e)  BY <1>0, UnwantedStays DEF Wanted
<1>3. e \in Sent /\ \A y \in Sent : y.id = e.id => y = e  BY <1>0 DEF Shape, Regular, Sent
<1>4. CASE e.id \in oks
  <2>1. e \in begun
    <3>1. PICK y \in begun : y.id = e.id  BY <1>0, <1>4 DEF Shape
    <3>. QED  BY <1>0, <1>3, <3>1
  <2>2. (Covered(e) \/ CutOff(e)) /\ (e.kind = 1 => e.id \in index)  BY <1>1, <1>2, <1>4, <2>1 DEF Kept, Wanted
  <2>3. Covered(e)' \/ CutOff(e)'
    <3>0. CASE CutOff(e)  BY <1>0, <1>3, <3>0, StillCutOff
    <3>1. CASE \E d \in Conns : Committed(d) /\ Serves(Ev(d), e)  BY <3>1, StillCommitted
    <3>2. CASE \E x \in evt : Serves(x, e)
      <4>1. PICK x \in evt : Serves(x, e)  BY <3>2
      <4>2. CASE x \in evt'
        <5>1. Serves(x, e)'  BY <4>1 DEF Serves
        <5>. QED  BY <4>2, <5>1 DEF Covered
      <4>3. CASE x \notin evt'
        <5>1. Serves(Ev(c), e) /\ (Ev(c) \in evt' \/ Committed(c))  BY <1>2, <2>1, <4>1, <4>3, StillServed
        <5>2. CASE Committed(c)  BY <5>1, <5>2, StillCommitted
        <5>3. CASE Ev(c) \in evt'
          <6>1. PICK y \in evt' : y = Ev(c)  BY <5>3
          <6>2. Serves(y, e)'  BY <5>1, <6>1 DEF Serves
          <6>. QED  BY <6>1, <6>2 DEF Covered
        <5>. QED  BY <5>1, <5>2, <5>3
      <4>. QED  BY <4>2, <4>3
    <3>. QED  BY <2>2, <3>0, <3>1, <3>2 DEF Covered
  <2>4. ASSUME e.kind = 1, e.id \notin index' PROVE FALSE
    <3>1. h[c].pc = "unindex" /\ e.id = Head(h[c].todo)  BY <2>2, <2>4 DEF Turn, Stores
    <3>2. h[c].pc # "idle" /\ h[c].pc \in Removing  BY <3>1 DEF Removing
    <3>3. /\ Ev(c) \in begun /\ Accepts(Ev(c)) /\ Fits(Ev(c), h[c].pc) /\ Dues(script, Ev(c), h[c].todo)
          /\ Ready(script, Ev(c), h[c].pc, h[c].todo)
      BY <1>0, <3>2, Working
    <3>4. h[c].todo # <<>>  BY <3>2, <3>3 DEF Ready
    <3>5. Due(script, Ev(c), e.id) /\ e.id = h[c].todo[1]  BY <3>1, <3>3, <3>4, TailDue
    <3>6. CASE Ev(c).kind = 5
      <4>1. e.pubkey = Ev(c).pubkey  BY <1>3, <3>2, <3>3, <3>5, <3>6 DEF Ready, Sent
      <4>2. \E t \in Range(Ev(c).tags) : t[1] = "e" /\ Len(t) >= 2 /\ t[2] = e.id  BY <3>5, <3>6 DEF Due
      <4>3. Withdrawn(e)  BY <3>3, <3>6, <4>1, <4>2 DEF Withdrawn
      <4>. QED  BY <1>2, <4>3 DEF Unwanted
    <3>7. CASE Ev(c).kind # 5
      <4>1. e.pubkey = Ev(c).pubkey /\ Displaced(Ev(c), e)  BY <1>0, <1>3, <3>5, <3>7 DEF Due, Sent
      <4>2. CASE Ev(c).kind = 30023
        <5>1. Withdrawn(e)  BY <3>3, <4>1, <4>2 DEF Withdrawn, Displaced
        <5>. QED  BY <1>2, <5>1 DEF Unwanted
      <4>3. CASE Ev(c).kind # 30023
        <5>1. Ev(c).kind = 1  BY <2>4, <4>1, <4>3 DEF Displaced, SameThing
        <5>2. Ev(c).kind \in {5, 30023, 10010} \/ Replacing(Ev(c).kind)  BY <3>2, <3>3 DEF Fits
        <5>. QED  BY <5>1, <5>2, KindsDiffer
      <4>. QED  BY <4>2, <4>3
    <3>. QED  BY <3>6, <3>7
  <2>. QED  BY <2>3, <2>4
<1>5. CASE e.id \notin oks
  <2>1. oks' # oks /\ e.id = Ev(c).id  BY <1>2, <1>5 DEF Turn, Moves
  <2>2. e = Ev(c)  BY <1>0, <1>3, <2>1
  <2>3. ASSUME e \in evt' PROVE Covered(e)'
    <3>1. e.at \in Nat  BY <1>0, <1>3 DEF Shape, Regular, Sent
    <3>2. Serves(e, e)'  BY <3>1 DEF Serves
    <3>. QED  BY <2>3, <3>2 DEF Covered
  <2>4. CASE Held(c) /\ (e.kind = 1 => e.id \in index')
    <3>1. e \in evt  BY <1>0, <1>2, <2>2, <2>4 DEF There
    <3>2. e \in evt'
      <4>. SUFFICES ASSUME e \notin evt' PROVE FALSE  OBVIOUS
      <4>1. h[c].pc = "remove"  BY <1>0, <3>1, GoneIs
      <4>2. e.kind = 10010 /\ ~Replacing(e.kind)  BY <1>0, <2>2, <2>4, <4>1, HeldKinds, KindsDiffer
      <4>3. Withdrawn(e)  BY <1>0, <2>2, <3>1, <4>2, GoneHow
      <4>. QED  BY <1>2, <4>3 DEF Unwanted
    <3>. QED  BY <2>3, <2>4, <3>2
  <2>5. CASE e.kind # 1 /\ e \in evt'  BY <2>3, <2>5
  <2>6. CASE e.kind # 1 /\ Committed(c)'
    <3>1. h'[c].pc # "idle"  BY <2>6 DEF Committed
    <3>2. Ev(c)' = e  BY <2>2, <3>1, SameEvent
    <3>3. e.at \in Nat  BY <1>0, <1>3 DEF Shape, Regular, Sent
    <3>4. Serves(Ev(c), e)'  BY <3>2, <3>3 DEF Serves
    <3>. QED  BY <2>6, <3>4 DEF Covered
  <2>. QED  BY <1>2, <2>1, <2>2, <2>4, <2>5, <2>6 DEF Turn, Answers
<1>. QED  BY <1>4, <1>5

LEMMA NextLosing ==
    ASSUME Losing, [Next]_vars
    PROVE  Losing'
<1>0. Basics' /\ Orderly(script)  BY NextBasics DEF Losing
<1>1. CASE Next
  <2>1. PICK c \in Conns : Step(c)  BY <1>1 DEF Next
  <2>2. Turn(c)  BY <2>1, StepTurn DEF Losing
  <2>3. Kept' /\ \A d \in Conns : There(d)'  BY <2>2, TurnKept, TurnThere
  <2>4. script' = script  BY <2>2 DEF Turn, Moves
  <2>. QED  BY <1>0, <2>3, <2>4 DEF Losing
<1>2. CASE UNCHANGED vars
  <2>1. evt' = evt /\ script' = script /\ h' = h /\ oks' = oks /\ begun' = begun /\ unstored' = unstored
        /\ index' = index
    BY <1>2 DEF vars
  <2>2. Kept'
    BY <2>1 DEF Losing, Kept, Wanted, Covered, CutOff, Committed, Serves, Unwanted, Withdrawn, Ev, Sent
  <2>3. \A d \in Conns : There(d)'  BY <2>1 DEF Losing, There, Held, Unwanted, Withdrawn, Ev
  <2>. QED  BY <1>0, <2>1, <2>2, <2>3 DEF Losing
<1>. QED  BY <1>1, <1>2

LEMMA InitLosing ==
    ASSUME \A s \in Scripts : Regular(s) /\ Orderly(s), Init
    PROVE  Losing
<1>1. Basics /\ Orderly(script)  BY InitBasics DEF Init
<1>2. \A c \in Conns : h[c].pc = "idle"  BY DEF Init, AtRest
<1>3. \A c \in Conns : There(c)  BY <1>2 DEF There, Held, Removing
<1>4. Kept  BY DEF Init, Kept
<1>. QED  BY <1>1, <1>3, <1>4 DEF Losing

\* No order of the handlers, whatever calls fail, loses a note, or the last version
\* of an event, that was acknowledged and not withdrawn, and the newest one stays,
\* but where the StoreEvent of another version failed after the handler had
\* removed what it replaces, or that of a report after it was acknowledged.
THEOREM NothingIsLost ==
    ASSUME \A s \in Scripts : Regular(s) /\ Orderly(s)
    PROVE  Spec => [](NothingLost /\ NewestStored)
<1>1. Init => Losing  BY InitLosing
<1>2. Losing /\ [Next]_vars => Losing'  BY NextLosing
<1>3. Losing => NothingLost /\ NewestStored
  <2>. SUFFICES ASSUME Losing, Quiet, NEW e \in begun, e.id \in oks, ~Ephemeral(e.kind), ~Unwanted(e)
                PROVE  /\ e \in evt \/ (\E x \in evt : SameThing(x, e)) \/ CutOff(e)
                       /\ e.kind = 1 => e.id \in index
                       /\ Compared(e) => (\E x \in evt : Serves(x, e)) \/ CutOff(e)
    BY DEF NothingLost, NewestStored
  <2>1. (Covered(e) \/ CutOff(e)) /\ (e.kind = 1 => e.id \in index)  BY DEF Losing, Kept, Wanted
  <2>2. \A c \in Conns : ~Committed(c)  BY DEF Committed, Quiet
  <2>3. (\E x \in evt : Serves(x, e)) \/ CutOff(e)  BY <2>1, <2>2 DEF Covered
  <2>4. (\E x \in evt : Serves(x, e)) => e \in evt \/ \E x \in evt : SameThing(x, e)  BY DEF Serves
  <2>. QED  BY <2>1, <2>3, <2>4
<1>. QED  BY <1>1, <1>2, <1>3, PTL DEF Spec


-----------------------------------------------------------------------------
(* One version *)

\* Nobody else sends a version of a.
Private(c, a) == \A d \in Conns \ {c} : ~\E x \in Range(script[d]) : SameThing(x, a)
Lone(c, a)    == SameThing(Ev(c), a) /\ Private(c, a) /\ Findable(a)
Tied(a, b)    == a = b \/ (Compared(a) /\ a.at = b.at)

\* The handler removes the other versions: they are still on its list ...
Stays(c, a)      == (Compared(a) /\ a.at = Ev(c).at) \/ (Ev(c).kind = 10010 /\ a = Ev(c))
Left(c, rest, a) == Stays(c, a) \/ \E i \in DOMAIN rest : rest[i] = a.id
Clears(c)        == h[c].pc \in Removing \/ (h[c].pc \in {"put", "compare"} /\ Ev(c).kind # 10010)
Cleared(c) ==
    Clears(c) => \A a \in evt : Lone(c, a) =>
       Left(c, h[c].todo, a) /\ (h[c].pc = "unindex" => a.id # Head(h[c].todo))

\* ... and there are several only while they are removed after the last was stored.
Open(c, a, b) ==
    /\ h[c].pc # "idle" /\ Ev(c).kind = 10010 /\ SameThing(Ev(c), a)
    /\ h[c].pc \in Removing \/ (h[c].pc = "clean" /\ (a = Ev(c) \/ b = Ev(c)))
Single(c) ==
    \A a, b \in evt : SameThing(a, b) /\ Private(c, a) /\ Findable(a) /\ Findable(b) => Tied(a, b) \/ Open(c, a, b)

Lonely == Basics /\ Few(script) /\ (faults = 0 => \A c \in Conns : Single(c) /\ Cleared(c))

LEMMA PrivateAll ==
    ASSUME NEW c \in Conns, NEW a, NEW b, Private(c, a), SameThing(a, b)
    PROVE  Private(c, b)
<1>. SUFFICES ASSUME NEW d \in Conns \ {c}, NEW x \in Range(script[d]), SameThing(x, b) PROVE FALSE
  BY DEF Private
<1>1. SameThing(x, a)  BY SameTurned, SameChain
<1>. QED  BY <1>1 DEF Private

\* What one connection has for itself no other one sends.
LEMMA NotOthers ==
    ASSUME NEW c \in Conns, NEW d \in Conns, c # d, h[c].pos \in DOMAIN script[c], NEW a, Private(d, a)
    PROVE  ~SameThing(Ev(c), a)
<1>1. Ev(c) \in Range(script[c])  BY DEF Ev, Range
<1>. QED  BY <1>1 DEF Private

\* A query without a limit of its own finds all there is.
LEMMA FindsAll ==
    ASSUME Shape, Few(script), NEW f, Proper(f), f.ids = <<>>, f.limit = 0, NEW old \in QueryEvents(evt, f),
           NEW x \in evt, Matches(x, f)
    PROVE  \E i \in DOMAIN old : old[i] = x /\ i \in DOMAIN Ids(old) /\ Ids(old)[i] = x.id
<1>1. IsFiniteSet(Sent) /\ Cardinality(Sent) <= DefaultLimit  BY DEF Few, Sent
<1>2. Matching(evt, f) \subseteq Sent  BY DEF Matching, Shape
<1>3. Cardinality(Matching(evt, f)) <= Cardinality(Sent) /\ IsFiniteSet(Matching(evt, f))  BY <1>1, <1>2, FS_Subset
<1>4. Limit(f) = DefaultLimit  BY DEF Limit
<1>5. Cardinality(Matching(evt, f)) <= Limit(f)
  <2>1. Cardinality(Matching(evt, f)) \in Nat /\ Cardinality(Sent) \in Nat /\ DefaultLimit \in Nat
    BY <1>1, <1>3, FS_CardinalityType, StoreAssumption
  <2>. QED  BY <1>1, <1>3, <1>4, <2>1
<1>6. Range(old) = Matching(evt, f)  BY <1>5, AnswerIs, TimedEvents
<1>7. \E i \in DOMAIN old : old[i] = x  BY <1>6 DEF Matching, Range
<1>. QED  BY <1>7 DEF Ids

-----------------------------------------------------------------------------
(* How a step keeps it *)

LEMMA OneOthers ==
    ASSUME Basics, NEW c \in Conns, Turn(c), NEW d \in Conns, d # c, Single(d), Cleared(d)
    PROVE  Single(d)' /\ Cleared(d)'
<1>1. Ev(d)' = Ev(d) /\ h'[d] = h[d] /\ script' = script  BY OthersStay DEF Turn, Moves
<1>2. h[c].pos \in DOMAIN script[c] /\ \A x \in evt' \ evt : x = Ev(c)  BY DEF Turn, Moves, Stores
<1>3. \A a : Private(d, a)' <=> Private(d, a)  BY <1>1 DEF Private
<1>4. ASSUME NEW a \in evt', NEW b, SameThing(a, b) \/ SameThing(b, a), Private(d, b)
      PROVE  a \in evt
  <2>1. ~SameThing(Ev(c), b)  BY <1>2, <1>4, NotOthers
  <2>2. SameThing(a, b)  BY <1>4, SameTurned
  <2>. QED  BY <1>2, <2>1, <2>2
<1>5. Single(d)'
  <2>. SUFFICES ASSUME NEW a \in evt', NEW b \in evt', SameThing(a, b), Private(d, a), Findable(a), Findable(b)
                PROVE  Tied(a, b) \/ Open(d, a, b)'
    BY <1>3 DEF Single, Tied, Findable, Compared
  <2>1. Private(d, b)  BY PrivateAll
  <2>2. a \in evt /\ b \in evt  BY <1>4, <2>1
  <2>3. Tied(a, b) \/ Open(d, a, b)  BY <2>2 DEF Single
  <2>. QED  BY <1>1, <2>3 DEF Open
<1>6. Cleared(d)'
  <2>. SUFFICES ASSUME Clears(d), NEW a \in evt', Lone(d, a)
                PROVE  Left(d, h[d].todo, a) /\ (h[d].pc = "unindex" => a.id # Head(h[d].todo))
    BY <1>1, <1>3 DEF Cleared, Clears, Lone, Left, Stays
  <2>1. SameThing(a, a)  BY SameTurned, SameChain DEF Lone
  <2>2. a \in evt  BY <1>4, <2>1 DEF Lone
  <2>. QED  BY <2>2 DEF Cleared
<1>. QED  BY <1>5, <1>6

\* What is left of the list holds all that has to go.
LEMMA OneContinue ==
    ASSUME Shape, NEW c \in Conns, NEW rest \in Seq(NamedBy(script)), Continue(c, rest), script' = script,
           evt' \subseteq evt, Single(c), \A a \in evt' : Lone(c, a) => Left(c, rest, a)
    PROVE  Single(c)' /\ Cleared(c)'
<1> DEFINE e == Ev(c)
           pc == IF rest = <<>> THEN "put" ELSE IF e.kind = 5 THEN "ask"
                 ELSE IF Universal(e.kind) THEN "compare" ELSE "erase"
<1>0. pc \in {"put", "ask", "compare", "erase"} /\ pc \in Pcs /\ <<>> \in Seq(NamedBy(script))  BY DEF Pcs
<1>1. \/ rest = <<>> /\ e.kind = 5 /\ Moved(c, "idle", <<>>, h[c].pos + 1)
      \/ rest = <<>> /\ e.kind = 10010 /\ Moved(c, "idle", <<>>, h[c].pos + 1)
      \/ ~(rest = <<>> /\ e.kind \in {5, 10010}) /\ Moved(c, pc, rest, h[c].pos)
  <2>1. CASE rest = <<>> /\ e.kind = 5
    <3>1. Refuse(c)  BY <2>1 DEF Continue
    <3>. QED  BY <2>1, <3>1, RefuseIs
  <2>2. CASE rest = <<>> /\ e.kind = 10010
    <3>1. Ok(c)  BY <2>2 DEF Continue
    <3>. QED  BY <2>2, <3>1, OkIs
  <2>3. CASE ~(rest = <<>> /\ e.kind \in {5, 10010})
    <3>1. Then(c, pc, rest)  BY <2>3 DEF Continue
    <3>. HIDE DEF pc
    <3>. QED  BY <1>0, <2>3, <3>1, ThenIs
  <2>. QED  BY <2>1, <2>2, <2>3
<1>2. /\ h'[c].pc # "idle" => h'[c].pos = h[c].pos /\ h'[c].todo = rest
      /\ h'[c].pc \in {"idle", "put", "ask", "compare", "erase"}
      /\ e.kind = 10010 => h'[c].pc = IF rest = <<>> THEN "idle" ELSE "erase"
  BY <1>0, <1>1, KindsDiffer DEF Moved
<1>3. h'[c].pc # "idle" => Ev(c)' = e  BY <1>2 DEF Ev
<1>4. \A a : (Private(c, a)' <=> Private(c, a))  BY DEF Private
<1> HIDE DEF e, pc
<1>5. Single(c)'
  <2>. SUFFICES ASSUME NEW a \in evt', NEW b \in evt', SameThing(a, b), Private(c, a), Findable(a), Findable(b)
                PROVE  Tied(a, b) \/ Open(c, a, b)'
    BY <1>4 DEF Single, Tied, Findable, Compared
  <2>1. Tied(a, b) \/ Open(c, a, b)  BY DEF Single
  <2>2. CASE Open(c, a, b) /\ rest = <<>>
    <3>1. e.kind = 10010 /\ SameThing(e, a) /\ SameThing(e, b)  BY <2>2, SameChain DEF Open, e
    <3>2. Lone(c, a) /\ Lone(c, b)  BY <3>1, PrivateAll DEF Lone, e
    <3>3. Stays(c, a) /\ Stays(c, b)  BY <2>2, <3>2 DEF Left
    <3>4. a.kind = 10010 /\ b.kind = 10010  BY <3>1 DEF SameThing
    <3>5. a = e /\ b = e  BY <3>3, <3>4, KindsDiffer DEF Stays, Compared, e
    <3>. QED  BY <3>5 DEF Tied
  <2>3. CASE Open(c, a, b) /\ rest # <<>>
    <3>1. e.kind = 10010 /\ SameThing(e, a)  BY <2>3 DEF Open, e
    <3>2. h'[c].pc = "erase"  BY <1>2, <2>3, <3>1
    <3>. QED  BY <1>3, <3>1, <3>2 DEF Open, Removing
  <2>. QED  BY <2>1, <2>2, <2>3
<1>6. Cleared(c)'
  <2>. SUFFICES ASSUME Clears(c)', NEW a \in evt', Lone(c, a)'
                PROVE  Left(c, h[c].todo, a)' /\ h'[c].pc # "unindex"
    BY DEF Cleared
  <2>1. h'[c].pc # "idle"  BY DEF Clears, Removing
  <2>2. Ev(c)' = e /\ h'[c].todo = rest  BY <1>2, <1>3, <2>1
  <2>3. Lone(c, a)  BY <1>4, <2>2 DEF Lone, Findable, e
  <2>4. Left(c, rest, a)  BY <2>3
  <2>5. Left(c, h[c].todo, a)'  BY <2>2, <2>4 DEF Left, Stays, Compared, e
  <2>. QED  BY <1>2, <2>5
<1>. QED  BY <1>5, <1>6

\* The list stays as it is.
LEMMA OneSame ==
    ASSUME Basics, NEW c \in Conns, h[c].pc \in {"compare", "erase", "remove"}, NEW pc \in Removing,
           Then(c, pc, h[c].todo), script' = script, evt' \subseteq evt, Single(c), Cleared(c),
           pc = "unindex" => \A a \in evt' : a.id # Head(h[c].todo)
    PROVE  Single(c)' /\ Cleared(c)'
<1>1. h[c].pc # "idle"  OBVIOUS
<1>2. Shape /\ h[c].todo \in Seq(NamedBy(script)) /\ Fits(Ev(c), h[c].pc)  BY <1>1, Working DEF Dues
<1>3. pc \in Pcs  BY DEF Pcs, Removing
<1>4. Moved(c, pc, h[c].todo, h[c].pos)  BY <1>2, <1>3, ThenIs
<1>5. h'[c].pc = pc /\ h'[c].todo = h[c].todo /\ Ev(c)' = Ev(c)  BY <1>4 DEF Moved, Ev
<1>6. \A a : (Private(c, a)' <=> Private(c, a))  BY DEF Private
<1>7. Clears(c)
  <2>1. h[c].pc = "compare" => Ev(c).kind # 10010  BY <1>2, KindsDiffer DEF Fits
  <2>. QED  BY <2>1 DEF Clears, Removing
<1>8. Single(c)'
  <2>. SUFFICES ASSUME NEW a \in evt', NEW b \in evt', SameThing(a, b), Private(c, a), Findable(a), Findable(b)
                PROVE  Tied(a, b) \/ Open(c, a, b)'
    BY <1>6 DEF Single, Tied, Findable, Compared
  <2>1. Tied(a, b) \/ Open(c, a, b)  BY DEF Single
  <2>2. pc # "idle"  BY DEF Removing
  <2>. QED  BY <1>5, <2>1, <2>2 DEF Open
<1>9. Cleared(c)'
  <2>. SUFFICES ASSUME NEW a \in evt', Lone(c, a)'
                PROVE  Left(c, h[c].todo, a)' /\ (h'[c].pc = "unindex" => a.id # Head(h'[c].todo))
    BY DEF Cleared
  <2>1. Lone(c, a)  BY <1>5, <1>6 DEF Lone, Findable
  <2>2. Left(c, h[c].todo, a)  BY <1>7, <2>1 DEF Cleared
  <2>3. Left(c, h[c].todo, a)'  BY <1>5, <2>2 DEF Left, Stays, Compared
  <2>. QED  BY <1>5, <2>3
<1>. QED  BY <1>8, <1>9

\* A handler that stands where it clears nothing.
LEMMA OneElse ==
    ASSUME Shape, NEW c \in Conns, NEW pc \in Pcs, NEW todo, NEW pos, Moved(c, pc, todo, pos), evt' \subseteq evt, Single(c),
           ~Clears(c)' \/ \A a \in evt' : ~Lone(c, a)',
           \A a, b \in evt : ~Open(c, a, b)
    PROVE  Single(c)' /\ Cleared(c)'
<1>1. script' = script  BY DEF Moved
<1>2. \A a : (Private(c, a)' <=> Private(c, a))  BY <1>1 DEF Private
<1>3. Single(c)'
  <2>. SUFFICES ASSUME NEW a \in evt', NEW b \in evt', SameThing(a, b), Private(c, a), Findable(a), Findable(b)
                PROVE  Tied(a, b)
    BY <1>2 DEF Single, Tied, Findable, Compared
  <2>. QED  BY DEF Single
<1>4. Cleared(c)'  BY DEF Cleared
<1>. QED  BY <1>3, <1>4


-----------------------------------------------------------------------------
(* ... and that every step keeps it *)

LEMMA NoVersions ==
    ASSUME NEW e, e.kind \in (PlainKinds \ {10010}) \cup Reposts \cup {5, 1984}
    PROVE  \A a : ~SameThing(e, a)
<1>1. e.kind \in Handled  BY HandledAssumption
<1>2. ~Universal(e.kind)  BY <1>1 DEF Universal
<1>3. e.kind \notin WipeKinds \cup {10010, 1063, 30023}  BY DEF WipeKinds, PlainKinds, Reposts
<1>. QED  BY <1>2, <1>3 DEF SameThing

LEMMA NotOpen ==
    ASSUME NEW c \in Conns, \/ h[c].pc \in {"idle", "count", "add", "create", "compare", "put", "index", "ask"}
                            \/ Ev(c).kind # 10010
    PROVE  \A a, b \in evt : ~Open(c, a, b)
BY DEF Open, Removing

LEMMA OneEnd ==
    ASSUME Shape, NEW c \in Conns, Refuse(c) \/ Ok(c), script' = script, evt' \subseteq evt, Single(c),
           \A a, b \in evt : ~Open(c, a, b)
    PROVE  Single(c)' /\ Cleared(c)'
<1>1. Moved(c, "idle", <<>>, h[c].pos + 1)  BY RefuseIs, OkIs
<1>2. "idle" \in Pcs /\ ~Clears(c)'  BY <1>1 DEF Pcs, Clears, Removing, Moved
<1>. QED  BY <1>1, <1>2, OneElse

LEMMA OneThen ==
    ASSUME Shape, NEW c \in Conns, NEW pc \in Pcs \ {"idle"}, NEW todo \in Seq(NamedBy(script)), Goto(c, pc, todo),
           script' = script, evt' \subseteq evt, Single(c), \A a, b \in evt : ~Open(c, a, b),
           \/ \A a : ~SameThing(Ev(c), a)
           \/ pc \notin Removing \cup {"put", "compare"}
           \/ pc = "put" /\ Ev(c).kind = 10010
    PROVE  Single(c)' /\ Cleared(c)'
<1>1. Moved(c, pc, todo, h[c].pos)  BY GotoIs DEF Shape
<1>2. Ev(c)' = Ev(c) /\ h'[c].pc = pc  BY <1>1 DEF Moved, Ev
<1>3. (\A a : ~SameThing(Ev(c), a)) => \A a \in evt' : ~Lone(c, a)'  BY <1>2 DEF Lone
<1>4. ~(\A a : ~SameThing(Ev(c), a)) => ~Clears(c)'  BY <1>2 DEF Clears, Removing
<1>. QED  BY <1>1, <1>3, <1>4, OneElse

Alright(c) == Lonely /\ faults = 0 /\ Basics /\ Shape /\ Few(script) /\ Single(c) /\ Cleared(c) /\ faults' = 0

LEMMA StartOne ==
    ASSUME NEW c \in Conns, Alright(c), Reject(c) \/ Plain(c) \/ Repost(c) \/ ReportEvent(c) \/ Delete(c)
    PROVE  Single(c)' /\ Cleared(c)'
<1>1. Shape /\ Basics /\ Single(c)  BY DEF Alright
<1>2. h[c].pc = "idle" /\ script' = script /\ evt' = evt
  BY DEF Reject, Plain, Repost, ReportEvent, Delete, Takes
<1>3. \A a, b \in evt : ~Open(c, a, b)  BY <1>2, NotOpen
<1>4. CASE Refuse(c)  BY <1>1, <1>2, <1>3, <1>4, OneEnd
<1>5. CASE Plain(c) \/ Repost(c) \/ ReportEvent(c)
  <2>1. PICK pc \in {"put", "count"} : Goto(c, pc, <<>>) \/ Refuse(c)  BY <1>5 DEF Plain, Repost, ReportEvent, Then
  <2>2. Ev(c).kind \in PlainKinds \cup Reposts \cup {1984} /\ (pc = "count" => pc \notin Removing \cup {"put", "compare"})
    BY <1>5 DEF Plain, Repost, ReportEvent, Takes, Removing
  <2>3. (\A a : ~SameThing(Ev(c), a)) \/ Ev(c).kind = 10010  BY <2>2, NoVersions
  <2>4. pc \in Pcs \ {"idle"} /\ <<>> \in Seq(NamedBy(script))  BY DEF Pcs
  <2>5. CASE Goto(c, pc, <<>>)
    <3>1. \/ \A a : ~SameThing(Ev(c), a)
          \/ pc \notin Removing \cup {"put", "compare"}
          \/ pc = "put" /\ Ev(c).kind = 10010
      BY <2>2, <2>3
    <3>2. PICK todo \in Seq(NamedBy(script)) : todo = <<>>  BY <2>4
    <3>3. Goto(c, pc, todo) /\ evt' \subseteq evt  BY <1>2, <2>5, <3>2
    <3>. QED  BY <1>1, <1>2, <1>3, <2>4, <3>1, <3>3, OneThen
  <2>. QED  BY <1>4, <2>1, <2>5
<1>6. CASE Delete(c)
  <2>1. Turn(c)  BY <1>1, <1>6, DeleteTurn
  <2>2. Ev(c).kind = 5  BY <1>6 DEF Delete, Takes
  <2>3. \A a : ~SameThing(Ev(c), a)  BY <2>2, NoVersions
  <2>4. h'[c].pc = "idle" \/ Ev(c)' = Ev(c)  BY <2>1, SameEvent
  <2>5. ~Clears(c)' \/ \A a \in evt' : ~Lone(c, a)'
    <3>1. CASE h'[c].pc = "idle"  BY <3>1 DEF Clears, Removing
    <3>2. CASE Ev(c)' = Ev(c)  BY <2>3, <3>2 DEF Lone
    <3>. QED  BY <2>4, <3>1, <3>2
  <2>6. Moved(c, h'[c].pc, h'[c].todo, h'[c].pos) /\ h'[c].pc \in Pcs  BY <2>1 DEF Turn, Moves, Moved, Handler
  <2>. QED  BY <1>1, <1>2, <1>3, <2>5, <2>6, OneElse
<1>7. Reject(c) => Refuse(c)  BY DEF Reject
<1>. QED  BY <1>4, <1>5, <1>6, <1>7

\* A handler that takes an event with a list of all there is.
LEMMA StartAll ==
    ASSUME NEW c \in Conns, Alright(c), h[c].pc = "idle", script' = script, evt' = evt,
           NEW rest, Dues(script, Ev(c), rest), Continue(c, rest),
           \A a \in evt : Lone(c, a) => \E i \in DOMAIN rest : rest[i] = a.id
    PROVE  Single(c)' /\ Cleared(c)'
<1>1. Shape /\ Single(c) /\ rest \in Seq(NamedBy(script))  BY DEF Alright, Dues
<1>. QED  BY <1>1, OneContinue DEF Left

LEMMA WipeOne ==
    ASSUME NEW c \in Conns, Alright(c), Wipe(c)
    PROVE  Single(c)' /\ Cleared(c)'
<1>1. Shape /\ Few(script) /\ Single(c)  BY DEF Alright
<1>2. Ev(c).kind \in WipeKinds /\ h[c].pc = "idle" /\ script' = script /\ evt' = evt  BY DEF Wipe, Takes
<1>3. PICK old \in QueryEvents(evt, MineOfKind(Ev(c))) : Refuse(c) \/ Continue(c, Ids(old))  BY DEF Wipe
<1>4. \A a, b \in evt : ~Open(c, a, b)  BY <1>2, NotOpen
<1>5. CASE Refuse(c)  BY <1>1, <1>2, <1>4, <1>5, OneEnd
<1>6. CASE Continue(c, Ids(old))
  <2>1. Dues(script, Ev(c), Ids(old))  BY <1>1, <1>2, WipeDue
  <2>2. ASSUME NEW a \in evt, Lone(c, a) PROVE \E i \in DOMAIN Ids(old) : Ids(old)[i] = a.id
    <3>1. a.pubkey = Ev(c).pubkey /\ a.kind = Ev(c).kind  BY <2>2 DEF Lone, SameThing
    <3>2. Matches(a, MineOfKind(Ev(c)))  BY <3>1, MineAll
    <3>3. Proper(MineOfKind(Ev(c))) /\ MineOfKind(Ev(c)).ids = <<>> /\ MineOfKind(Ev(c)).limit = 0  BY MineAll
    <3>. QED  BY <1>1, <3>2, <3>3, FindsAll
  <2>. QED  BY <1>2, <1>6, <2>1, <2>2, StartAll
<1>. QED  BY <1>3, <1>5, <1>6

LEMMA ArticleNamed ==
    ASSUME NEW e, e.kind = 30023, Accepts(e)
    PROVE  First(e, {"d"}) # None
BY DEF Accepts, Article

LEMMA WriteOne ==
    ASSUME NEW c \in Conns, Alright(c), Write(c)
    PROVE  Single(c)' /\ Cleared(c)'
<1> DEFINE e == Ev(c)
           f == WithD(e, First(e, {"d"}))
<1>1. Shape /\ Basics /\ Few(script)  BY DEF Alright
<1>2. /\ e.kind = 30023 /\ Accepts(e) /\ h[c].pc = "idle" /\ script' = script /\ evt' = evt
      /\ h[c].pos <= Len(script[c])
  BY DEF Write, Takes
<1>3. PICK old \in QueryEvents(evt, f) : Continue(c, Ids(old))  BY DEF Write
<1>4. Orderly(script) => e \notin evt  BY <1>1, <1>2, NextEvent, NotPast DEF Basics
<1>5. Dues(script, e, Ids(old))  BY <1>1, <1>2, <1>3, <1>4, WriteDue
<1>6. ASSUME NEW a \in evt, Lone(c, a) PROVE \E i \in DOMAIN Ids(old) : Ids(old)[i] = a.id
  <2>1. a.pubkey = e.pubkey /\ First(a, {"d"}) = First(e, {"d"})
    <3>1. SameThing(e, a)  BY <1>6 DEF Lone
    <3>. QED  BY <1>2, <3>1, KindsDiffer DEF SameThing, WipeKinds
  <2>2. a.tags \in Seq(Range(a.tags))  BY <1>1 DEF Shape, Regular, Sent
  <2>3. First(e, {"d"}) \in Values(a, "d")  BY <1>2, <2>1, <2>2, ArticleNamed, FirstIs
  <2>4. Matches(a, f)  BY <2>1, <2>3, WithDAll
  <2>5. Proper(f) /\ f.ids = <<>> /\ f.limit = 0  BY WithDAll
  <2> HIDE DEF f
  <2>. QED  BY <1>1, <1>3, <2>4, <2>5, FindsAll
<1>. QED  BY <1>2, <1>3, <1>5, <1>6, StartAll

LEMMA ReplaceOne ==
    ASSUME NEW c \in Conns, Alright(c), Replace(c)
    PROVE  Single(c)' /\ Cleared(c)'
<1> DEFINE e == Ev(c)
<1>1. Shape /\ Few(script) /\ Single(c)  BY DEF Alright
<1>2. /\ Universal(e.kind) /\ h[c].pc = "idle" /\ script' = script /\ evt' = evt /\ h[c].pos <= Len(script[c])
      /\ e \in Sent
  BY <1>1, NextEvent DEF Replace
<1>3. CASE Ephemeral(e.kind)
  <2>1. Ok(c)  BY <1>3 DEF Replace
  <2>2. \A a, b \in evt : ~Open(c, a, b)  BY <1>2, NotOpen
  <2>. QED  BY <1>1, <1>2, <2>1, <2>2, OneEnd
<1>4. CASE ~Ephemeral(e.kind)
  <2>1. PICK old \in Others(e) : Continue(c, Ids(old))  BY <1>4 DEF Replace
  <2>2. Dues(script, e, Ids(old))  BY <1>1, <1>2, <2>1, OthersDue
  <2>3. ASSUME NEW a \in evt, Lone(c, a) PROVE \E i \in DOMAIN Ids(old) : Ids(old)[i] = a.id
    <3>1. SameThing(e, a) /\ Findable(a)  BY <2>3 DEF Lone
    <3>2. a.pubkey = e.pubkey /\ a.kind = e.kind  BY <3>1 DEF SameThing
    <3>3. CASE Replaceable(e.kind)
      <4>1. ~Addressable(e.kind)  BY <3>3, KindsApart
      <4>2. old \in QueryEvents(evt, MineOfKind(e))  BY <2>1, <3>3, <4>1 DEF Others
      <4>3. Matches(a, MineOfKind(e))  BY <3>2, MineAll
      <4>4. Proper(MineOfKind(e)) /\ MineOfKind(e).ids = <<>> /\ MineOfKind(e).limit = 0  BY MineAll
      <4>. QED  BY <1>1, <4>2, <4>3, <4>4, FindsAll
    <3>4. CASE ~Replaceable(e.kind)
      <4> DEFINE f == [WithD(e, Name(e)) EXCEPT !.kinds = <<e.kind>>]
      <4>1. Addressable(e.kind) /\ Name(e) = Name(a)  BY <1>2, <3>1, <3>4, KindsDiffer DEF SameThing
      <4>2. old \in QueryEvents(evt, f)  BY <2>1, <3>4, <4>1 DEF Others
      <4>3. First(a, {"d"}) # None  BY <1>2, <3>1, <3>2, <4>1 DEF Findable
      <4>4. a.tags \in Seq(Range(a.tags))  BY <1>1 DEF Shape, Regular, Sent
      <4>5. Name(e) \in Values(a, "d")  BY <4>1, <4>3, <4>4, FirstIs DEF Name
      <4>6. Proper(f) /\ f.ids = <<>> /\ f.limit = 0  BY WithDIs
      <4>7. \A x : Matches(x, f) <=> x.pubkey = e.pubkey /\ x.kind = e.kind /\ Name(e) \in Values(x, "d")  BY WithDIs
      <4> HIDE DEF f
      <4>. QED  BY <1>1, <3>2, <4>2, <4>5, <4>6, <4>7, FindsAll
    <3>. QED  BY <3>3, <3>4
  <2>. QED  BY <1>2, <2>1, <2>2, <2>3, StartAll
<1>. QED  BY <1>3, <1>4

LEMMA AudioOne ==
    ASSUME NEW c \in Conns, Alright(c), Audio(c)
    PROVE  Single(c)' /\ Cleared(c)'
<1> DEFINE e == Ev(c)
           at(mine) == {i \in DOMAIN mine : First(mine[i], {"blossom_hash"}) = First(e, {"blossom_hash"})}
           same(mine) == Picked(mine, at(mine))
<1>1. Shape /\ Basics /\ Few(script) /\ Single(c)  BY DEF Alright
<1>2. e.kind = 1063 /\ h[c].pc = "idle" /\ script' = script /\ evt' = evt  BY DEF Audio, Takes
<1>3. PICK mine \in QueryEvents(evt, MineOfKind(e)) :
         \/ Continue(c, Ids(same(mine)))
         \/ Refuse(c)
  BY DEF Audio
<1>4. CASE Refuse(c)
  <2>1. \A a, b \in evt : ~Open(c, a, b)  BY <1>2, NotOpen
  <2>. QED  BY <1>1, <1>2, <1>4, <2>1, OneEnd
<1>5. CASE Continue(c, Ids(same(mine)))
  <2> DEFINE s == same(mine)
             pos == at(mine)
  <2>0. Proper(MineOfKind(e)) /\ MineOfKind(e).ids = <<>> /\ MineOfKind(e).limit = 0  BY MineAll
  <2>1. mine \in Seq(evt)  BY <1>1, <2>0, AnswerIs, TimedEvents
  <2>2. s \in Seq(evt) /\ Range(s) = {mine[i] : i \in pos}
    <3>1. s = Picked(mine, pos) /\ pos \in SUBSET DOMAIN mine  OBVIOUS
    <3>. HIDE DEF pos, s, at
    <3>. QED  BY <2>1, <3>1, PickedIs
  <2>3. ASSUME NEW a \in evt, Lone(c, a) PROVE \E i \in DOMAIN Ids(s) : Ids(s)[i] = a.id
    <3>1. /\ a.pubkey = e.pubkey /\ a.kind = e.kind
          /\ First(a, {"blossom_hash"}) = First(e, {"blossom_hash"})
      <4>1. SameThing(e, a)  BY <2>3 DEF Lone
      <4>. QED  BY <1>2, <4>1, KindsDiffer DEF SameThing, WipeKinds
    <3>2. Matches(a, MineOfKind(e))  BY <3>1, MineAll
    <3>3. \E i \in DOMAIN mine : mine[i] = a  BY <1>1, <2>0, <3>2, FindsAll
    <3>4. a \in Range(s)  BY <2>2, <3>1, <3>3
    <3>. HIDE DEF s
    <3>. QED  BY <3>4 DEF Range, Ids
  <2>4. \A a \in evt' : Lone(c, a) => Left(c, Ids(s), a)  BY <1>2, <2>3 DEF Left
  <2>5. Ids(s) \in Seq(NamedBy(script))
    <3>. HIDE DEF s
    <3>1. Len(s) \in Nat /\ DOMAIN s = 1..Len(s) /\ \A i \in DOMAIN s : s[i] \in SentBy(script)
      BY <1>1, <2>2, LenProperties, ElementOfSeq DEF Shape, Sent
    <3>2. \A i \in DOMAIN s : s[i].id \in NamedBy(script)  BY <3>1 DEF NamedBy
    <3>. QED  BY <3>1, <3>2, SeqDef DEF Ids
  <2>6. Continue(c, Ids(s))  BY <1>5
  <2> HIDE DEF s
  <2>. QED  BY <1>1, <1>2, <2>4, <2>5, <2>6, OneContinue
<1>. QED  BY <1>3, <1>4, <1>5


LEMMA CountOne ==
    ASSUME NEW c \in Conns, Alright(c), FindReport(c) \/ CountReport(c)
    PROVE  Single(c)' /\ Cleared(c)'
<1>1. Shape /\ Basics /\ Single(c)  BY DEF Alright
<1>2. h[c].pc \in {"count", "add", "create"} /\ h[c].pc # "idle" /\ script' = script /\ evt' \subseteq evt
  BY DEF FindReport, CountReport
<1>3. Ev(c).kind = 1984  BY <1>1, <1>2, Working DEF Fits
<1>4. PICK pc \in {"add", "create", "put"} : Then(c, pc, <<>>)  BY DEF FindReport, CountReport
<1>5. PICK todo \in Seq(NamedBy(script)) : todo = <<>>
  <2>1. <<>> \in Seq(NamedBy(script))  OBVIOUS
  <2>. QED  BY <2>1
<1>6. Then(c, pc, todo) /\ pc \in Pcs \ {"idle"}  BY <1>4, <1>5 DEF Pcs
<1>7. (\A a : ~SameThing(Ev(c), a)) /\ \A a, b \in evt : ~Open(c, a, b)  BY <1>2, <1>3, NoVersions, NotOpen
<1>. QED  BY <1>1, <1>2, <1>6, <1>7, OneThen DEF Then

LEMMA TailLeft ==
    ASSUME NEW c \in Conns, NEW T, NEW todo \in Seq(T), todo # <<>>, NEW a, Left(c, todo, a), a.id # todo[1]
    PROVE  Left(c, Tail(todo), a)
<1>1. CASE Stays(c, a)  BY <1>1 DEF Left
<1>2. CASE \E i \in DOMAIN todo : todo[i] = a.id
  <2>1. PICK i \in DOMAIN todo : todo[i] = a.id  BY <1>2
  <2>2. Len(todo) \in Nat /\ DOMAIN todo = 1..Len(todo) /\ Len(todo) # 0  BY LenProperties, EmptySeq
  <2>3. Tail(todo) \in Seq(T) /\ Len(Tail(todo)) = Len(todo) - 1 /\ DOMAIN Tail(todo) = 1..Len(Tail(todo))
        /\ \A n \in 1..Len(Tail(todo)) : Tail(todo)[n] = todo[n + 1]
    BY <2>2, HeadTailProperties, LenProperties
  <2>4. i - 1 \in DOMAIN Tail(todo) /\ Tail(todo)[i - 1] = todo[i]  BY <2>1, <2>2, <2>3
  <2>. QED  BY <2>1, <2>4 DEF Left
<1>. QED  BY <1>1, <1>2 DEF Left

LEMMA CompareOne ==
    ASSUME NEW c \in Conns, Alright(c), Compare(c)
    PROVE  Single(c)' /\ Cleared(c)'
<1> DEFINE e == Ev(c)
           todo == h[c].todo
<1>0. Shape /\ Basics /\ Single(c) /\ Cleared(c)  BY DEF Alright
<1>1. h[c].pc = "compare" /\ h[c].pc # "idle" /\ script' = script /\ evt' = evt  BY DEF Compare
<1>2. /\ e \in Sent /\ Fits(e, "compare") /\ Dues(script, e, todo) /\ Ready(script, e, "compare", todo)
  BY <1>0, <1>1, Working
<1>3. Universal(e.kind) /\ e.kind # 5 /\ e.kind # 10010 /\ todo # <<>>
  BY <1>2, KindsDiffer DEF Fits, Ready
<1>4. Due(script, e, todo[1]) /\ Head(todo) = todo[1] /\ Dues(script, e, Tail(todo))  BY <1>2, <1>3, TailDue
<1>5. PICK x \in Sent : x.id = todo[1]  BY <1>3, <1>4 DEF Due, Sent
<1>6. Event(Head(todo)) = x  BY <1>0, <1>4, <1>5, EventIs DEF Shape
<1>7. x.at \in Nat /\ e.at \in Nat  BY <1>0, <1>2 DEF Shape, Regular, Sent
<1>8. CASE x.at < e.at
  <2>1. Then(c, "erase", todo)  BY <1>6, <1>8 DEF Compare, Older
  <2>2. "erase" \in Removing  BY DEF Removing
  <2>. QED  BY <1>0, <1>1, <2>1, <2>2, OneSame
<1>9. CASE x.at > e.at
  <2>1. Refuse(c)  BY <1>6, <1>7, <1>9 DEF Compare, Older
  <2>2. \A a, b \in evt : ~Open(c, a, b)  BY <1>1, NotOpen
  <2>. QED  BY <1>0, <1>1, <2>1, <2>2, OneEnd
<1>10. CASE x.at = e.at
  <2>1. Continue(c, Tail(todo)) /\ Tail(todo) \in Seq(NamedBy(script))
    BY <1>4, <1>6, <1>7, <1>10 DEF Compare, Older, Dues
  <2>2. ASSUME NEW a \in evt, Lone(c, a) PROVE Left(c, Tail(todo), a)
    <3>1. Left(c, todo, a)  BY <1>1, <1>0, <1>3, <2>2 DEF Cleared, Clears
    <3>2. CASE a.id = todo[1]
      <4>1. a = x  BY <1>0, <1>5, <3>2 DEF Shape, Regular, Sent
      <4>2. Compared(a)  BY <1>3, <2>2 DEF Lone, SameThing, Compared
      <4>. QED  BY <1>10, <4>1, <4>2 DEF Left, Stays
    <3>3. CASE a.id # todo[1]  BY <1>2, <1>3, <1>4, <3>1, <3>3, TailLeft DEF Dues
    <3>. QED  BY <3>2, <3>3
  <2>. QED  BY <1>0, <1>1, <2>1, <2>2, OneContinue
<1>. QED  BY <1>7, <1>8, <1>9, <1>10

\* The first on the list is not there any more.
LEMMA NextOne ==
    ASSUME NEW c \in Conns, Alright(c), h[c].pc \in Removing, Continue(c, Tail(h[c].todo)),
           script' = script, evt' \subseteq evt, \A a \in evt' : Lone(c, a) => a.id # Head(h[c].todo)
    PROVE  Single(c)' /\ Cleared(c)'
<1> DEFINE todo == h[c].todo
<1>1. Shape /\ Basics /\ Single(c) /\ Cleared(c)  BY DEF Alright
<1>2. h[c].pc # "idle"  BY DEF Removing
<1>3. Dues(script, Ev(c), todo) /\ Ready(script, Ev(c), h[c].pc, todo)  BY <1>1, <1>2, Working
<1>4. todo # <<>>  BY <1>3 DEF Ready
<1>5. Head(todo) = todo[1] /\ Tail(todo) \in Seq(NamedBy(script)) /\ todo \in Seq(NamedBy(script))
  BY <1>3, <1>4, TailDue DEF Dues
<1>6. \A a \in evt' : Lone(c, a) => Left(c, Tail(todo), a)
  <2>. SUFFICES ASSUME NEW a \in evt', Lone(c, a) PROVE Left(c, Tail(todo), a)  OBVIOUS
  <2>1. Left(c, todo, a)  BY <1>1 DEF Cleared, Clears
  <2>. QED  BY <1>4, <1>5, <2>1, TailLeft
<1>. QED  BY <1>1, <1>5, <1>6, OneContinue

LEMMA SkipOne ==
    ASSUME NEW c \in Conns, Alright(c), h[c].pc \in Removing, Skip(c), script' = script, evt' \subseteq evt,
           \A a \in evt' : Lone(c, a) => a.id # Head(h[c].todo)
    PROVE  Single(c)' /\ Cleared(c)'
<1>1. CASE Ev(c).kind = 30023
  <2>1. Refuse(c)  BY <1>1 DEF Skip
  <2>2. \A a, b \in evt : ~Open(c, a, b)  BY <1>1, NotOpen
  <2>. QED  BY <2>1, <2>2, OneEnd DEF Alright
<1>2. CASE Ev(c).kind # 30023
  <2>1. Continue(c, Tail(h[c].todo))  BY <1>2 DEF Skip
  <2>. QED  BY <2>1, NextOne
<1>. QED  BY <1>1, <1>2

LEMMA LookOne ==
    ASSUME NEW c \in Conns, Alright(c), Look(c)
    PROVE  Single(c)' /\ Cleared(c)'
<1>1. h[c].pc = "erase" /\ h[c].pc \in Removing /\ script' = script /\ evt' = evt  BY DEF Look, Removing
<1>2. CASE ~Stored(Head(h[c].todo)) /\ Skip(c)
  <2>1. \A a \in evt' : a.id # Head(h[c].todo)  BY <1>1, <1>2 DEF Stored
  <2>. QED  BY <1>1, <1>2, <2>1, SkipOne
<1>3. CASE Then(c, "remove", h[c].todo)
  <2>1. "remove" \in Removing  BY DEF Removing
  <2>. QED  BY <1>1, <1>3, <2>1, OneSame DEF Alright
<1>. QED  BY <1>2, <1>3 DEF Look

LEMMA EraseOne ==
    ASSUME NEW c \in Conns, Alright(c), Erase(c)
    PROVE  Single(c)' /\ Cleared(c)'
<1>1. h[c].pc = "remove" /\ h[c].pc \in Removing /\ script' = script  BY DEF Erase, Removing
<1>2. faults' # faults + 1  BY DEF Alright
<1>3. /\ evt' = {e \in evt : e.id # Head(h[c].todo)}
      /\ Then(c, "unindex", h[c].todo) \/ Continue(c, Tail(h[c].todo))
  BY <1>2 DEF Erase
<1>4. evt' \subseteq evt /\ \A a \in evt' : a.id # Head(h[c].todo)  BY <1>3
<1>5. CASE Then(c, "unindex", h[c].todo)
  <2>1. "unindex" \in Removing  BY DEF Removing
  <2>. QED  BY <1>1, <1>4, <1>5, <2>1, OneSame DEF Alright
<1>6. CASE Continue(c, Tail(h[c].todo))  BY <1>1, <1>4, <1>6, NextOne
<1>. QED  BY <1>3, <1>5, <1>6

LEMMA UnindexOne ==
    ASSUME NEW c \in Conns, Alright(c), Unindex(c)
    PROVE  Single(c)' /\ Cleared(c)'
<1>1. /\ h[c].pc = "unindex" /\ h[c].pc \in Removing /\ script' = script /\ evt' = evt
      /\ Continue(c, Tail(h[c].todo))
  BY DEF Unindex, Removing
<1>2. \A a \in evt' : Lone(c, a) => a.id # Head(h[c].todo)  BY <1>1 DEF Alright, Cleared, Clears
<1>. QED  BY <1>1, <1>2, NextOne

LEMMA AskOne ==
    ASSUME NEW c \in Conns, Alright(c), Ask(c)
    PROVE  Single(c)' /\ Cleared(c)'
<1>1. h[c].pc = "ask" /\ h[c].pc # "idle" /\ script' = script /\ evt' = evt /\ Shape /\ Basics /\ Single(c)
  BY DEF Ask, Alright
<1>2. Ev(c).kind = 5  BY <1>1, Working DEF Fits
<1>3. (\A a : ~SameThing(Ev(c), a)) /\ \A a, b \in evt : ~Open(c, a, b)  BY <1>1, <1>2, NoVersions, NotOpen
<1>4. Turn(c)  BY <1>1, AskTurn
<1>5. h'[c].pc = "idle" \/ Ev(c)' = Ev(c)  BY <1>4, SameEvent
<1>6. ~Clears(c)' \/ \A a \in evt' : ~Lone(c, a)'
  <2>1. CASE h'[c].pc = "idle"  BY <2>1 DEF Clears, Removing
  <2>2. CASE Ev(c)' = Ev(c)  BY <1>3, <2>2 DEF Lone
  <2>. QED  BY <1>5, <2>1, <2>2
<1>7. Moved(c, h'[c].pc, h'[c].todo, h'[c].pos) /\ h'[c].pc \in Pcs  BY <1>4 DEF Turn, Moves, Moved, Handler
<1>. QED  BY <1>1, <1>3, <1>6, <1>7, OneElse

LEMMA IndexOne ==
    ASSUME NEW c \in Conns, Alright(c), Index(c)
    PROVE  Single(c)' /\ Cleared(c)'
<1>1. h[c].pc = "index" /\ script' = script /\ evt' = evt /\ Ok(c)  BY DEF Index
<1>2. \A a, b \in evt : ~Open(c, a, b)  BY <1>1, NotOpen
<1>. QED  BY <1>1, <1>2, OneEnd DEF Alright

LEMMA PutOne ==
    ASSUME NEW c \in Conns, Alright(c), Put(c)
    PROVE  Single(c)' /\ Cleared(c)'
<1> DEFINE e == Ev(c)
<1>1. h[c].pc = "put" /\ h[c].pc # "idle" /\ script' = script /\ faults' # faults + 1  BY DEF Put, Alright
<1>2. evt' = evt \cup {e}  BY <1>1 DEF Put
<1>3. Shape /\ Basics /\ Single(c) /\ Cleared(c)  BY DEF Alright
<1>4. h[c].todo = <<>>
  <2>1. Ready(script, e, "put", h[c].todo)  BY <1>1, <1>3, Working
  <2>2. "put" \notin {"compare", "ask"} \cup Removing  BY DEF Removing
  <2>. QED  BY <2>1, <2>2 DEF Ready
<1>5. Turn(c)  BY <1>3, PutTurn
<1>6. /\ h'[c].pc \in {"idle", "index", "clean"} /\ (h'[c].pc = "index" => e.kind = 1)
      /\ (e.kind = 10010 <=> h'[c].pc = "clean")
  <2>1. CASE e.kind = 1 /\ Then(c, "index", <<>>)
    <3>1. "index" \in Pcs /\ <<>> \in Seq(NamedBy(script))  BY DEF Pcs
    <3>2. Moved(c, "index", <<>>, h[c].pos)  BY <1>1, <1>3, <2>1, <3>1, ThenIs
    <3>. QED  BY <2>1, <3>2 DEF Moved
  <2>2. CASE e.kind = 10010 /\ Then(c, "clean", <<>>)
    <3>1. PICK pc \in Pcs : pc = "clean"  BY DEF Pcs
    <3>2. <<>> \in Seq(NamedBy(script))  OBVIOUS
    <3>3. Then(c, pc, <<>>)  BY <2>2, <3>1
    <3>4. Moved(c, pc, <<>>, h[c].pos)  BY <1>1, <1>3, <3>2, <3>3, ThenIs
    <3>5. h'[c].pc = "clean"  BY <3>1, <3>4 DEF Moved
    <3>. QED  BY <2>2, <3>5
  <2>3. CASE e.kind # 1 /\ e.kind # 10010 /\ Ok(c)
    <3>1. Moved(c, "idle", <<>>, h[c].pos + 1)  BY <1>1, <1>3, <2>3, OkIs
    <3>. QED  BY <2>3, <3>1 DEF Moved
  <2>. QED  BY <1>1, <2>1, <2>2, <2>3 DEF Put
<1>7. ~Clears(c)'  BY <1>6 DEF Clears, Removing
<1>8. Cleared(c)'  BY <1>7 DEF Cleared
<1>9. \A a : Private(c, a)' <=> Private(c, a)  BY <1>1 DEF Private
<1>10. h'[c].pc # "idle" => Ev(c)' = e  BY <1>5, SameEvent
<1>11. ASSUME NEW a \in evt, SameThing(e, a), Private(c, a), Findable(a), e.kind # 10010
       PROVE  Compared(a) /\ a.at = e.at
  <2>1. Left(c, <<>>, a)  BY <1>1, <1>3, <1>4, <1>11 DEF Cleared, Clears, Lone
  <2>. QED  BY <1>11, <2>1 DEF Left, Stays
<1>12. \A a, b \in evt : ~Open(c, a, b)  BY <1>1, NotOpen
<1>13. Single(c)'
  <2>. SUFFICES ASSUME NEW a \in evt', NEW b \in evt', SameThing(a, b), Private(c, a), Findable(a), Findable(b)
                PROVE  Tied(a, b) \/ Open(c, a, b)'
    BY <1>9 DEF Single, Tied, Findable, Compared
  <2>0. Private(c, b) /\ SameThing(b, a)  BY PrivateAll, SameTurned
  <2>1. CASE a \in evt /\ b \in evt  BY <1>3, <1>12, <2>1 DEF Single
  <2>2. CASE (a = e \/ b = e) /\ e.kind = 10010
    <3>1. SameThing(e, a)  BY <2>0, <2>2, SameChain
    <3>. QED  BY <1>6, <1>10, <2>2, <3>1 DEF Open
  <2>3. CASE a = e /\ b \in evt /\ e.kind # 10010
    <3>1. Compared(b) /\ b.at = e.at  BY <1>11, <2>0, <2>3
    <3>2. Compared(a)  BY <2>0, <3>1 DEF SameThing, Compared
    <3>. QED  BY <2>3, <3>1, <3>2 DEF Tied
  <2>4. CASE b = e /\ a \in evt /\ e.kind # 10010
    <3>1. Compared(a) /\ a.at = e.at  BY <1>11, <2>0, <2>4
    <3>. QED  BY <2>4, <3>1 DEF Tied
  <2>5. CASE a = e /\ b = e  BY <2>5 DEF Tied
  <2>. QED  BY <1>2, <2>1, <2>2, <2>3, <2>4, <2>5
<1>. QED  BY <1>8, <1>13

LEMMA PairIs ==
    ASSUME NEW a, NEW b, NEW P, P \subseteq {a, b}
    PROVE  IsFiniteSet(P) /\ Cardinality(P) <= 2
<1>1. IsFiniteSet({a}) /\ Cardinality({a}) = 1  BY FS_Singleton, Zenon
<1>2. IsFiniteSet({a} \cup {b})  BY <1>1, FS_AddElement
<1>3. Cardinality({a} \cup {b}) = IF b \in {a} THEN Cardinality({a}) ELSE Cardinality({a}) + 1
  <2> DEFINE S == {a}
  <2> HIDE DEF S
  <2>1. IsFiniteSet(S)  BY <1>1 DEF S
  <2>2. Cardinality(S \cup {b}) = IF b \in S THEN Cardinality(S) ELSE Cardinality(S) + 1
    BY <2>1, FS_AddElement, Zenon
  <2>. QED  BY <2>2 DEF S
<1>4. {a} \cup {b} = {a, b}  OBVIOUS
<1>5. PICK Q : Q = {a, b}  OBVIOUS
<1>6. IsFiniteSet(Q) /\ Cardinality(Q) <= 2  BY <1>1, <1>2, <1>3, <1>4, <1>5
<1>7. P \subseteq Q  BY <1>5
<1>8. IsFiniteSet(P) /\ Cardinality(P) <= Cardinality(Q)  BY <1>6, <1>7, FS_Subset
<1>9. Cardinality(P) \in Nat /\ Cardinality(Q) \in Nat  BY <1>6, <1>8, FS_CardinalityType
<1>. QED  BY <1>6, <1>8, <1>9

LEMMA FewIs ==
    ASSUME NEW P, \A x, y, z \in P : x = y \/ x = z \/ y = z
    PROVE  IsFiniteSet(P) /\ Cardinality(P) <= 2
<1>1. CASE P = {}
  <2>. QED  BY <1>1, FS_EmptySet
<1>2. CASE P # {}
  <2>1. PICK a \in P : TRUE  BY <1>2
  <2>2. PICK b \in P : \A x \in P : x = a \/ x = b
    <3>1. CASE \A x \in P : x = a  BY <2>1, <3>1
    <3>2. CASE \E b \in P : b # a
      <4>1. PICK b \in P : b # a  BY <3>2
      <4>2. \A x \in P : x = a \/ x = b  BY <2>1, <4>1
      <4>. QED  BY <4>2
    <3>. QED  BY <3>1, <3>2
  <2>3. P \subseteq {a, b}  BY <2>2
  <2>. QED  BY <2>3, PairIs
<1>. QED  BY <1>1, <1>2

\* The other preferences of a user are at most one.
LEMMA FewToClean ==
    ASSUME Shape, NEW c \in Conns, Single(c), h[c].pc = "clean", Ev(c).kind = 10010,
           NEW S \in SUBSET evt, NEW a, Lone(c, a), \A x \in S : SameThing(a, x)
    PROVE  IsFiniteSet(S) /\ Cardinality(S) <= 10
<1>1. \A x \in S : SameThing(Ev(c), x) /\ Private(c, x) /\ Findable(x)
  <2>. SUFFICES ASSUME NEW x \in S PROVE SameThing(Ev(c), x) /\ Private(c, x) /\ Findable(x)  OBVIOUS
  <2>1. SameThing(Ev(c), x) /\ Private(c, x)  BY SameChain, PrivateAll DEF Lone
  <2>2. x.kind = 10010  BY <2>1 DEF SameThing
  <2>. QED  BY <2>1, <2>2, KindsDiffer DEF Findable
<1>2. \A x, y \in S : x = y \/ x = Ev(c) \/ y = Ev(c)
  <2>. SUFFICES ASSUME NEW x \in S, NEW y \in S PROVE x = y \/ x = Ev(c) \/ y = Ev(c)  OBVIOUS
  <2>1. SameThing(x, y)
    <3>1. SameThing(x, a)  BY SameTurned
    <3>. QED  BY <3>1, SameChain
  <2>2. Tied(x, y) \/ Open(c, x, y)  BY <1>1, <2>1 DEF Single
  <2>3. x.kind = 10010  BY <1>1 DEF SameThing
  <2>4. ~Compared(x)  BY <2>3, KindsDiffer DEF Compared
  <2>. QED  BY <2>2, <2>4 DEF Tied, Open, Removing
<1>3. \A x, y, z \in S : x = y \/ x = z \/ y = z  BY <1>2
<1>4. IsFiniteSet(S) /\ Cardinality(S) <= 2  BY <1>3, FewIs
<1>5. Cardinality(S) \in Nat  BY <1>4, FS_CardinalityType
<1>. QED  BY <1>4, <1>5

LEMMA CleanOne ==
    ASSUME NEW c \in Conns, Alright(c), Clean(c)
    PROVE  Single(c)' /\ Cleared(c)'
<1> DEFINE e == Ev(c)
           f == [MineOfKind(e) EXCEPT !.limit = 10]
           at(all) == {i \in DOMAIN all : all[i].id # e.id}
<1>1. h[c].pc = "clean" /\ h[c].pc # "idle" /\ script' = script /\ evt' = evt /\ Shape /\ Basics /\ Single(c)
  BY DEF Clean, Alright
<1>3. e.kind = 10010 /\ e \in Sent  BY <1>1, Working DEF Fits
<1>4. PICK all \in QueryEvents(evt, f) : Continue(c, Ids(Picked(all, at(all))))  BY DEF Clean
<1>5. Proper(f) /\ f.ids = <<>> /\ Limit(f) = 10 /\ \A x : Matches(x, f) <=> x.pubkey = e.pubkey /\ x.kind = e.kind
  <2>1. 10 \in Int  OBVIOUS
  <2>2. Proper(f) /\ f.ids = <<>> /\ f.limit = 10  BY <2>1, MineIs
  <2>3. \A x : Matches(x, f) <=> x.pubkey = e.pubkey /\ x.kind = e.kind  BY <2>1, MineIs
  <2> HIDE DEF f
  <2>. QED  BY <2>2, <2>3 DEF Limit
<1> DEFINE pos == at(all)
           s == Picked(all, pos)
<1> HIDE DEF f
<1>6. all \in Seq(evt)  BY <1>1, <1>4, <1>5, AnswerIs, TimedEvents
<1>7. pos \in SUBSET DOMAIN all /\ \A i \in DOMAIN all : all[i].id # e.id => i \in pos  OBVIOUS
<1>8. Continue(c, Ids(s))  BY <1>4
<1> HIDE DEF pos
<1>9. s \in Seq(evt) /\ Range(s) = {all[i] : i \in pos}  BY <1>6, <1>7, PickedIs
<1> HIDE DEF s
<1>10. Ids(s) \in Seq(NamedBy(script))
  <2>1. Len(s) \in Nat /\ DOMAIN s = 1..Len(s) /\ \A i \in DOMAIN s : s[i] \in SentBy(script)
    BY <1>1, <1>9, LenProperties, ElementOfSeq DEF Shape, Sent
  <2>2. \A i \in DOMAIN s : s[i].id \in NamedBy(script)  BY <2>1 DEF NamedBy
  <2>. QED  BY <2>1, <2>2, SeqDef DEF Ids
<1>11. ASSUME NEW a \in evt, Lone(c, a) PROVE Left(c, Ids(s), a)
  <2>1. CASE a = e  BY <1>3, <2>1 DEF Left, Stays
  <2>2. CASE a # e
    <3>1. a.pubkey = e.pubkey /\ a.kind = e.kind  BY <1>11 DEF Lone, SameThing
    <3>2. \A x \in Matching(evt, f) : SameThing(a, x)  BY <1>3, <1>5, <3>1 DEF Matching, SameThing
    <3>3. Cardinality(Matching(evt, f)) <= 10
      <4>1. PICK S \in SUBSET evt : S = Matching(evt, f)  BY DEF Matching
      <4>2. IsFiniteSet(S) /\ Cardinality(S) <= 10  BY <1>1, <1>3, <1>11, <3>2, <4>1, FewToClean
      <4>. QED  BY <4>1, <4>2
    <3>4. Range(all) = Matching(evt, f)  BY <1>1, <1>4, <1>5, <3>3, AnswerIs, TimedEvents
    <3>5. PICK i \in DOMAIN all : all[i] = a  BY <1>5, <3>1, <3>4 DEF Matching, Range
    <3>6. a.id # e.id  BY <1>1, <1>3, <2>2 DEF Shape, Regular, Sent
    <3>7. a \in Range(s)  BY <1>7, <1>9, <3>5, <3>6
    <3>. QED  BY <3>7 DEF Range, Ids, Left
  <2>. QED  BY <2>1, <2>2
<1>. QED  BY <1>1, <1>8, <1>10, <1>11, OneContinue

LEMMA StepOne ==
    ASSUME NEW c \in Conns, Alright(c), Step(c)
    PROVE  Single(c)' /\ Cleared(c)'
BY StartOne, WipeOne, WriteOne, ReplaceOne, CompareOne, AudioOne, CountOne, AskOne, LookOne, EraseOne, UnindexOne,
   PutOne, IndexOne, CleanOne DEF Step

LEMMA NextLonely ==
    ASSUME Lonely, [Next]_vars
    PROVE  Lonely'
<1>1. CASE Next
  <2>1. PICK c \in Conns : Step(c)  BY <1>1 DEF Next
  <2>2. Turn(c) /\ Basics' /\ script' = script  BY <2>1, StepTurn, TurnBasics DEF Lonely, Turn, Moves
  <2>3. Few(script)'  BY <2>2 DEF Lonely
  <2>4. ASSUME faults' = 0, NEW d \in Conns PROVE Single(d)' /\ Cleared(d)'
    <3>1. faults = 0  BY <2>2, <2>4 DEF Turn, Stores, Lonely, Basics, Shape
    <3>2. CASE d = c
      <4>1. Alright(c)  BY <2>4, <3>1 DEF Alright, Lonely, Basics
      <4>. QED  BY <2>1, <3>2, <4>1, StepOne
    <3>3. CASE d # c  BY <2>2, <3>1, <3>3, OneOthers DEF Lonely
    <3>. QED  BY <3>2, <3>3
  <2>. QED  BY <2>2, <2>3, <2>4 DEF Lonely
<1>2. CASE UNCHANGED vars
  <2>1. evt' = evt /\ script' = script /\ h' = h /\ faults' = faults  BY <1>2 DEF vars
  <2>2. Basics'  BY <1>2, StillBasics DEF Lonely
  <2>3. \A c \in Conns : (Single(c)' <=> Single(c)) /\ (Cleared(c)' <=> Cleared(c))
    BY <2>1 DEF Single, Cleared, Open, Clears, Lone, Private, Left, Stays, Ev
  <2>. QED  BY <2>1, <2>2, <2>3 DEF Lonely
<1>. QED  BY <1>1, <1>2

LEMMA InitLonely ==
    ASSUME \A s \in Scripts : Regular(s) /\ Few(s), Init
    PROVE  Lonely
<1>1. Basics /\ Few(script) /\ evt = {}  BY InitBasics DEF Init
<1>2. \A c \in Conns : Single(c) /\ Cleared(c)  BY <1>1 DEF Single, Cleared
<1>. QED  BY <1>1, <1>2 DEF Lonely

\* A connection that is alone with the versions of a thing leaves one of them, or
\* several of one time where versions are compared.
THEOREM OneVersionIsLeft ==
    ASSUME \A s \in Scripts : Regular(s) /\ Few(s)
    PROVE  Spec => []OneVersion
<1>1. Init => Lonely  BY InitLonely
<1>2. Lonely /\ [Next]_vars => Lonely'  BY NextLonely
<1>3. Lonely => OneVersion
  <2>. SUFFICES ASSUME Lonely, Quiet, faults = 0, NEW a \in evt, NEW b \in evt, SameThing(a, b), Alone(a), Findable(a),
                       Findable(b)
                PROVE  a = b \/ (Compared(a) /\ a.at = b.at)
    BY DEF OneVersion
  <2>1. PICK c \in Conns : Private(c, a)  BY DEF Alone, Private
  <2>2. Tied(a, b) \/ Open(c, a, b)  BY <2>1 DEF Lonely, Single
  <2>. QED  BY <2>2 DEF Open, Quiet, Tied
<1>. QED  BY <1>1, <1>2, <1>3, PTL DEF Spec

\* The newest version that was acknowledged is kept, and no other.
THEOREM NewestIsKept ==
    ASSUME \A s \in Scripts : Regular(s) /\ Orderly(s) /\ Few(s)
    PROVE  Spec => []NewestKept
<1>1. Spec => [](NothingLost /\ NewestStored)  BY NothingIsLost
<1>2. Spec => []OneVersion  BY OneVersionIsLeft
<1>. QED  BY <1>1, <1>2, PTL DEF NewestKept

-----------------------------------------------------------------------------
(* Types *)

Counting == {"count", "add", "create"}
Leaves(c) == End(c) \/ \E pc \in Pcs \ ({"idle"} \cup Counting) : \E todo : Goto(c, pc, todo)

\* A handler at rest has nothing on its list, and one that counts a report does so for an event.
Resting(c) ==
    /\ h[c].pos \in 1..(Len(script[c]) + 1)
    /\ h[c].pc = "idle" => h[c].todo = <<>>
    /\ h[c].pc \in Counting => Reported(Ev(c)) \in {e.id : e \in Events}

Typed ==
    /\ Basics /\ script \in Scripts /\ index \subseteq {e.id : e \in Events}
    /\ DOMAIN reports \subseteq {e.id : e \in Events} /\ \A id \in DOMAIN reports : reports[id] \in Nat \ {0}
    /\ faults <= MaxFaults /\ \A c \in Conns : Resting(c)

LEMMA ContinueLeaves ==
    ASSUME NEW c, NEW rest, Continue(c, rest)
    PROVE  Leaves(c)
BY DEF Continue, Then, Refuse, Ok, Leaves, Pcs, Counting

LEMMA SkipLeaves ==
    ASSUME NEW c, Skip(c)
    PROVE  Leaves(c)
BY ContinueLeaves DEF Skip, Refuse, Leaves

LEMMA LeavesIs ==
    ASSUME Shape, NEW c \in Conns, Leaves(c)
    PROVE  /\ h'[c].pc = "idle" => h'[c].todo = <<>>
           /\ h'[c].pc \notin Counting
<1>1. h \in [Conns -> Handler]  BY DEF Shape
<1>2. CASE End(c)
  <2>1. h'[c] = [AtRest EXCEPT !.pos = h[c].pos + 1]  BY <1>1, <1>2 DEF End
  <2>2. h'[c].pc = "idle" /\ h'[c].todo = <<>>  BY <2>1 DEF AtRest
  <2>. QED  BY <2>2 DEF Counting
<1>3. CASE \E pc \in Pcs \ ({"idle"} \cup Counting) : \E todo : Goto(c, pc, todo)
  <2>1. PICK pc \in Pcs \ ({"idle"} \cup Counting) : \E todo : Goto(c, pc, todo)  BY <1>3
  <2>2. h'[c].pc = pc  BY <1>1, <2>1 DEF Goto, Handler
  <2>. QED  BY <2>1, <2>2
<1>. QED  BY <1>2, <1>3 DEF Leaves

\* What a step does beside its turn.
LEMMA StepTypes ==
    ASSUME Basics, NEW c \in Conns, Step(c)
    PROVE  /\ index' \subseteq index \cup {Ev(c).id}
           /\ faults' = faults \/ (faults < MaxFaults /\ faults' = faults + 1)
           /\ reports' = reports \/ CountReport(c)
           /\ \/ Leaves(c)
              \/ ReportEvent(c) /\ Stored(Reported(Ev(c))) /\ Then(c, "count", <<>>)
              \/ FindReport(c)
<1>1. CASE Reject(c)  BY <1>1 DEF Reject, Refuse, Leaves
<1>2. CASE Plain(c)  BY <1>2 DEF Plain, Then, Leaves, Pcs, Counting
<1>3. CASE Repost(c)  BY <1>3 DEF Repost, Then, Refuse, Leaves, Pcs, Counting
<1>4. CASE Wipe(c)
  <2>1. Leaves(c)  BY <1>4, ContinueLeaves DEF Wipe, Refuse, Leaves
  <2>. QED  BY <1>4, <2>1 DEF Wipe
<1>5. CASE Write(c)
  <2>1. Leaves(c)  BY <1>5, ContinueLeaves DEF Write
  <2>. QED  BY <1>5, <2>1 DEF Write
<1>6. CASE Replace(c)
  <2>1. Leaves(c)  BY <1>6, ContinueLeaves DEF Replace, Ok, Leaves
  <2>. QED  BY <1>6, <2>1 DEF Replace
<1>7. CASE Compare(c)
  <2>1. Leaves(c)  BY <1>7, ContinueLeaves DEF Compare, Refuse, Then, Leaves, Pcs, Counting
  <2>. QED  BY <1>7, <2>1 DEF Compare
<1>8. CASE Audio(c)
  <2>1. Leaves(c)  BY <1>8, ContinueLeaves DEF Audio, Refuse, Leaves
  <2>. QED  BY <1>8, <2>1 DEF Audio
<1>9. CASE ReportEvent(c)
  <2>1. Leaves(c) \/ (Stored(Reported(Ev(c))) /\ Then(c, "count", <<>>))
    BY <1>9 DEF ReportEvent, Refuse, Then, Leaves, Pcs, Counting
  <2>. QED  BY <1>9, <2>1 DEF ReportEvent
<1>10. CASE FindReport(c)  BY <1>10 DEF FindReport
<1>11. CASE CountReport(c)
  <2>1. Then(c, "put", <<>>) /\ index' = index /\ faults' = faults  BY <1>11 DEF CountReport
  <2>2. Leaves(c)  BY <2>1 DEF Then, Leaves, Pcs, Counting
  <2>. QED  BY <1>11, <2>1, <2>2
<1>12. CASE Delete(c)
  <2>1. Leaves(c)  BY <1>12, ContinueLeaves DEF Delete
  <2>. QED  BY <1>12, <2>1 DEF Delete
<1>13. CASE Ask(c)
  <2>1. Leaves(c)  BY <1>13, ContinueLeaves DEF Ask, Then, Leaves, Pcs, Counting
  <2>. QED  BY <1>13, <2>1 DEF Ask
<1>14. CASE Look(c)
  <2>1. Leaves(c)  BY <1>14, SkipLeaves DEF Look, Then, Leaves, Pcs, Counting
  <2>. QED  BY <1>14, <2>1 DEF Look
<1>15. CASE Erase(c)
  <2>1. Leaves(c)  BY <1>15, SkipLeaves, ContinueLeaves DEF Erase, Then, Leaves, Pcs, Counting
  <2>. QED  BY <1>15, <2>1 DEF Erase
<1>16. CASE Unindex(c)
  <2>1. Leaves(c)  BY <1>16, ContinueLeaves DEF Unindex
  <2>. QED  BY <1>16, <2>1 DEF Unindex
<1>17. CASE Put(c)
  <2>1. Leaves(c)  BY <1>17 DEF Put, Then, Ok, Refuse, Leaves, Pcs, Counting
  <2>. QED  BY <1>17, <2>1 DEF Put
<1>18. CASE Index(c)  BY <1>18 DEF Index, Ok, Leaves
<1>19. CASE Clean(c)
  <2>1. Leaves(c)  BY <1>19, ContinueLeaves DEF Clean
  <2>. QED  BY <1>19, <2>1 DEF Clean
<1>. QED
  BY <1>1, <1>2, <1>3, <1>4, <1>5, <1>6, <1>7, <1>8, <1>9, <1>10, <1>11, <1>12, <1>13, <1>14, <1>15, <1>16,
     <1>17, <1>18, <1>19 DEF Step

LEMMA RowsAre ==
    ASSUME NEW c, CountReport(c), NEW ids, Reported(Ev(c)) \in ids, DOMAIN reports \subseteq ids,
           \A id \in DOMAIN reports : reports[id] \in Nat \ {0}
    PROVE  DOMAIN reports' \subseteq ids /\ \A id \in DOMAIN reports' : reports'[id] \in Nat \ {0}
<1> DEFINE r == Reported(Ev(c))
<1> HIDE DEF r
<1>1. reports' = IF r \notin DOMAIN reports THEN [x \in DOMAIN reports \cup {r} |-> IF x = r THEN 1 ELSE reports[x]]
                 ELSE IF h[c].pc = "add" THEN [reports EXCEPT ![r] = @ + 1] ELSE reports
  BY DEF CountReport, r
<1>2. r \in ids  BY DEF r
<1>3. CASE r \notin DOMAIN reports
  <2>1. reports' = [x \in DOMAIN reports \cup {r} |-> IF x = r THEN 1 ELSE reports[x]]  BY <1>1, <1>3
  <2>2. DOMAIN reports' = DOMAIN reports \cup {r}  BY <2>1
  <2>3. \A x \in DOMAIN reports' : reports'[x] = IF x = r THEN 1 ELSE reports[x]  BY <2>1
  <2>. QED  BY <1>2, <2>2, <2>3
<1>4. CASE r \in DOMAIN reports /\ h[c].pc = "add"
  <2>1. reports' = [reports EXCEPT ![r] = @ + 1]  BY <1>1, <1>4
  <2>2. DOMAIN reports' = DOMAIN reports  BY <2>1
  <2>3. \A x \in DOMAIN reports : reports'[x] = IF x = r THEN reports[x] + 1 ELSE reports[x]  BY <1>4, <2>1
  <2>. QED  BY <2>2, <2>3
<1>5. CASE r \in DOMAIN reports /\ h[c].pc # "add"
  <2>1. reports' = reports  BY <1>1, <1>5
  <2>. QED  BY <2>1
<1>. QED  BY <1>3, <1>4, <1>5

LEMMA SentEvents ==
    ASSUME script \in Scripts
    PROVE  Sent \subseteq Events
BY DEF Sent, SentBy, Events

LEMMA StepTyped ==
    ASSUME Typed, NEW c \in Conns, Step(c)
    PROVE  Typed'
<1>1. Basics /\ Shape /\ Turn(c) /\ Basics'  BY StepTurn, TurnBasics DEF Typed, Basics
<1>2. /\ script' = script /\ h' \in [Conns -> Handler] /\ \A d \in Conns \ {c} : h'[d] = h[d]
      /\ h[c].pos \in DOMAIN script[c]
      /\ \/ h'[c].pos = h[c].pos /\ h'[c].pc # "idle"
         \/ h'[c].pos = h[c].pos + 1 /\ h'[c].pc = "idle"
  BY <1>1 DEF Turn, Moves
<1>3. /\ index' \subseteq index \cup {Ev(c).id}
      /\ faults' = faults \/ (faults < MaxFaults /\ faults' = faults + 1)
      /\ reports' = reports \/ CountReport(c)
      /\ \/ Leaves(c)
         \/ ReportEvent(c) /\ Stored(Reported(Ev(c))) /\ Then(c, "count", <<>>)
         \/ FindReport(c)
  BY <1>1, StepTypes
<1>4. Sent \subseteq Events /\ Ev(c) \in Sent /\ evt \subseteq Sent
  BY <1>1, <1>2, SentEvents, EvSent DEF Typed, Shape
<1>5. index' \subseteq {e.id : e \in Events}  BY <1>3, <1>4 DEF Typed
<1>6. faults' <= MaxFaults  BY <1>1, <1>3, BoundAssumption DEF Typed, Shape
<1>7. DOMAIN reports' \subseteq {e.id : e \in Events} /\ \A id \in DOMAIN reports' : reports'[id] \in Nat \ {0}
  <2>1. CASE reports' = reports  BY <2>1 DEF Typed
  <2>2. CASE CountReport(c)
    <3> DEFINE ids == {e.id : e \in Events}
    <3>1. h[c].pc \in Counting  BY <2>2 DEF CountReport, Counting
    <3>2. Reported(Ev(c)) \in ids  BY <3>1 DEF Typed, Resting
    <3>3. DOMAIN reports \subseteq ids /\ \A id \in DOMAIN reports : reports[id] \in Nat \ {0}  BY DEF Typed
    <3> HIDE DEF ids
    <3>4. DOMAIN reports' \subseteq ids /\ \A id \in DOMAIN reports' : reports'[id] \in Nat \ {0}
      BY <2>2, <3>2, <3>3, RowsAre
    <3>. QED  BY <3>4 DEF ids
  <2>. QED  BY <1>3, <2>1, <2>2
<1>8. Resting(c)'
  <2>1. Len(script[c]) \in Nat /\ DOMAIN script[c] = 1..Len(script[c]) /\ h[c].pos \in Nat
    <3>1. script[c] \in Seq(Range(script[c]))  BY <1>1 DEF Shape, Regular
    <3>. QED  BY <1>1, <3>1, LenProperties DEF Shape, Handler
  <2>2. h'[c].pos \in 1..(Len(script[c]) + 1)  BY <1>2, <2>1
  <2>3. CASE Leaves(c)
    <3>1. (h'[c].pc = "idle" => h'[c].todo = <<>>) /\ h'[c].pc \notin Counting  BY <1>1, <2>3, LeavesIs
    <3>. QED  BY <1>2, <2>2, <3>1 DEF Resting
  <2>4. CASE ReportEvent(c) /\ Stored(Reported(Ev(c))) /\ Then(c, "count", <<>>)
    <3>1. h'[c].pc = "count"  BY <1>1, <2>4 DEF Then, Goto, Shape, Handler
    <3>2. Ev(c)' = Ev(c)  BY <1>2, <3>1 DEF Ev
    <3>3. Reported(Ev(c)) \in {e.id : e \in Events}  BY <1>4, <2>4 DEF Stored
    <3>4. Reported(Ev(c))' = Reported(Ev(c)') /\ Events' = Events  BY DEF Reported, Events
    <3>. QED  BY <1>2, <2>2, <3>1, <3>2, <3>3, <3>4 DEF Resting
  <2>5. CASE FindReport(c)
    <3>1. h[c].pc = "count" /\ \E pc \in {"add", "create"} : Goto(c, pc, <<>>)  BY <2>5 DEF FindReport, Then
    <3>2. h'[c].pc \in {"add", "create"}  BY <1>1, <3>1 DEF Goto, Shape, Handler
    <3>3. Ev(c)' = Ev(c)  BY <1>2, <3>2 DEF Ev
    <3>4. Reported(Ev(c)) \in {e.id : e \in Events}  BY <3>1 DEF Typed, Resting, Counting
    <3>5. Reported(Ev(c))' = Reported(Ev(c)') /\ Events' = Events  BY DEF Reported, Events
    <3>. QED  BY <1>2, <2>2, <3>2, <3>3, <3>4, <3>5 DEF Resting
  <2>. QED  BY <1>3, <2>3, <2>4, <2>5
<1>9. ASSUME NEW d \in Conns \ {c} PROVE Resting(d)'
  <2>1. h'[d] = h[d] /\ Ev(d)' = Ev(d)  BY <1>2 DEF Ev
  <2>2. Reported(Ev(d))' = Reported(Ev(d)') /\ Events' = Events  BY DEF Reported, Events
  <2>3. Resting(d)  BY DEF Typed
  <2>. QED  BY <1>2, <2>1, <2>2, <2>3 DEF Resting
<1>10. script' \in Scripts  BY <1>2 DEF Typed
<1>. QED  BY <1>1, <1>5, <1>6, <1>7, <1>8, <1>9, <1>10 DEF Typed

\* The state of the handlers is well formed.
THEOREM TypeCorrect ==
    ASSUME \A s \in Scripts : Regular(s)
    PROVE  Spec => []TypeOK
<1>1. Init => Typed
  <2> SUFFICES ASSUME Init PROVE Typed  OBVIOUS
  <2>2. Basics  BY InitBasics
  <2>3. script \in Scripts /\ index = {} /\ reports = <<>> /\ faults = 0 /\ h = [c \in Conns |-> AtRest]  BY DEF Init
  <2>4. DOMAIN reports = {}  BY <2>3
  <2>5. ASSUME NEW c \in Conns PROVE Resting(c)
    <3>1. h[c] = AtRest  BY <2>3
    <3>2. h[c].pc = "idle" /\ h[c].pos = 1 /\ h[c].todo = <<>>  BY <3>1 DEF AtRest
    <3>3. Len(script[c]) \in Nat
      <4>1. script[c] \in Seq(Range(script[c]))  BY <2>3 DEF Regular
      <4>. QED  BY <4>1, LenProperties
    <3>. QED  BY <3>2, <3>3 DEF Resting, Counting
  <2>6. faults <= MaxFaults  BY <2>3, BoundAssumption
  <2>. QED  BY <2>2, <2>3, <2>4, <2>5, <2>6 DEF Typed
<1>2. Typed /\ [Next]_vars => Typed'
  <2>1. ASSUME Typed, Next PROVE Typed'  BY <2>1, StepTyped DEF Next
  <2>2. ASSUME Typed, UNCHANGED vars PROVE Typed'
    <3>1. Basics'  BY <2>2, StillBasics DEF Typed
    <3>2. script' = script /\ index' = index /\ reports' = reports /\ faults' = faults /\ h' = h  BY <2>2 DEF vars
    <3>. QED  BY <2>2, <3>1, <3>2 DEF Typed, Resting, Ev, Reported, Events
  <2>. QED  BY <2>1, <2>2
<1>3. Typed => TypeOK
  <2> SUFFICES ASSUME Typed PROVE TypeOK  OBVIOUS
  <2>1. Shape /\ Sent \subseteq Events  BY SentEvents DEF Typed, Basics
  <2>2. evt \subseteq Events /\ begun \subseteq Events /\ oks \subseteq {e.id : e \in begun} /\ faults \in 0..MaxFaults
        /\ unstored \subseteq Events
    BY <2>1, BoundAssumption DEF Typed, Shape
  <2>3. ASSUME NEW c \in Conns
        PROVE  /\ h[c].pc \in Pcs /\ h[c].pos \in 1..(Len(script[c]) + 1)
               /\ h[c].pc \in {"compare", "ask"} \cup Removing <=> h[c].todo # <<>>
    <3>1. h[c].pc \in Pcs /\ Resting(c)  BY <2>1 DEF Shape, Handler, Typed
    <3>2. h[c].pc # "idle" => (h[c].pc \in {"compare", "ask"} \cup Removing <=> h[c].todo # <<>>)
      BY DEF Typed, Basics, Task, Ready
    <3>3. h[c].pc = "idle" => h[c].todo = <<>> /\ h[c].pc \notin {"compare", "ask"} \cup Removing
      BY <3>1 DEF Resting, Removing
    <3>. QED  BY <3>1, <3>2, <3>3 DEF Resting
  <2>. QED  BY <2>2, <2>3 DEF TypeOK, Typed, Pcs, Removing
<1>. QED  BY <1>1, <1>2, <1>3, PTL DEF Spec
=============================================================================
