----------------------------- MODULE PushProofs -----------------------------
(***************************************************************************)
(* Proofs about Push, for any events, devices, connections, workers and    *)
(* limits.                                                                 *)
(***************************************************************************)
EXTENDS Push, FiniteSetTheorems, SequenceTheorems, WellFoundedInduction, TLAPS

Svcs   == [running : BOOLEAN, cancelled : BOOLEAN, closed : BOOLEAN,
           queue : Seq(Tasks), processed : SUBSET Events]
Hands  == [pc : {"idle", "record", "exit"}, task : Tasks \cup {NoTask}, ok : BOOLEAN]
Calls  == [pc : {"idle", "check", "mark", "users", "send"}, svc : 0..MaxServices,
           pos : Nat, left : SUBSET Users, todo : SUBSET [dev : Devices, row : Nat]]
Reqs   == [pc : {"new", "create", "save", "done"}, id : Nat]

Recording(s, w) == worker[s][w].pc = "record"
Finding(c)      == call[c].pc \in {"users", "send"}
At(s, i)        == svc[s].queue[i]
Slots(s)        == 1..Len(svc[s].queue)

\* A call is about an event of its connection's script and of a service that
\* was made; a worker that records has a task in its hands.
CallInv == \A c \in Conns :
    /\ call[c].pos # 0
    /\ call[c].pc # "idle" => call[c].svc \in Services /\ call[c].pos <= Len(Script[c])
TaskInv == \A s \in Services, w \in Workers : Recording(s, w) => worker[s][w].task \in Tasks

-----------------------------------------------------------------------------
(* The state's type *)

\* A set of numbers that is not empty has a least one.
LEMMA MinOf ==
    ASSUME NEW T \in SUBSET Nat, T # {}
    PROVE  Min(T) \in T /\ \A n \in T : Min(T) <= n
<1>1. PICK n \in T : \A m \in T : <<m, n>> \notin OpToRel(<, Nat)
  <2>1. IsWellFoundedOn(OpToRel(<, Nat), Nat)  BY NatLessThanWellFounded
  <2>. QED  BY <2>1, WFMin
<1>2. \A m \in T : n <= m
  <2> SUFFICES ASSUME NEW m \in T PROVE n <= m  OBVIOUS
  <2>1. <<m, n>> \in Nat \X Nat /\ <<m, n>>[1] = m /\ <<m, n>>[2] = n  OBVIOUS
  <2>2. ~(m < n)  BY <1>1, <2>1 DEF OpToRel
  <2>. QED  BY <2>2
<1>. QED  BY <1>2 DEF Min

\* The ways an action changes a service keep its type.
LEMMA SvcShapes ==
    ASSUME NEW v \in Svcs
    PROVE  /\ \A b \in BOOLEAN : /\ [v EXCEPT !.running = b] \in Svcs
                                 /\ [v EXCEPT !.cancelled = b] \in Svcs
                                 /\ [v EXCEPT !.closed = b] \in Svcs
           /\ \A q \in Seq(Tasks) : [v EXCEPT !.queue = q] \in Svcs
           /\ \A P \in SUBSET Events : [v EXCEPT !.processed = P] \in Svcs
  BY DEF Svcs

\* The ways an action changes a call keep its type.
LEMMA CallShapes ==
    ASSUME NEW k \in Calls, NEW pc \in {"idle", "check", "mark", "users", "send"}
    PROVE  /\ [k EXCEPT !.pc = pc] \in Calls
           /\ \A s \in 0..MaxServices : [k EXCEPT !.pc = pc, !.svc = s] \in Calls
           /\ \A L \in SUBSET Users : [k EXCEPT !.pc = pc, !.left = L] \in Calls
           /\ \A L \in SUBSET Users, T \in SUBSET [dev : Devices, row : Nat] :
                 [k EXCEPT !.left = L, !.todo = T, !.pc = pc] \in Calls
           /\ \A T \in SUBSET [dev : Devices, row : Nat] : [k EXCEPT !.todo = T, !.pc = pc] \in Calls
  BY DEF Calls

\* So does the end of a call.
LEMMA RestShapes ==
    /\ NoCall \in Calls /\ \A n \in Nat : [NoCall EXCEPT !.pos = n] \in Calls
    /\ Unmade \in Svcs /\ Len(Unmade.queue) = 0
    /\ AtRest \in Hands
<1>1. NoCall \in Calls  BY PushAssumption DEF Calls, NoCall
<1>2. \A n \in Nat : [NoCall EXCEPT !.pos = n] \in Calls  BY <1>1 DEF Calls
<1>3. <<>> \in Seq(Tasks) /\ Len(<<>>) = 0  OBVIOUS
<1>4. Unmade \in Svcs /\ Len(Unmade.queue) = 0  BY <1>3 DEF Unmade, Svcs
<1>. QED  BY <1>1, <1>2, <1>4 DEF AtRest, Hands

\* An attempt more, and any number of attempts, keep a task's type.
LEMMA TaskShapes ==
    ASSUME NEW t \in Tasks
    PROVE  /\ [t EXCEPT !.att = @ + 1] \in Tasks
           /\ \A a \in Nat : [t EXCEPT !.att = a] \in Tasks
  BY DEF Tasks

\* The type of the state that calls, workers and the administrator share.
CoreType ==
    /\ alive \in BOOLEAN /\ global \in 0..MaxServices /\ admin \in {"idle", "cancel", "wait"}
    /\ admin # "idle" => global # 0
    /\ svc \in [Services -> Svcs] /\ \A s \in Services : Len(svc[s].queue) <= QueueSize
    /\ worker \in [Services -> [Workers -> Hands]] /\ retries \subseteq Tasks
    /\ call \in [Conns -> Calls] /\ stored \subseteq Events
    /\ log \subseteq [task : Tasks, delivered : BOOLEAN] /\ sends \subseteq [task : Tasks, ok : BOOLEAN]
RowType ==
    /\ rows \in [Devices -> SUBSET [id : Nat, on : BOOLEAN]] /\ nextRow \in Nat
    /\ req \in [Requests -> Reqs]
TypeInv == CoreType /\ RowType /\ CallInv /\ TaskInv

LEMMA TypeParts == TypeInv => TypeOK
  BY DEF TypeInv, TypeOK, CoreType, RowType, Svcs, Hands, Calls, Reqs

\* The initial state is well typed.
LEMMA TypeInit == Init => TypeInv
<1> SUFFICES ASSUME Init PROVE TypeInv  OBVIOUS
<1>1. svc \in [Services -> Svcs] /\ \A s \in Services : Len(svc[s].queue) <= QueueSize
  <2> SUFFICES ASSUME NEW s \in Services
               PROVE  [Unmade EXCEPT !.running = (s = 1)] \in Svcs /\ Len([Unmade EXCEPT !.running = (s = 1)].queue) <= QueueSize
    BY DEF Init
  <2>1. [Unmade EXCEPT !.running = (s = 1)].queue = Unmade.queue  BY DEF Unmade
  <2>2. (s = 1) \in BOOLEAN /\ [Unmade EXCEPT !.running = (s = 1)] \in Svcs
    BY RestShapes, SvcShapes
  <2>. QED  BY <2>1, <2>2, RestShapes, PushAssumption
<1>2. worker \in [Services -> [Workers -> Hands]] /\ call \in [Conns -> Calls]
  BY PushAssumption DEF Init, Hands, AtRest, Calls, NoCall
<1>3. req \in [Requests -> Reqs] /\ rows \in [Devices -> SUBSET [id : Nat, on : BOOLEAN]]
  BY DEF Init, Reqs
<1>4. CallInv /\ TaskInv
  BY PushAssumption DEF Init, CallInv, TaskInv, Recording, NoCall, AtRest
<1>5. global \in 0..MaxServices /\ stored \subseteq Events /\ nextRow \in Nat
  BY PushAssumption DEF Init
<1>. QED  BY <1>1, <1>2, <1>3, <1>4, <1>5 DEF Init, TypeInv, CoreType, RowType

\* What a call is about.
LEMMA EventTyped ==
    ASSUME CoreType, CallInv, NEW c \in Conns, call[c].pos <= Len(Script[c])
    PROVE  /\ EventAt(c) \in Events /\ call[c].pos \in Nat
           /\ \A d \in call[c].todo : call[c].svc \in Services => NewTask(c, d) \in Tasks
<1>1. Script[c] \in Seq(Events) /\ call[c] \in Calls  BY PushAssumption DEF CoreType
<1>2. call[c].pos \in 1..Len(Script[c])  BY <1>1 DEF CallInv, Calls
<1>3. EventAt(c) \in Events  BY <1>1, <1>2, ElementOfSeq DEF EventAt
<1>4. \A d \in call[c].todo : d.dev \in Devices /\ d.row \in Nat  BY <1>1 DEF Calls
<1>. QED  BY <1>2, <1>3, <1>4 DEF NewTask, Tasks

\* The devices of a user.
LEMMA ActiveTyped ==
    ASSUME RowType, NEW u
    PROVE  /\ ActiveRows(u) \in SUBSET [dev : Devices, row : Nat]
           /\ \A d \in ActiveRows(u) : OwnerOf[d.dev] = u
<1> SUFFICES ASSUME NEW d \in ActiveRows(u)
             PROVE  d \in [dev : Devices, row : Nat] /\ OwnerOf[d.dev] = u
  OBVIOUS
<1>1. PICK e \in {x \in Devices : OwnerOf[x] = u} : d \in {[dev |-> e, row |-> r.id] : r \in {x \in rows[e] : x.on}}
  BY DEF ActiveRows
<1>2. PICK r \in rows[e] : d = [dev |-> e, row |-> r.id]  BY <1>1
<1>3. r \in [id : Nat, on : BOOLEAN]  BY <1>2 DEF RowType
<1>. QED  BY <1>1, <1>2, <1>3

\* Putting a task into the queue when there is room.
LEMMA PutTyped ==
    ASSUME CoreType, NEW s \in Services, NEW t \in Tasks, Room(s), Put(s, t)
    PROVE  /\ svc' \in [Services -> Svcs]
           /\ \A r \in Services : Len(svc'[r].queue) <= QueueSize
<1>1. svc[s] \in Svcs /\ svc[s].queue \in Seq(Tasks)  BY DEF CoreType, Svcs
<1>2. Append(svc[s].queue, t) \in Seq(Tasks) /\ Len(Append(svc[s].queue, t)) = Len(svc[s].queue) + 1
  BY <1>1
<1>3. svc' = [svc EXCEPT ![s] = [svc[s] EXCEPT !.queue = Append(svc[s].queue, t)]]
  BY DEF Put, CoreType
<1>4. [svc[s] EXCEPT !.queue = Append(svc[s].queue, t)] \in Svcs
  BY <1>1, <1>2, SvcShapes
<1>5. svc' \in [Services -> Svcs]  BY <1>3, <1>4 DEF CoreType
<1>6. ASSUME NEW r \in Services PROVE Len(svc'[r].queue) <= QueueSize
  <2>1. CASE r = s
    <3>1. svc'[r].queue = Append(svc[s].queue, t)  BY <1>1, <1>3, <2>1 DEF CoreType, Svcs
    <3>. QED  BY <1>1, <1>2, <3>1, PushAssumption DEF Room
  <2>2. CASE r # s  BY <1>3, <2>2 DEF CoreType
  <2>. QED  BY <2>1, <2>2
<1>. QED  BY <1>5, <1>6

\* The steps of a call.
LEMMA CallTyped ==
    ASSUME TypeInv, NEW c \in Conns, CallStep(c)
    PROVE  TypeInv'
<1>1. CoreType /\ RowType /\ CallInv /\ TaskInv  BY DEF TypeInv
<1>2. call[c] \in Calls /\ Script[c] \in Seq(Events) /\ Len(Script[c]) \in Nat
  BY <1>1, PushAssumption DEF CoreType
<1>3. ASSUME NEW k \in Calls, call' = [call EXCEPT ![c] = k], k.pos # 0,
             k.pc # "idle" => k.svc \in Services /\ k.pos <= Len(Script[c])
      PROVE  call' \in [Conns -> Calls] /\ CallInv'
  BY <1>1, <1>3 DEF CoreType, CallInv
<1>4. ASSUME call[c].pos <= Len(Script[c]), EndCall(c) PROVE call' \in [Conns -> Calls] /\ CallInv'
  <2>1. call[c].pos + 1 \in Nat /\ call[c].pos + 1 # 0  BY <1>2 DEF Calls
  <2>2. [NoCall EXCEPT !.pos = call[c].pos + 1] \in Calls  BY <2>1, RestShapes
  <2>. QED  BY <1>3, <1>4, <2>1, <2>2 DEF EndCall, NoCall
<1>5. ASSUME LoseConn(c) PROVE call' \in [Conns -> Calls] /\ CallInv'
  <2>1. Len(Script[c]) + 1 \in Nat /\ Len(Script[c]) + 1 # 0  BY <1>2
  <2>2. [NoCall EXCEPT !.pos = Len(Script[c]) + 1] \in Calls  BY <2>1, RestShapes
  <2>. QED  BY <1>3, <1>5, <2>1, <2>2 DEF LoseConn, NoCall
<1>6. ASSUME NEW d \in call[c].todo, call[c].pc = "send", Queued(c, d) PROVE call' \in [Conns -> Calls] /\ CallInv'
  <2> DEFINE T  == call[c].todo \ {d}
             pc == IF call[c].todo = {d} THEN "users" ELSE "send"
             k  == [call[c] EXCEPT !.todo = T, !.pc = pc]
  <2>1. call' = [call EXCEPT ![c] = k]  BY <1>1, <1>6 DEF CoreType, Queued
  <2>2. T \in SUBSET [dev : Devices, row : Nat] /\ pc \in {"users", "send"}  BY <1>2 DEF Calls
  <2> HIDE DEF T, pc
  <2>3. k \in Calls  BY <1>2, <2>2, CallShapes
  <2>4. k.pos = call[c].pos /\ k.svc = call[c].svc  BY <1>2 DEF Calls
  <2>. QED  BY <1>1, <1>3, <1>6, <2>1, <2>3, <2>4 DEF CallInv
<1>7. CASE GetService(c)
  <2>1. call' \in [Conns -> Calls] /\ CallInv'
    <3>1. CASE global = 0  BY <1>4, <1>7, <3>1 DEF GetService
    <3>2. CASE global # 0
      <4>1. call' = [call EXCEPT ![c] = [call[c] EXCEPT !.pc = "check", !.svc = global]]
        BY <1>1, <1>7, <3>2 DEF CoreType, GetService
      <4>2. [call[c] EXCEPT !.pc = "check", !.svc = global] \in Calls
        BY <1>1, <1>2, CallShapes DEF CoreType
      <4>3. global \in Services  BY <1>1, <3>2, PushAssumption DEF CoreType, Services
      <4>4. /\ [call[c] EXCEPT !.pc = "check", !.svc = global].svc = global
            /\ [call[c] EXCEPT !.pc = "check", !.svc = global].pos = call[c].pos
        BY <1>2 DEF Calls
      <4>. QED  BY <1>1, <1>3, <1>7, <4>1, <4>2, <4>3, <4>4 DEF GetService, CallInv
    <3>. QED  BY <3>1, <3>2
  <2>. QED  BY <1>1, <1>7, <2>1 DEF TypeInv, GetService, CoreType, RowType, TaskInv, Recording, table
<1>8. CASE Check(c)
  <2>1. call' \in [Conns -> Calls] /\ CallInv'
    <3>1. EndCall(c) \/ call' = [call EXCEPT ![c].pc = "mark"]  BY <1>8 DEF Check
    <3>2. CASE EndCall(c)  BY <1>1, <1>4, <1>8, <3>2 DEF Check, CallInv
    <3>3. CASE call' = [call EXCEPT ![c].pc = "mark"]
      <4>1. call' = [call EXCEPT ![c] = [call[c] EXCEPT !.pc = "mark"]]  BY <1>1, <3>3 DEF CoreType
      <4>2. /\ [call[c] EXCEPT !.pc = "mark"].svc = call[c].svc
            /\ [call[c] EXCEPT !.pc = "mark"].pos = call[c].pos  BY <1>2 DEF Calls
      <4>. QED  BY <1>1, <1>2, <1>3, <1>8, <4>1, <4>2, CallShapes DEF Check, CallInv
    <3>. QED  BY <3>1, <3>2, <3>3
  <2>. QED  BY <1>1, <1>8, <2>1 DEF TypeInv, Check, CoreType, RowType, TaskInv, Recording, table
<1>9. CASE Mark(c)
  <2>1. call[c].svc \in Services /\ call[c].pos <= Len(Script[c])  BY <1>1, <1>9 DEF Mark, CallInv
  <2>2. EventAt(c) \in Events  BY <1>1, <2>1, EventTyped
  <2>3. call' \in [Conns -> Calls] /\ CallInv'
    <3>1. CASE EndCall(c)  BY <1>4, <2>1, <3>1
    <3>2. CASE ~EndCall(c)
      <4> DEFINE L == Recipients(EventAt(c)) \ {AuthorOf[EventAt(c)]}
                 k == [call[c] EXCEPT !.pc = "users", !.left = L]
      <4>1. call' = [call EXCEPT ![c] = k]  BY <1>1, <1>9, <3>2 DEF CoreType, Mark
      <4>2. L \in SUBSET Users
        <5>1. Mentions[EventAt(c)] \in SUBSET Users  BY <2>2, PushAssumption
        <5>2. RefAuthor(EventAt(c)) \in SUBSET Users  BY <1>1, PushAssumption DEF RefAuthor, CoreType
        <5>. QED  BY <5>1, <5>2 DEF Recipients
      <4> HIDE DEF L
      <4>3. k \in Calls  BY <1>2, <4>2, CallShapes
      <4>4. k.svc = call[c].svc /\ k.pos = call[c].pos  BY <1>2 DEF Calls
      <4>. QED  BY <1>1, <1>3, <2>1, <4>1, <4>3, <4>4 DEF CallInv
    <3>. QED  BY <3>1, <3>2
  <2>4. svc' \in [Services -> Svcs] /\ \A s \in Services : Len(svc'[s].queue) <= QueueSize
    <3> DEFINE s == call[c].svc
               P == Remember(svc[s].processed, EventAt(c))
    <3>1. svc' = [svc EXCEPT ![s] = [svc[s] EXCEPT !.processed = P]]  BY <1>1, <1>9, <2>1 DEF CoreType, Mark
    <3>2. P \in SUBSET Events  BY <1>1, <2>1, <2>2 DEF CoreType, Svcs, Remember
    <3> HIDE DEF P
    <3>3. [svc[s] EXCEPT !.processed = P] \in Svcs  BY <1>1, <2>1, <3>2, SvcShapes DEF CoreType
    <3>4. [svc[s] EXCEPT !.processed = P].queue = svc[s].queue  BY <1>1, <2>1 DEF CoreType, Svcs
    <3>. QED  BY <1>1, <2>1, <3>1, <3>3, <3>4 DEF CoreType
  <2>. QED  BY <1>1, <1>9, <2>3, <2>4 DEF TypeInv, Mark, CoreType, RowType, TaskInv, Recording, table
<1>10. CASE NextUser(c)
  <2>1. call' \in [Conns -> Calls] /\ CallInv'
    <3>1. CASE EndCall(c)  BY <1>1, <1>4, <1>10, <3>1 DEF NextUser, CallInv
    <3>2. CASE ~EndCall(c)
      <4>1. PICK u \in call[c].left :
               call' = [call EXCEPT ![c].left = @ \ {u}, ![c].todo = ActiveRows(u),
                                    ![c].pc = IF ActiveRows(u) = {} THEN "users" ELSE "send"]
        BY <1>10, <3>2 DEF NextUser
      <4> DEFINE pc == IF ActiveRows(u) = {} THEN "users" ELSE "send"
                 L  == call[c].left \ {u}
                 T  == ActiveRows(u)
                 k  == [call[c] EXCEPT !.left = L, !.todo = T, !.pc = pc]
      <4>2. call' = [call EXCEPT ![c] = k]  BY <1>1, <4>1 DEF CoreType
      <4>3. L \in SUBSET Users /\ T \in SUBSET [dev : Devices, row : Nat] /\ pc \in {"users", "send"}
        BY <1>1, <1>2, ActiveTyped DEF Calls
      <4> HIDE DEF L, T, pc
      <4>4. k \in Calls  BY <1>2, <4>3, CallShapes
      <4>5. k.svc = call[c].svc /\ k.pos = call[c].pos  BY <1>2 DEF Calls
      <4>. QED  BY <1>1, <1>3, <1>10, <4>2, <4>4, <4>5 DEF NextUser, CallInv
    <3>. QED  BY <3>1, <3>2
  <2>. QED  BY <1>1, <1>10, <2>1 DEF TypeInv, NextUser, CoreType, RowType, TaskInv, Recording, table
<1>11. CASE Enqueue(c)
  <2>1. call[c].svc \in Services /\ call[c].pos <= Len(Script[c])  BY <1>1, <1>11 DEF Enqueue, CallInv
  <2>2. PICK d \in call[c].todo :
           \/ Room(call[c].svc) /\ Put(call[c].svc, NewTask(c, d)) /\ Queued(c, d)
           \/ EndCall(c) /\ UNCHANGED svc
           \/ LoseConn(c) /\ UNCHANGED svc
           \/ Queued(c, d) /\ UNCHANGED svc
    BY <1>11 DEF Enqueue
  <2>3. call[c].pc = "send"  BY <1>11 DEF Enqueue
  <2>4. call' \in [Conns -> Calls] /\ CallInv'  BY <1>4, <1>5, <1>6, <2>1, <2>2, <2>3
  <2>5. NewTask(c, d) \in Tasks  BY <1>1, <2>1, EventTyped
  <2>6. svc' \in [Services -> Svcs] /\ \A s \in Services : Len(svc'[s].queue) <= QueueSize
    <3>1. CASE Room(call[c].svc) /\ Put(call[c].svc, NewTask(c, d))  BY <1>1, <2>1, <2>5, <3>1, PutTyped
    <3>2. CASE UNCHANGED svc  BY <1>1, <3>2 DEF CoreType
    <3>. QED  BY <2>2, <3>1, <3>2
  <2>. QED  BY <1>1, <1>11, <2>4, <2>6 DEF TypeInv, Enqueue, CoreType, RowType, TaskInv, Recording, table
<1>. QED  BY <1>7, <1>8, <1>9, <1>10, <1>11 DEF CallStep

\* The first task of a queue, and what is left of the queue.
LEMMA HeadOf ==
    ASSUME CoreType, NEW s \in Services, svc[s].queue # <<>>
    PROVE  /\ Len(svc[s].queue) \in Nat \ {0} /\ 1 \in Slots(s)
           /\ Head(svc[s].queue) = At(s, 1) /\ At(s, 1) \in Tasks
           /\ Tail(svc[s].queue) \in Seq(Tasks)
           /\ Len(Tail(svc[s].queue)) = Len(svc[s].queue) - 1
           /\ \A i \in 1..Len(Tail(svc[s].queue)) : Tail(svc[s].queue)[i] = At(s, i + 1) /\ i + 1 \in Slots(s)
<1>1. svc[s].queue \in Seq(Tasks)  BY DEF CoreType, Svcs
<1>2. Len(svc[s].queue) \in Nat \ {0}  BY <1>1, EmptySeq
<1>3. /\ Tail(svc[s].queue) \in Seq(Tasks) /\ Len(Tail(svc[s].queue)) = Len(svc[s].queue) - 1
      /\ \A i \in 1..Len(Tail(svc[s].queue)) : Tail(svc[s].queue)[i] = svc[s].queue[i + 1]
  BY <1>1, HeadTailProperties
<1>4. 1 \in Slots(s) /\ At(s, 1) \in Tasks /\ Head(svc[s].queue) = At(s, 1)
  BY <1>1, <1>2, ElementOfSeq DEF Slots, At
<1>5. \A i \in 1..Len(Tail(svc[s].queue)) : i + 1 \in Slots(s)  BY <1>2, <1>3 DEF Slots
<1>. QED  BY <1>2, <1>3, <1>4, <1>5 DEF At

\* The steps of a worker.
LEMMA WorkTyped ==
    ASSUME TypeInv, NEW s \in Services, NEW w \in Workers, WorkStep(s, w)
    PROVE  TypeInv'
<1>1. CoreType /\ RowType /\ CallInv /\ TaskInv  BY DEF TypeInv
<1>2. ASSUME NEW h \in Hands, worker' = [worker EXCEPT ![s][w] = h],
             h.pc = "record" => h.task \in Tasks
      PROVE  worker' \in [Services -> [Workers -> Hands]] /\ TaskInv'
  BY <1>1, <1>2 DEF CoreType, TaskInv, Recording
<1>3. CASE Send(s, w)
  <2> DEFINE t == [Head(svc[s].queue) EXCEPT !.att = @ + 1]
  <2>1. PICK ok \in BOOLEAN :
           /\ worker' = [worker EXCEPT ![s][w] = [pc |-> "record", task |-> t, ok |-> ok]]
           /\ log' = log \cup {[task |-> t, delivered |-> FALSE]}
           /\ sends' = sends \cup {[task |-> t, ok |-> ok]}
    BY <1>3 DEF Send
  <2>2. t \in Tasks
    <3>1. Head(svc[s].queue) \in Tasks  BY <1>1, <1>3, HeadOf DEF Send
    <3>. QED  BY <3>1, TaskShapes
  <2> HIDE DEF t
  <2>3. worker' \in [Services -> [Workers -> Hands]] /\ TaskInv'
    <3>1. [pc |-> "record", task |-> t, ok |-> ok] \in Hands  BY <2>2 DEF Hands
    <3>. QED  BY <1>2, <2>1, <2>2, <3>1
  <2>4. log' \subseteq [task : Tasks, delivered : BOOLEAN] /\ sends' \subseteq [task : Tasks, ok : BOOLEAN]
    <3>1. /\ [task |-> t, delivered |-> FALSE] \in [task : Tasks, delivered : BOOLEAN]
          /\ [task |-> t, ok |-> ok] \in [task : Tasks, ok : BOOLEAN]  BY <2>2
    <3>. QED  BY <1>1, <2>1, <3>1 DEF CoreType
  <2>5. svc' \in [Services -> Svcs] /\ \A r \in Services : Len(svc'[r].queue) <= QueueSize
    <3> DEFINE q == Tail(svc[s].queue)
    <3>1. q \in Seq(Tasks) /\ Len(q) <= QueueSize
      BY <1>1, <1>3, HeadOf, PushAssumption DEF CoreType, Send
    <3>2. svc' = [svc EXCEPT ![s] = [svc[s] EXCEPT !.queue = q]]  BY <1>1, <1>3 DEF Send, CoreType
    <3> HIDE DEF q
    <3>3. [svc[s] EXCEPT !.queue = q] \in Svcs  BY <1>1, <3>1, SvcShapes DEF CoreType
    <3>4. [svc[s] EXCEPT !.queue = q].queue = q  BY <1>1 DEF CoreType, Svcs
    <3>. QED  BY <1>1, <3>1, <3>2, <3>3, <3>4 DEF CoreType
  <2>. QED  BY <1>1, <1>3, <2>3, <2>4, <2>5 DEF TypeInv, Send, CoreType, RowType, CallInv, table, EventAt
<1>4. CASE Record(s, w)
  <2> DEFINE t == worker[s][w].task
  <2>1. t \in Tasks  BY <1>1, <1>4 DEF Record, TaskInv, Recording
  <2>2. worker' \in [Services -> [Workers -> Hands]] /\ TaskInv'
    <3>1. worker' = [worker EXCEPT ![s][w] = AtRest]  BY <1>4 DEF Record
    <3>2. AtRest.pc # "record"  BY DEF AtRest
    <3>. QED  BY <1>2, <3>1, <3>2, RestShapes
  <2>3. log' \subseteq [task : Tasks, delivered : BOOLEAN]
    <3>1. ASSUME NEW l \in log PROVE l \in [task : Tasks, delivered : BOOLEAN]
                                   /\ [l EXCEPT !.delivered = TRUE] \in [task : Tasks, delivered : BOOLEAN]
      <4>1. l \in [task : Tasks, delivered : BOOLEAN]  BY <1>1 DEF CoreType
      <4>. QED  BY <4>1
    <3>. QED  BY <1>1, <1>4, <3>1 DEF CoreType, Record
  <2>4. retries' \subseteq Tasks  BY <1>1, <1>4, <2>1 DEF CoreType, Record
  <2>5. rows' \in [Devices -> SUBSET [id : Nat, on : BOOLEAN]]
    <3>1. rows' = rows \/ rows' = SwitchOff(TokenOf[t.dev])  BY <1>4 DEF Record
    <3>2. \A tok : SwitchOff(tok) \in [Devices -> SUBSET [id : Nat, on : BOOLEAN]]
      <4>1. ASSUME NEW d \in Devices, NEW r \in rows[d]
            PROVE  [r EXCEPT !.on = FALSE] \in [id : Nat, on : BOOLEAN]
        <5>1. r \in [id : Nat, on : BOOLEAN]  BY <1>1 DEF RowType
        <5>. QED  BY <5>1
      <4>2. ASSUME NEW d \in Devices
            PROVE  /\ {[r EXCEPT !.on = FALSE] : r \in rows[d]} \in SUBSET [id : Nat, on : BOOLEAN]
                   /\ rows[d] \in SUBSET [id : Nat, on : BOOLEAN]
        BY <1>1, <4>1 DEF RowType
      <4>. QED  BY <4>2 DEF SwitchOff
    <3>. QED  BY <1>1, <3>1, <3>2 DEF RowType
  <2>. QED  BY <1>1, <1>4, <2>2, <2>3, <2>4, <2>5 DEF TypeInv, Record, CoreType, RowType, CallInv
<1>5. CASE Exit(s, w)
  <2>1. worker[s][w] \in Hands  BY <1>1 DEF CoreType
  <2>2. worker' = [worker EXCEPT ![s][w] = [worker[s][w] EXCEPT !.pc = "exit"]]  BY <1>1, <1>5 DEF Exit, CoreType
  <2>3. [worker[s][w] EXCEPT !.pc = "exit"] \in Hands /\ [worker[s][w] EXCEPT !.pc = "exit"].pc = "exit"
    BY <2>1 DEF Hands
  <2>4. worker' \in [Services -> [Workers -> Hands]] /\ TaskInv'  BY <1>2, <2>2, <2>3
  <2>. QED  BY <1>1, <1>5, <2>4 DEF TypeInv, Exit, CoreType, RowType, CallInv, table
<1>. QED  BY <1>3, <1>4, <1>5 DEF WorkStep

\* A delay that ends.
LEMMA RetryTyped ==
    ASSUME TypeInv, NEW t \in retries, Retry(t)
    PROVE  TypeInv'
<1>1. CoreType /\ RowType /\ CallInv /\ TaskInv  BY DEF TypeInv
<1>2. t \in Tasks /\ t.svc \in Services  BY <1>1 DEF CoreType, Tasks
<1>3. svc' \in [Services -> Svcs] /\ \A s \in Services : Len(svc'[s].queue) <= QueueSize
  <2>1. CASE Room(t.svc) /\ Put(t.svc, t)  BY <1>1, <1>2, <2>1, PutTyped
  <2>2. CASE UNCHANGED svc  BY <1>1, <2>2 DEF CoreType
  <2>. QED  BY <2>1, <2>2 DEF Retry
<1>. QED  BY <1>1, <1>3 DEF TypeInv, Retry, CoreType, RowType, CallInv, TaskInv, Recording, table

\* The service that takes the place of another has not been made yet.
LEMMA NextService ==
    ASSUME CoreType, Replace
    PROVE  global' \in 0..MaxServices /\ (global' # 0 => global' \in Services /\ svc[global'] = Unmade)
<1>1. CASE Unused = {} \/ global' = 0  BY <1>1, PushAssumption DEF Replace
<1>2. CASE Unused # {} /\ global' # 0
  <2>1. Unused \in SUBSET Nat /\ Unused # {}  BY <1>2, PushAssumption DEF Unused, Services
  <2>2. Min(Unused) \in Unused  BY <2>1, MinOf
  <2>. QED  BY <1>2, <2>2, PushAssumption DEF Replace, Unused, Services
<1>. QED  BY <1>1, <1>2

\* Stop and reload.
LEMMA AdminTyped ==
    ASSUME TypeInv, BeginStop \/ AdminStep \/ Renew
    PROVE  TypeInv'
<1>1. CoreType /\ RowType /\ CallInv /\ TaskInv  BY DEF TypeInv
<1> DEFINE SvcTyped(f) == f \in [Services -> Svcs] /\ \A r \in Services : Len(f[r].queue) <= QueueSize
<1>2. ASSUME NEW f, SvcTyped(f), NEW s \in Services, NEW b \in BOOLEAN
      PROVE  /\ SvcTyped([f EXCEPT ![s].cancelled = b])
             /\ SvcTyped([f EXCEPT ![s].closed = b])
             /\ SvcTyped([f EXCEPT ![s].running = b])
  <2>1. f[s] \in Svcs  BY <1>2
  <2>2. /\ [f EXCEPT ![s].cancelled = b] = [f EXCEPT ![s] = [f[s] EXCEPT !.cancelled = b]]
        /\ [f EXCEPT ![s].closed = b] = [f EXCEPT ![s] = [f[s] EXCEPT !.closed = b]]
        /\ [f EXCEPT ![s].running = b] = [f EXCEPT ![s] = [f[s] EXCEPT !.running = b]]
    BY <1>2
  <2>3. ASSUME NEW v \in Svcs, v.queue = f[s].queue PROVE SvcTyped([f EXCEPT ![s] = v])
    BY <1>2, <2>3
  <2>4. /\ [f[s] EXCEPT !.cancelled = b].queue = f[s].queue
        /\ [f[s] EXCEPT !.closed = b].queue = f[s].queue
        /\ [f[s] EXCEPT !.running = b].queue = f[s].queue
    BY <2>1 DEF Svcs
  <2>5. /\ [f[s] EXCEPT !.cancelled = b] \in Svcs
        /\ [f[s] EXCEPT !.closed = b] \in Svcs
        /\ [f[s] EXCEPT !.running = b] \in Svcs
    BY <2>1, SvcShapes
  <2> HIDE DEF SvcTyped
  <2>. QED  BY <2>2, <2>3, <2>4, <2>5
<1>3. SvcTyped(svc)  BY <1>1 DEF CoreType
<1>4. global # 0 => global \in Services  BY <1>1, PushAssumption DEF CoreType, Services
<1>5. CASE BeginStop
  <2>1. SvcTyped(svc')  BY <1>2, <1>3, <1>4, <1>5 DEF BeginStop
  <2>. QED  BY <1>1, <1>5, <2>1 DEF TypeInv, BeginStop, CoreType, RowType, CallInv, TaskInv, Recording, table
<1>6. CASE CloseQueue
  <2>0. global # 0  BY <1>1, <1>6 DEF CloseQueue, CoreType
  <2>1. SvcTyped(svc')  BY <1>2, <1>3, <1>4, <1>6, <2>0 DEF CloseQueue
  <2>. QED  BY <1>1, <1>6, <2>1 DEF TypeInv, CloseQueue, CoreType, RowType, CallInv, TaskInv, Recording, table
<1>7. ASSUME NEW f, SvcTyped(f), Replace, svc' = Made(f, global') PROVE SvcTyped(svc') /\ global' \in 0..MaxServices
  <2>1. global' \in 0..MaxServices /\ (global' # 0 => global' \in Services)  BY <1>1, <1>7, NextService
  <2> HIDE DEF SvcTyped
  <2>. QED  BY <1>2, <1>7, <2>1 DEF Made
<1>8. CASE Finish
  <2>0. global # 0  BY <1>1, <1>8 DEF Finish, CoreType
  <2>1. SvcTyped([svc EXCEPT ![global].running = FALSE])  BY <1>2, <1>3, <1>4, <2>0
  <2>2. SvcTyped(svc') /\ global' \in 0..MaxServices
    <3> HIDE DEF SvcTyped
    <3>. QED  BY <1>7, <1>8, <2>1 DEF Finish
  <2>. QED  BY <1>1, <1>8, <2>2 DEF TypeInv, Finish, CoreType, RowType, CallInv, TaskInv, Recording, table
<1>9. CASE Renew
  <2>1. SvcTyped(svc') /\ global' \in 0..MaxServices
    <3> HIDE DEF SvcTyped
    <3>. QED  BY <1>3, <1>7, <1>9 DEF Renew
  <2>. QED  BY <1>1, <1>9, <2>1 DEF TypeInv, Renew, CoreType, RowType, CallInv, TaskInv, Recording, table
<1>. QED  BY <1>5, <1>6, <1>8, <1>9 DEF AdminStep

\* The device handlers.
LEMMA ReqTyped ==
    ASSUME TypeInv, NEW r \in Requests, FindRow(r) \/ SaveRow(r) \/ Unregister(r)
    PROVE  TypeInv'
<1>1. CoreType /\ RowType /\ CallInv /\ TaskInv  BY DEF TypeInv
<1>2. r.dev \in Devices /\ req[r] \in Reqs  BY <1>1, PushAssumption DEF RowType
<1>3. CASE FindRow(r)
  <2> DEFINE ids == {x.id : x \in rows[r.dev]}
             q   == IF rows[r.dev] = {} THEN [pc |-> "create", id |-> 0] ELSE [pc |-> "save", id |-> Min(ids)]
  <2>1. rows[r.dev] # {} => Min(ids) \in Nat
    <3>1. ids \in SUBSET Nat  BY <1>1, <1>2 DEF RowType
    <3>2. rows[r.dev] # {} => ids # {}  OBVIOUS
    <3> HIDE DEF ids
    <3>. QED  BY <3>1, <3>2, MinOf
  <2>2. q \in Reqs  BY <2>1 DEF Reqs
  <2>3. req' = [req EXCEPT ![r] = q]  BY <1>3 DEF FindRow
  <2> HIDE DEF q
  <2>. QED  BY <1>1, <1>3, <2>2, <2>3 DEF TypeInv, FindRow, CoreType, RowType, CallInv, TaskInv, Recording
<1>4. [req[r] EXCEPT !.pc = "done"] \in Reqs  BY <1>2 DEF Reqs
<1>5. CASE SaveRow(r)
  <2> DEFINE id == IF req[r].pc = "create" THEN nextRow ELSE req[r].id
             R  == {x \in rows[r.dev] : x.id # id} \cup {[id |-> id, on |-> TRUE]}
  <2>1. id \in Nat  BY <1>1, <1>2 DEF RowType, Reqs
  <2> HIDE DEF id
  <2>2. R \in SUBSET [id : Nat, on : BOOLEAN]
    <3>1. rows[r.dev] \in SUBSET [id : Nat, on : BOOLEAN]  BY <1>1, <1>2 DEF RowType
    <3>2. [id |-> id, on |-> TRUE] \in [id : Nat, on : BOOLEAN]  BY <2>1
    <3>. QED  BY <3>1, <3>2
  <2>3. rows' = [rows EXCEPT ![r.dev] = R] /\ req' = [req EXCEPT ![r] = [req[r] EXCEPT !.pc = "done"]]
    BY <1>1, <1>5 DEF SaveRow, RowType, id
  <2>4. nextRow' \in Nat  BY <1>1, <1>5 DEF SaveRow, RowType
  <2> HIDE DEF R
  <2>5. RowType'  BY <1>1, <1>2, <1>4, <2>2, <2>3, <2>4 DEF RowType
  <2>. QED  BY <1>1, <1>5, <2>5 DEF TypeInv, SaveRow, CoreType, CallInv, TaskInv, Recording
<1>6. CASE Unregister(r)
  <2>1. req' = [req EXCEPT ![r] = [req[r] EXCEPT !.pc = "done"]]  BY <1>1, <1>6 DEF Unregister, RowType
  <2>2. RowType'  BY <1>1, <1>2, <1>4, <1>6, <2>1 DEF RowType, Unregister
  <2>. QED  BY <1>1, <1>6, <2>2 DEF TypeInv, Unregister, CoreType, CallInv, TaskInv, Recording
<1>. QED  BY <1>3, <1>5, <1>6

\* Every step keeps the type.
LEMMA TypeNext == TypeInv /\ [Next]_vars => TypeInv'
<1> SUFFICES ASSUME TypeInv, [Next]_vars PROVE TypeInv'  OBVIOUS
<1>1. CASE UNCHANGED vars
  BY <1>1 DEF TypeInv, CoreType, RowType, CallInv, TaskInv, Recording, vars, table
<1>2. CASE Next
  BY <1>2, CallTyped, WorkTyped, RetryTyped, AdminTyped, ReqTyped DEF Next, RetryStep
<1>. QED  BY <1>1, <1>2

\* The state's type.
THEOREM TypeCorrect == Spec => []TypeOK
<1>1. Spec => []TypeInv  BY TypeInit, TypeNext, PTL DEF Spec
<1>. QED  BY <1>1, TypeParts, PTL

-----------------------------------------------------------------------------
(* Stopping: a worker leaves when its queue is closed and empty, and a     *)
(* service stops running when all have left.                               *)

StopInv ==
    /\ global # 0 => svc[global].running
    /\ admin = "wait" => svc[global].closed
    /\ \A s \in Services : svc[s].closed /\ ~svc[s].running => \A w \in Workers : worker[s][w].pc = "exit"
    /\ \A s \in Services, w \in Workers : worker[s][w].pc = "exit" => Ended(s)

\* Outside stop and reload a service keeps its flags, and a closed queue grows
\* no longer.
LEMMA FlagsKept ==
    ASSUME TypeInv, \/ \E c \in Conns : CallStep(c)
                    \/ \E s \in Services, w \in Workers : WorkStep(s, w)
                    \/ RetryStep
    PROVE  /\ UNCHANGED <<global, admin>>
           /\ \A s \in Services : /\ svc'[s].closed = svc[s].closed
                                  /\ svc'[s].running = svc[s].running
                                  /\ svc'[s].cancelled = svc[s].cancelled
                                  /\ Ended(s) => svc'[s].queue = <<>>
<1>1. svc \in [Services -> Svcs]  BY DEF TypeInv, CoreType
<1> DEFINE Goal == \A s \in Services : /\ svc'[s].closed = svc[s].closed
                                       /\ svc'[s].running = svc[s].running
                                       /\ svc'[s].cancelled = svc[s].cancelled
                                       /\ Ended(s) => svc'[s].queue = <<>>
<1>2. ASSUME UNCHANGED svc PROVE Goal  BY <1>2 DEF Ended
<1>3. ASSUME NEW s \in Services, NEW t, Room(s), Put(s, t) PROVE Goal
  BY <1>1, <1>3 DEF Room, Put, Ended, Svcs
<1>4. ASSUME NEW c \in Conns, CallStep(c) PROVE UNCHANGED <<global, admin>> /\ Goal
  <2>1. UNCHANGED <<global, admin>>
    BY <1>4 DEF CallStep, GetService, Check, Mark, NextUser, Enqueue
  <2>2. CASE Mark(c)
    <3>1. Goal  BY <1>1, <2>2 DEF Mark, Ended, Svcs
    <3>. QED  BY <2>1, <3>1
  <2>3. CASE Enqueue(c)
    <3>1. call[c].svc \in Services  BY <2>3 DEF Enqueue, TypeInv, CallInv
    <3>2. Goal  BY <1>2, <1>3, <2>3, <3>1 DEF Enqueue
    <3>. QED  BY <2>1, <3>2
  <2>4. CASE GetService(c) \/ Check(c) \/ NextUser(c)
    BY <1>2, <2>1, <2>4 DEF GetService, Check, NextUser
  <2>. QED  BY <1>4, <2>2, <2>3, <2>4 DEF CallStep
<1>5. ASSUME NEW s \in Services, NEW w \in Workers, WorkStep(s, w) PROVE UNCHANGED <<global, admin>> /\ Goal
  <2>1. CASE Send(s, w)
    <3>1. Goal  BY <1>1, <2>1 DEF Send, Ended, Svcs
    <3>. QED  BY <2>1, <3>1 DEF Send
  <2>2. CASE Record(s, w) \/ Exit(s, w)  BY <1>2, <2>2 DEF Record, Exit
  <2>. QED  BY <1>5, <2>1, <2>2 DEF WorkStep
<1>6. ASSUME NEW t \in retries, Retry(t) PROVE UNCHANGED <<global, admin>> /\ Goal
  <2>1. t.svc \in Services  BY DEF TypeInv, CoreType, Tasks
  <2>. QED  BY <1>2, <1>3, <1>6, <2>1 DEF Retry
<1>. QED  BY <1>4, <1>5, <1>6 DEF RetryStep

\* A worker that has left stays away, and one that leaves finds the queue ended.
LEMMA Leaving ==
    ASSUME TypeInv, StopInv, \/ \E c \in Conns : CallStep(c)
                             \/ \E s \in Services, w \in Workers : WorkStep(s, w)
                             \/ RetryStep
    PROVE  \A s \in Services, w \in Workers : /\ worker[s][w].pc = "exit" => worker'[s][w].pc = "exit"
                                              /\ worker'[s][w].pc = "exit" => Ended(s)
<1>1. worker \in [Services -> [Workers -> Hands]]  BY DEF TypeInv, CoreType
<1>2. CASE UNCHANGED worker  BY <1>2 DEF StopInv
<1>3. ASSUME NEW s \in Services, NEW w \in Workers, WorkStep(s, w)
      PROVE  \A r \in Services, v \in Workers : /\ worker[r][v].pc = "exit" => worker'[r][v].pc = "exit"
                                                /\ worker'[r][v].pc = "exit" => Ended(r)
  <2>1. ASSUME NEW h, worker' = [worker EXCEPT ![s][w] = h], worker[s][w].pc # "exit", h.pc = "exit" => Ended(s)
        PROVE  \A r \in Services, v \in Workers : /\ worker[r][v].pc = "exit" => worker'[r][v].pc = "exit"
                                                  /\ worker'[r][v].pc = "exit" => Ended(r)
    BY <1>1, <2>1 DEF StopInv
  <2>2. CASE Send(s, w)
    <3> DEFINE t == [Head(svc[s].queue) EXCEPT !.att = @ + 1]
    <3>1. PICK ok \in BOOLEAN : worker' = [worker EXCEPT ![s][w] = [pc |-> "record", task |-> t, ok |-> ok]]
      BY <2>2 DEF Send
    <3> HIDE DEF t
    <3>2. [pc |-> "record", task |-> t, ok |-> ok].pc # "exit" /\ worker[s][w].pc # "exit"  BY <2>2 DEF Send
    <3>. QED  BY <2>1, <3>1, <3>2
  <2>3. CASE Record(s, w)
    <3>1. worker' = [worker EXCEPT ![s][w] = AtRest] /\ AtRest.pc = "idle"  BY <2>3 DEF Record, AtRest
    <3>. QED  BY <2>1, <2>3, <3>1 DEF Record
  <2>4. CASE Exit(s, w)
    <3>1. worker' = [worker EXCEPT ![s][w] = [worker[s][w] EXCEPT !.pc = "exit"]]  BY <1>1, <2>4 DEF Exit
    <3>. QED  BY <2>1, <2>4, <3>1 DEF Exit
  <2>. QED  BY <1>3, <2>2, <2>3, <2>4 DEF WorkStep
<1>4. ASSUME NEW c \in Conns, CallStep(c) PROVE UNCHANGED worker
  BY <1>4 DEF CallStep, GetService, Check, Mark, NextUser, Enqueue
<1>5. RetryStep => UNCHANGED worker  BY DEF RetryStep, Retry
<1>. QED  BY <1>2, <1>3, <1>4, <1>5

\* Every step keeps StopInv.
LEMMA StopNext == TypeInv /\ StopInv /\ [Next]_vars => StopInv'
<1> SUFFICES ASSUME TypeInv, StopInv, [Next]_vars PROVE StopInv'  OBVIOUS
<1>1. /\ svc \in [Services -> Svcs] /\ worker \in [Services -> [Workers -> Hands]]
      /\ global # 0 => global \in Services
      /\ admin # "idle" => global # 0
  BY PushAssumption DEF TypeInv, CoreType, Services
<1>2. CASE UNCHANGED vars  BY <1>2 DEF StopInv, vars, Ended
<1>3. CASE \E r \in Requests : FindRow(r) \/ SaveRow(r) \/ Unregister(r)
  BY <1>3 DEF StopInv, Ended, FindRow, SaveRow, Unregister
<1>4. CASE \/ \E c \in Conns : CallStep(c)
           \/ \E s \in Services, w \in Workers : WorkStep(s, w)
           \/ RetryStep
  <2>1. UNCHANGED <<global, admin>>  BY <1>4, FlagsKept
  <2>2. \A s \in Services : /\ svc'[s].closed = svc[s].closed /\ svc'[s].running = svc[s].running
                            /\ Ended(s) => Ended(s)'
    <3>1. \A s \in Services : /\ svc'[s].closed = svc[s].closed /\ svc'[s].running = svc[s].running
                              /\ Ended(s) => svc'[s].queue = <<>>
      BY <1>4, FlagsKept
    <3>. QED  BY <3>1 DEF Ended
  <2>3. \A s \in Services, w \in Workers : /\ worker[s][w].pc = "exit" => worker'[s][w].pc = "exit"
                                           /\ worker'[s][w].pc = "exit" => Ended(s)
    BY <1>4, Leaving
  <2>. QED  BY <1>1, <2>1, <2>2, <2>3 DEF StopInv
<1>5. ASSUME NEW f, f \in [Services -> Svcs], Replace, svc' = Made(f, global'), UNCHANGED worker, admin' = "idle",
             \A s \in Services : f[s].closed = svc[s].closed /\ f[s].queue = svc[s].queue,
             \A s \in Services : ~f[s].running /\ f[s].closed => \A w \in Workers : worker[s][w].pc = "exit"
      PROVE  StopInv'
  <2>1. global' # 0 => global' \in Services  BY <1>5, NextService DEF TypeInv
  <2>2. \A s \in Services : /\ svc'[s].closed = svc[s].closed /\ svc'[s].queue = svc[s].queue
                            /\ svc'[s].running = f[s].running \/ svc'[s].running
    <3>1. CASE global' = 0  BY <1>5, <3>1 DEF Made
    <3>2. CASE global' # 0
      <4>1. svc' = [f EXCEPT ![global'].running = TRUE]  BY <1>5, <3>2 DEF Made
      <4>. QED  BY <1>5, <2>1, <3>2, <4>1 DEF Svcs
    <3>. QED  BY <3>1, <3>2
  <2>3. global' # 0 => svc'[global'].running  BY <1>5, <2>1 DEF Made, Svcs
  <2>4. \A s \in Services, w \in Workers : worker'[s][w].pc = "exit" => Ended(s)'
    BY <1>5, <2>2 DEF StopInv, Ended
  <2>5. \A s \in Services : svc'[s].closed /\ ~svc'[s].running => \A w \in Workers : worker'[s][w].pc = "exit"
    BY <1>5, <2>2
  <2>. QED  BY <1>5, <2>3, <2>4, <2>5 DEF StopInv
<1>6. CASE BeginStop
  <2>1. \A s \in Services : /\ svc'[s].closed = svc[s].closed /\ svc'[s].running = svc[s].running
                            /\ svc'[s].queue = svc[s].queue
    BY <1>1, <1>6 DEF BeginStop, Svcs
  <2>. QED  BY <1>1, <1>6, <2>1 DEF BeginStop, StopInv, Ended
<1>7. CASE CloseQueue
  <2>1. \A s \in Services : /\ svc'[s].closed = (svc[s].closed \/ s = global)
                            /\ svc'[s].running = svc[s].running
                            /\ svc'[s].queue = svc[s].queue
    BY <1>1, <1>7 DEF CloseQueue, Svcs
  <2>. QED  BY <1>1, <1>7, <2>1 DEF CloseQueue, StopInv, Ended
<1>8. CASE Finish
  <2> DEFINE f == [svc EXCEPT ![global].running = FALSE]
  <2>1. global \in Services  BY <1>1, <1>8 DEF Finish
  <2>2. f = [svc EXCEPT ![global] = [svc[global] EXCEPT !.running = FALSE]]  BY <1>1, <2>1
  <2>3. f \in [Services -> Svcs]  BY <1>1, <2>1, <2>2, SvcShapes
  <2>4. \A s \in Services : /\ f[s].closed = svc[s].closed /\ f[s].queue = svc[s].queue
                            /\ f[s].running = (svc[s].running /\ s # global)
    BY <1>1, <2>1 DEF Svcs
  <2> HIDE DEF f
  <2>5. \A s \in Services : ~f[s].running /\ f[s].closed => \A w \in Workers : worker[s][w].pc = "exit"
    BY <1>8, <2>4 DEF StopInv, Finish, Stopped
  <2>. QED  BY <1>5, <1>8, <2>3, <2>4, <2>5 DEF Finish, f
<1>9. CASE Renew  BY <1>1, <1>5, <1>9 DEF Renew, StopInv
<1>. QED  BY <1>2, <1>3, <1>4, <1>6, <1>7, <1>8, <1>9 DEF Next, AdminStep

\* When Stop has returned nothing waits in the queue and no worker is busy, if
\* the configuration has workers at all: a service without any stops at once,
\* whatever its queue holds.
THEOREM StopDrains ==
    ASSUME Workers # {}
    PROVE  Spec => []Drained
<1>1. Init => StopInv
  <2> SUFFICES ASSUME Init PROVE StopInv  OBVIOUS
  <2>1. ASSUME NEW s \in Services
        PROVE  svc[s].closed = FALSE /\ svc[s].running = (s = 1)
    <3>1. svc[s] = [Unmade EXCEPT !.running = (s = 1)]  BY DEF Init
    <3>. QED  BY <3>1 DEF Unmade
  <2>2. 1 \in Services /\ global = 1 /\ admin = "idle"  BY PushAssumption DEF Init, Services
  <2>3. \A s \in Services, w \in Workers : worker[s][w].pc = "idle"  BY DEF Init, AtRest
  <2>. QED  BY <2>1, <2>2, <2>3 DEF StopInv
<1>2. StopInv => Drained  BY DEF StopInv, Drained, Ended
<1>3. Spec => [](TypeInv /\ StopInv)  BY <1>1, TypeInit, TypeNext, StopNext, PTL DEF Spec
<1>. QED  BY <1>2, <1>3, PTL

-----------------------------------------------------------------------------
(* Where tasks are, and the steps that move them                           *)

\* A task is put at the end of the queue of its service.
LEMMA PutEffect ==
    ASSUME CoreType, NEW s \in Services, NEW t \in Tasks, Put(s, t)
    PROVE  /\ Slots(s)' = Slots(s) \cup {Len(svc[s].queue) + 1}
           /\ Len(svc[s].queue) + 1 \notin Slots(s)
           /\ svc'[s].queue[Len(svc[s].queue) + 1] = t
           /\ \A i \in Slots(s) : At(s, i)' = At(s, i)
           /\ \A r \in Services \ {s} : svc'[r] = svc[r]
           /\ \A r \in Services : svc'[r].processed = svc[r].processed
<1>1. svc \in [Services -> Svcs] /\ svc[s].queue \in Seq(Tasks)  BY DEF CoreType, Svcs
<1>2. svc'[s].queue = Append(svc[s].queue, t) /\ \A r \in Services \ {s} : svc'[r] = svc[r]
  BY <1>1 DEF Put, Svcs
<1>3. \A r \in Services : svc'[r].processed = svc[r].processed  BY <1>1 DEF Put, Svcs
<1>4. /\ Len(svc[s].queue) \in Nat /\ Len(Append(svc[s].queue, t)) = Len(svc[s].queue) + 1
      /\ \A i \in 1..Len(svc[s].queue) + 1 :
            Append(svc[s].queue, t)[i] = IF i = Len(svc[s].queue) + 1 THEN t ELSE svc[s].queue[i]
  BY <1>1, AppendProperties
<1>5. /\ 1..(Len(svc[s].queue) + 1) = (1..Len(svc[s].queue)) \cup {Len(svc[s].queue) + 1}
      /\ Len(svc[s].queue) + 1 \notin 1..Len(svc[s].queue)
      /\ \A i \in 1..Len(svc[s].queue) : i \in 1..(Len(svc[s].queue) + 1) /\ i # Len(svc[s].queue) + 1
  BY <1>4
<1>6. Slots(s)' = Slots(s) \cup {Len(svc[s].queue) + 1} /\ Len(svc[s].queue) + 1 \notin Slots(s)
  BY <1>2, <1>4, <1>5 DEF Slots
<1>7. svc'[s].queue[Len(svc[s].queue) + 1] = t  BY <1>2, <1>4, <1>5
<1>8. \A i \in Slots(s) : At(s, i)' = At(s, i)  BY <1>2, <1>4, <1>5 DEF At, Slots
<1>. QED  BY <1>2, <1>3, <1>6, <1>7, <1>8

\* A step that moves no task.
Still ==
    /\ UNCHANGED <<retries, sends>>
    /\ \A s \in Services : svc'[s].queue = svc[s].queue
    /\ \A s \in Services, w \in Workers :
          /\ Recording(s, w)' <=> Recording(s, w)
          /\ Recording(s, w) => worker'[s][w] = worker[s][w]

Asked(c, d) == LET s == call[c].svc IN Room(s) /\ Put(s, NewTask(c, d)) /\ Queued(c, d)

\* A call, a worker or a delay that ends moves tasks; nothing else does.
LEMMA Moves ==
    ASSUME TypeInv, [Next]_vars
    PROVE  \/ Still
           \/ \E c \in Conns : Enqueue(c) /\ \E d \in call[c].todo : Asked(c, d)
           \/ \E s \in Services, w \in Workers : Send(s, w) \/ Record(s, w)
           \/ \E t \in retries : Retry(t)
<1>1. /\ svc \in [Services -> Svcs] /\ worker \in [Services -> [Workers -> Hands]]
      /\ global # 0 => global \in Services
      /\ admin # "idle" => global # 0
      /\ CoreType
  BY PushAssumption DEF TypeInv, CoreType, Services
<1>2. ASSUME UNCHANGED <<retries, sends, worker>>, \A s \in Services : svc'[s].queue = svc[s].queue PROVE Still
  BY <1>2 DEF Still, Recording
<1>3. CASE UNCHANGED vars  BY <1>2, <1>3 DEF vars
<1>4. ASSUME NEW c \in Conns, CallStep(c)
      PROVE  Still \/ (Enqueue(c) /\ \E d \in call[c].todo : Asked(c, d))
  <2>0. UNCHANGED <<retries, sends, worker>>
    BY <1>4 DEF CallStep, GetService, Check, Mark, NextUser, Enqueue
  <2>1. CASE GetService(c) \/ Check(c) \/ NextUser(c)
    <3>1. UNCHANGED svc  BY <2>1 DEF GetService, Check, NextUser
    <3>2. Still  BY <1>2, <2>0, <3>1
    <3>. QED  BY <3>2
  <2>2. CASE Mark(c)
    <3>1. \A s \in Services : svc'[s].queue = svc[s].queue  BY <1>1, <2>2 DEF Mark, Svcs
    <3>2. Still  BY <1>2, <2>0, <3>1
    <3>. QED  BY <3>2
  <2>3. CASE Enqueue(c)
    <3>1. CASE \E d \in call[c].todo : Asked(c, d)  BY <2>3, <3>1
    <3>2. CASE UNCHANGED svc
      <4>1. Still  BY <1>2, <2>0, <3>2
      <4>. QED  BY <4>1
    <3>3. (\E d \in call[c].todo : Asked(c, d)) \/ UNCHANGED svc
      <4>1. PICK d \in call[c].todo :
               \/ Room(call[c].svc) /\ Put(call[c].svc, NewTask(c, d)) /\ Queued(c, d)
               \/ UNCHANGED svc
        BY <2>3 DEF Enqueue
      <4>. QED  BY <4>1 DEF Asked
    <3>. QED  BY <3>1, <3>2, <3>3
  <2>. QED  BY <1>4, <2>1, <2>2, <2>3 DEF CallStep
<1>5. ASSUME NEW s \in Services, NEW w \in Workers, Exit(s, w) PROVE Still
  <2>1. UNCHANGED <<svc, retries, sends>>  BY <1>5 DEF Exit
  <2>2. ASSUME NEW r \in Services, NEW v \in Workers
        PROVE  /\ worker'[r][v].pc = "record" <=> worker[r][v].pc = "record"
               /\ worker[r][v].pc = "record" => worker'[r][v] = worker[r][v]
    <3>1. worker' = [worker EXCEPT ![s][w] = [worker[s][w] EXCEPT !.pc = "exit"]]  BY <1>1, <1>5 DEF Exit
    <3>2. [worker[s][w] EXCEPT !.pc = "exit"].pc = "exit"  BY <1>1 DEF Hands
    <3>. QED  BY <1>1, <1>5, <3>1, <3>2 DEF Exit
  <2>. QED  BY <2>1, <2>2 DEF Still, Recording
<1>6. CASE BeginStop
  <2>1. \A s \in Services : svc'[s].queue = svc[s].queue  BY <1>1, <1>6 DEF BeginStop, Svcs
  <2>. QED  BY <1>2, <1>6, <2>1 DEF BeginStop
<1>7. CASE CloseQueue
  <2>1. \A s \in Services : svc'[s].queue = svc[s].queue  BY <1>1, <1>7 DEF CloseQueue, Svcs
  <2>. QED  BY <1>2, <1>7, <2>1 DEF CloseQueue
<1>8. ASSUME NEW f, f \in [Services -> Svcs], \A s \in Services : f[s].queue = svc[s].queue,
             Replace, svc' = Made(f, global')
      PROVE  \A s \in Services : svc'[s].queue = svc[s].queue
  <2>1. global' # 0 => global' \in Services  BY <1>1, <1>8, NextService
  <2>. QED  BY <1>8, <2>1 DEF Made, Svcs
<1>9. CASE Finish
  <2> DEFINE f == [svc EXCEPT ![global].running = FALSE]
  <2>1. global \in Services  BY <1>1, <1>9 DEF Finish
  <2>2. f = [svc EXCEPT ![global] = [svc[global] EXCEPT !.running = FALSE]]  BY <1>1, <2>1
  <2>3. f \in [Services -> Svcs]  BY <1>1, <2>1, <2>2, SvcShapes
  <2>4. \A s \in Services : f[s].queue = svc[s].queue  BY <1>1, <2>1 DEF Svcs
  <2> HIDE DEF f
  <2>5. \A s \in Services : svc'[s].queue = svc[s].queue  BY <1>8, <1>9, <2>3, <2>4 DEF Finish, f
  <2>. QED  BY <1>2, <1>9, <2>5 DEF Finish
<1>10. CASE Renew
  <2>1. \A s \in Services : svc'[s].queue = svc[s].queue  BY <1>1, <1>8, <1>10 DEF Renew
  <2>. QED  BY <1>2, <1>10, <2>1 DEF Renew
<1>11. CASE \E r \in Requests : FindRow(r) \/ SaveRow(r) \/ Unregister(r)
  BY <1>2, <1>11 DEF FindRow, SaveRow, Unregister
<1>. QED  BY <1>3, <1>4, <1>5, <1>6, <1>7, <1>9, <1>10, <1>11 DEF Next, WorkStep, AdminStep, RetryStep

\* The queue after its first task was taken out.
LEMMA SendEffect ==
    ASSUME CoreType, NEW s \in Services, NEW w \in Workers, Send(s, w)
    PROVE  /\ At(s, 1) \in Tasks /\ 1 \in Slots(s)
           /\ \E ok \in BOOLEAN :
                 LET t == [At(s, 1) EXCEPT !.att = @ + 1] IN
                 /\ worker' = [worker EXCEPT ![s][w] = [pc |-> "record", task |-> t, ok |-> ok]]
                 /\ sends' = sends \cup {[task |-> t, ok |-> ok]}
           /\ UNCHANGED <<retries, call>>
           /\ \A i \in Slots(s)' : At(s, i)' = At(s, i + 1) /\ i + 1 \in Slots(s) /\ i \in Nat
           /\ \A r \in Services \ {s} : svc'[r] = svc[r]
           /\ \A r \in Services : svc'[r].processed = svc[r].processed
<1>1. svc \in [Services -> Svcs] /\ svc[s].queue # <<>>  BY DEF CoreType, Send
<1>2. svc'[s].queue = Tail(svc[s].queue) /\ \A r \in Services \ {s} : svc'[r] = svc[r]
  BY <1>1 DEF Send, Svcs
<1>3. \A r \in Services : svc'[r].processed = svc[r].processed  BY <1>1 DEF Send, Svcs
<1>4. \A i \in Slots(s)' : At(s, i)' = At(s, i + 1) /\ i + 1 \in Slots(s) /\ i \in Nat
  <2>1. Slots(s)' = 1..Len(Tail(svc[s].queue)) /\ \A i : At(s, i)' = Tail(svc[s].queue)[i]
    BY <1>2 DEF Slots, At
  <2>. QED  BY <1>1, <2>1, HeadOf
<1>5. Head(svc[s].queue) = At(s, 1) /\ At(s, 1) \in Tasks /\ 1 \in Slots(s)  BY <1>1, HeadOf
<1>. QED  BY <1>2, <1>3, <1>4, <1>5 DEF Send

-----------------------------------------------------------------------------
(* Trying: every attempt of a task before its last is on record as failed. *)

Failure(t, a) == [task |-> [t EXCEPT !.att = a], ok |-> FALSE]
Tried(t, S)   == \A a \in 1..t.att : Failure(t, a) \in S

TryInv ==
    /\ \A s \in Services : \A i \in Slots(s) : Tried(At(s, i), sends)
    /\ \A t \in retries : Tried(t, sends)
    /\ \A s \in Services, w \in Workers :
          Recording(s, w) /\ worker[s][w].ok = FALSE =>
              Tried(worker[s][w].task, sends) /\ worker[s][w].task.att > 0

\* What is on record stays there, and what was tried stays tried.
LEMMA SendsGrow ==
    ASSUME TypeInv, [Next]_vars
    PROVE  sends \subseteq sends' /\ \A t : Tried(t, sends) => Tried(t, sends')
<1>1. sends \subseteq sends'
  <2>1. ASSUME NEW s \in Services, NEW w \in Workers, Send(s, w) PROVE sends \subseteq sends'
    BY <2>1 DEF Send
  <2>2. \A c \in Conns : Enqueue(c) => UNCHANGED sends  BY DEF Enqueue
  <2>3. \A s \in Services, w \in Workers : Record(s, w) => UNCHANGED sends  BY DEF Record
  <2>4. \A t \in retries : Retry(t) => UNCHANGED sends  BY DEF Retry
  <2>5. Still => UNCHANGED sends  BY DEF Still
  <2>. QED  BY <2>1, <2>2, <2>3, <2>4, <2>5, Moves
<1>. QED  BY <1>1 DEF Tried

\* One more failure makes one more attempt.
LEMMA OneMore ==
    ASSUME NEW h \in Tasks, NEW S, Tried(h, S),
           NEW t, t = [h EXCEPT !.att = @ + 1]
    PROVE  /\ t \in Tasks /\ t.att > 0
           /\ [task |-> t, ok |-> FALSE] \in S => Tried(t, S)
<1>1. t \in Tasks /\ t.att = h.att + 1 /\ h.att \in Nat /\ t = [h EXCEPT !.att = t.att]  BY DEF Tasks
<1>2. \A a : Failure(t, a) = Failure(h, a)
  <2>1. \A a : [t EXCEPT !.att = a] = [h EXCEPT !.att = a]  BY DEF Tasks
  <2>. QED  BY <2>1 DEF Failure
<1>3. Failure(h, t.att) = [task |-> t, ok |-> FALSE]  BY <1>1 DEF Failure
<1>4. ASSUME [task |-> t, ok |-> FALSE] \in S, NEW a \in 1..t.att PROVE Failure(t, a) \in S
  <2>1. a = t.att \/ a \in 1..h.att  BY <1>1
  <2>. QED  BY <1>2, <1>3, <1>4, <2>1 DEF Tried
<1>. QED  BY <1>1, <1>4 DEF Tried

\* A task that was put is the new last one of its queue.
LEMMA PutSlots ==
    ASSUME CoreType, NEW s \in Services, NEW t \in Tasks, Put(s, t), NEW r \in Services, NEW i \in Slots(r)'
    PROVE  \/ r = s /\ i = Len(svc[s].queue) + 1 /\ At(r, i)' = t
           \/ i \in Slots(r) /\ At(r, i)' = At(r, i)
<1>1. CASE r = s
  <2>1. i \in Slots(s)' /\ At(r, i)' = At(s, i)' /\ At(r, i) = At(s, i)  BY <1>1 DEF Slots, At
  <2>2. At(s, i)' = svc'[s].queue[i]  BY DEF At
  <2>. QED  BY <1>1, <2>1, <2>2, PutEffect
<1>2. CASE r # s
  <2>1. svc'[r] = svc[r]  BY <1>2, PutEffect
  <2>. QED  BY <2>1 DEF Slots, At
<1>. QED  BY <1>1, <1>2

\* Every place of a queue after a send was a place before it.
LEMMA SendSlots ==
    ASSUME CoreType, NEW s \in Services, NEW w \in Workers, Send(s, w), NEW r \in Services, NEW i \in Slots(r)'
    PROVE  \/ r = s /\ i \in Nat /\ i + 1 \in Slots(r) /\ At(r, i)' = At(r, i + 1)
           \/ r # s /\ i \in Slots(r) /\ At(r, i)' = At(r, i)
<1>1. CASE r = s
  <2>1. i \in Slots(s)' /\ At(r, i)' = At(s, i)' /\ At(r, i + 1) = At(s, i + 1)  BY <1>1 DEF Slots, At
  <2>. QED  BY <1>1, <2>1, SendEffect
<1>2. CASE r # s
  <2>1. svc'[r] = svc[r]  BY <1>2, SendEffect
  <2>. QED  BY <1>2, <2>1 DEF Slots, At
<1>. QED  BY <1>1, <1>2

\* A worker that is done with its task, which waits to be retried, or not.
LEMMA RecordEffect ==
    ASSUME CoreType, NEW s \in Services, NEW w \in Workers, Record(s, w)
    PROVE  /\ UNCHANGED <<svc, sends, call>> /\ Recording(s, w) /\ ~Recording(s, w)'
           /\ \A r \in Services, v \in Workers : Recording(r, v)' =>
                 Recording(r, v) /\ worker'[r][v] = worker[r][v] /\ ~(r = s /\ v = w)
           /\ \A q \in retries' : q \in retries \/ (q = worker[s][w].task /\ worker[s][w].ok = FALSE)
           /\ retries \subseteq retries'
<1>1. worker' = [worker EXCEPT ![s][w] = AtRest] /\ AtRest.pc = "idle"  BY DEF Record, AtRest
<1>2. worker[s][w].ok \in BOOLEAN  BY DEF CoreType, Hands
<1>3. \/ UNCHANGED retries
      \/ ~worker[s][w].ok /\ retries' = retries \cup {worker[s][w].task}
  BY DEF Record
<1>4. UNCHANGED <<svc, sends, call>> /\ Recording(s, w)  BY DEF Record, Recording
<1>5. /\ worker'[s][w] = AtRest
      /\ \A r \in Services, v \in Workers : ~(r = s /\ v = w) => worker'[r][v] = worker[r][v]
  <2>1. worker \in [Services -> [Workers -> Hands]]  BY DEF CoreType
  <2>. QED  BY <1>1, <2>1
<1>6. ASSUME NEW r \in Services, NEW v \in Workers, worker'[r][v].pc = "record"
      PROVE  worker[r][v].pc = "record" /\ worker'[r][v] = worker[r][v] /\ ~(r = s /\ v = w)
  <2>1. ~(r = s /\ v = w)  BY <1>1, <1>5, <1>6
  <2>. QED  BY <1>5, <1>6, <2>1
<1>7. ~Recording(s, w)'  BY <1>1, <1>5 DEF Recording
<1>8. \A r \in Services, v \in Workers : Recording(r, v)' =>
         Recording(r, v) /\ worker'[r][v] = worker[r][v] /\ ~(r = s /\ v = w)
  BY <1>6 DEF Recording
<1>9. /\ \A q \in retries' : q \in retries \/ (q = worker[s][w].task /\ worker[s][w].ok = FALSE)
      /\ retries \subseteq retries'
  BY <1>2, <1>3
<1>. QED  BY <1>4, <1>7, <1>8, <1>9

\* Every step keeps TryInv.
LEMMA TryNext == TypeInv /\ TryInv /\ [Next]_vars => TryInv'
<1> SUFFICES ASSUME TypeInv, TryInv, [Next]_vars PROVE TryInv'  OBVIOUS
<1>0. CoreType /\ CallInv /\ TaskInv  BY DEF TypeInv
<1>1. ASSUME UNCHANGED retries, \A s \in Services, w \in Workers : Recording(s, w)' =>
                Recording(s, w) /\ worker'[s][w] = worker[s][w],
             \A s \in Services : \A i \in Slots(s)' : Tried(At(s, i)', sends')
      PROVE  TryInv'
  <2>1. \A t \in retries' : Tried(t, sends')  BY <1>1, SendsGrow DEF TryInv
  <2>2. \A s \in Services, w \in Workers : Recording(s, w)' /\ worker'[s][w].ok = FALSE =>
           Tried(worker'[s][w].task, sends') /\ worker'[s][w].task.att > 0
    BY <1>1, SendsGrow DEF TryInv
  <2>. QED  BY <1>1, <2>1, <2>2 DEF TryInv
<1>2. CASE Still
  <2>1. \A s \in Services : \A i \in Slots(s)' : Tried(At(s, i)', sends')
    BY <1>2, SendsGrow DEF Still, Slots, At, TryInv
  <2>. QED  BY <1>1, <1>2, <2>1 DEF Still
<1>3. ASSUME NEW c \in Conns, Enqueue(c), NEW d \in call[c].todo, Asked(c, d) PROVE TryInv'
  <2>1. PICK s \in Services, t \in Tasks : Put(s, t) /\ t.att = 0
    <3>1. call[c].svc \in Services /\ call[c].pos <= Len(Script[c])  BY <1>0, <1>3 DEF Enqueue, CallInv
    <3>2. NewTask(c, d) \in Tasks  BY <1>0, <3>1, EventTyped
    <3>3. NewTask(c, d).att = 0 /\ Put(call[c].svc, NewTask(c, d))  BY <1>3 DEF Asked, NewTask
    <3>. QED  BY <3>1, <3>2, <3>3
  <2>2. Tried(t, sends')  BY <2>1 DEF Tried
  <2>3. UNCHANGED <<retries, worker>>  BY <1>3 DEF Enqueue
  <2>4. \A r \in Services : \A i \in Slots(r)' : Tried(At(r, i)', sends')
    BY <1>0, <2>1, <2>2, PutSlots, SendsGrow DEF TryInv
  <2>. QED  BY <1>1, <2>3, <2>4 DEF Recording
<1>4. ASSUME NEW s \in Services, NEW w \in Workers, Send(s, w) PROVE TryInv'
  <2>0. At(s, 1) \in Tasks /\ [At(s, 1) EXCEPT !.att = @ + 1] \in Tasks  BY <1>0, <1>4, SendEffect, TaskShapes
  <2>1. PICK t \in Tasks, ok \in BOOLEAN :
           /\ t = [At(s, 1) EXCEPT !.att = @ + 1]
           /\ worker' = [worker EXCEPT ![s][w] = [pc |-> "record", task |-> t, ok |-> ok]]
           /\ sends' = sends \cup {[task |-> t, ok |-> ok]}
    BY <1>0, <1>4, <2>0, SendEffect
  <2>2. At(s, 1) \in Tasks /\ 1 \in Slots(s)  BY <1>0, <1>4, SendEffect
  <2>3. Tried(At(s, 1), sends')  BY <2>2, SendsGrow DEF TryInv
  <2>4. t.att > 0 /\ (ok = FALSE => Tried(t, sends'))  BY <2>1, <2>2, <2>3, OneMore
  <2>5. \A r \in Services : \A i \in Slots(r)' : Tried(At(r, i)', sends')
    <3> SUFFICES ASSUME NEW r \in Services, NEW i \in Slots(r)' PROVE Tried(At(r, i)', sends')  OBVIOUS
    <3>1. PICK j \in Slots(r) : At(r, i)' = At(r, j)  BY <1>0, <1>4, SendSlots
    <3>. QED  BY <3>1, SendsGrow DEF TryInv
  <2>6. \A q \in retries' : Tried(q, sends')  BY <1>0, <1>4, SendEffect, SendsGrow DEF TryInv
  <2>7. ASSUME NEW r \in Services, NEW v \in Workers, Recording(r, v)', worker'[r][v].ok = FALSE
        PROVE  Tried(worker'[r][v].task, sends') /\ worker'[r][v].task.att > 0
    <3>1. CASE r = s /\ v = w
      <4>1. worker'[r][v] = [pc |-> "record", task |-> t, ok |-> ok]  BY <1>0, <2>1, <3>1 DEF CoreType
      <4>. QED  BY <2>4, <2>7, <4>1
    <3>2. CASE ~(r = s /\ v = w)
      <4>1. worker'[r][v] = worker[r][v]  BY <1>0, <2>1, <3>2 DEF CoreType
      <4>. QED  BY <2>7, <4>1, SendsGrow DEF TryInv, Recording
    <3>. QED  BY <3>1, <3>2
  <2>. QED  BY <2>5, <2>6, <2>7 DEF TryInv
<1>5. ASSUME NEW s \in Services, NEW w \in Workers, Record(s, w) PROVE TryInv'
  <2>1. \A q \in retries' : Tried(q, sends')
    <3> SUFFICES ASSUME NEW q \in retries' PROVE Tried(q, sends')  OBVIOUS
    <3>1. q \in retries \/ (q = worker[s][w].task /\ worker[s][w].ok = FALSE /\ Recording(s, w))
      BY <1>0, <1>5, RecordEffect
    <3>. QED  BY <3>1, SendsGrow DEF TryInv
  <2>2. \A r \in Services : \A i \in Slots(r)' : Tried(At(r, i)', sends')
    <3>1. UNCHANGED svc  BY <1>0, <1>5, RecordEffect
    <3>2. \A r \in Services : Slots(r)' = Slots(r) /\ \A i : At(r, i)' = At(r, i)  BY <3>1 DEF Slots, At
    <3>. QED  BY <3>2, SendsGrow DEF TryInv
  <2>3. \A r \in Services, v \in Workers : Recording(r, v)' => Recording(r, v) /\ worker'[r][v] = worker[r][v]
    BY <1>0, <1>5, RecordEffect
  <2>4. \A r \in Services, v \in Workers : Recording(r, v)' /\ worker'[r][v].ok = FALSE =>
           Tried(worker'[r][v].task, sends') /\ worker'[r][v].task.att > 0
    BY <2>3, SendsGrow DEF TryInv
  <2>. QED  BY <2>1, <2>2, <2>4 DEF TryInv
<1>6. ASSUME NEW t \in retries, Retry(t) PROVE TryInv'
  <2>1. t \in Tasks /\ t.svc \in Services  BY <1>0 DEF CoreType, Tasks
  <2>2. UNCHANGED worker /\ retries' \subseteq retries  BY <1>6 DEF Retry
  <2>3. \A r \in Services : \A i \in Slots(r)' : Tried(At(r, i)', sends')
    <3>1. CASE Put(t.svc, t)
      <4>1. Tried(t, sends')  BY SendsGrow DEF TryInv
      <4>. QED  BY <1>0, <2>1, <3>1, <4>1, PutSlots, SendsGrow DEF TryInv
    <3>2. CASE UNCHANGED svc  BY <3>2, SendsGrow DEF At, Slots, TryInv
    <3>. QED  BY <1>6, <3>1, <3>2 DEF Retry
  <2>4. \A q \in retries' : Tried(q, sends')  BY <2>2, SendsGrow DEF TryInv
  <2>5. \A r \in Services, v \in Workers : Recording(r, v)' /\ worker'[r][v].ok = FALSE =>
           Tried(worker'[r][v].task, sends') /\ worker'[r][v].task.att > 0
    BY <2>2, SendsGrow DEF TryInv, Recording
  <2>. QED  BY <2>3, <2>4, <2>5 DEF TryInv
<1>. QED  BY <1>2, <1>3, <1>4, <1>5, <1>6, Moves

\* A task for that phone has used up its attempts.
GaveUp(tok, S) == \E x \in S : TokenOf[x.task.dev] = tok /\ x.task.att >= RetryAttempts /\ Tried(x.task, S)

\* A row is switched off by the last of a task's failures only.
LEMMA SwitchedOff ==
    ASSUME TypeInv, TryInv, [Next]_vars, NEW d \in Devices, NEW r \in rows'[d], ~r.on
    PROVE  (\E q \in rows[d] : ~q.on) \/ GaveUp(TokenOf[d], sends')
<1>0. CoreType /\ RowType /\ TaskInv  BY DEF TypeInv
<1>1. ASSUME NEW s \in Services, NEW w \in Workers, Record(s, w)
      PROVE  (\E q \in rows[d] : ~q.on) \/ GaveUp(TokenOf[d], sends')
  <2> DEFINE t == worker[s][w].task
  <2>1. CASE UNCHANGED rows  BY <2>1
  <2>2. CASE ~UNCHANGED rows
    <3>1. rows' = SwitchOff(TokenOf[t.dev]) /\ ~Again(t) /\ ~worker[s][w].ok /\ UNCHANGED sends /\ Recording(s, w)
      BY <1>1, <2>2 DEF Record, Recording
    <3>2. CASE TokenOf[d] # TokenOf[t.dev]
      <4>1. rows'[d] = rows[d]  BY <3>1, <3>2 DEF SwitchOff
      <4>. QED  BY <4>1
    <3>3. CASE TokenOf[d] = TokenOf[t.dev]
      <4>1. t \in Tasks  BY <1>0, <3>1 DEF TaskInv
      <4>2. Tried(t, sends) /\ t.att > 0
        <5>1. worker[s][w].ok = FALSE  BY <1>0, <3>1 DEF CoreType, Hands
        <5>. QED  BY <3>1, <5>1 DEF TryInv
      <4>3. t.att \in Nat /\ [t EXCEPT !.att = t.att] = t  BY <4>1 DEF Tasks
      <4>4. t.att >= RetryAttempts  BY <3>1, <4>3, PushAssumption DEF Again
      <4> HIDE DEF t
      <4>5. Failure(t, t.att) \in sends  BY <4>2, <4>3 DEF Tried
      <4>6. Failure(t, t.att).task = t  BY <4>3 DEF Failure
      <4>. QED  BY <3>1, <3>3, <4>2, <4>4, <4>5, <4>6 DEF GaveUp
    <3>. QED  BY <3>2, <3>3
  <2>. QED  BY <2>1, <2>2
<1>2. ASSUME NEW a \in Requests, SaveRow(a) PROVE \E q \in rows[d] : ~q.on
  <2>1. a.dev \in Devices  BY PushAssumption
  <2>2. PICK id : rows' = [rows EXCEPT ![a.dev] = {x \in rows[a.dev] : x.id # id} \cup {[id |-> id, on |-> TRUE]}]
    BY <1>2 DEF SaveRow
  <2>3. CASE d = a.dev
    <3>1. rows'[d] = {x \in rows[d] : x.id # id} \cup {[id |-> id, on |-> TRUE]}  BY <1>0, <2>1, <2>2, <2>3 DEF RowType
    <3>. QED  BY <3>1
  <2>4. CASE d # a.dev
    <3>1. rows'[d] = rows[d]  BY <1>0, <2>2, <2>4 DEF RowType
    <3>. QED  BY <3>1
  <2>. QED  BY <2>3, <2>4
<1>3. ASSUME NEW a \in Requests, Unregister(a) PROVE \E q \in rows[d] : ~q.on
  <2>1. rows'[d] = {} \/ rows'[d] = rows[d]  BY <1>0, <1>3, PushAssumption DEF Unregister, RowType
  <2>. QED  BY <2>1
<1>4. ASSUME UNCHANGED rows PROVE \E q \in rows[d] : ~q.on  BY <1>4
<1>5. ASSUME NEW c \in Conns, CallStep(c) PROVE UNCHANGED rows
  BY <1>5 DEF CallStep, GetService, Check, Mark, NextUser, Enqueue, table
<1>6. ASSUME NEW s \in Services, NEW w \in Workers, Send(s, w) \/ Exit(s, w) PROVE UNCHANGED rows
  BY <1>6 DEF Send, Exit, table
<1>7. ASSUME \/ \E t \in retries : Retry(t)
             \/ BeginStop \/ CloseQueue \/ Finish \/ Renew
             \/ \E a \in Requests : FindRow(a)
             \/ UNCHANGED vars
      PROVE  UNCHANGED rows
  BY <1>7 DEF Retry, BeginStop, CloseQueue, Finish, Renew, FindRow, vars, table
<1>. QED  BY <1>1, <1>2, <1>3, <1>4, <1>5, <1>6, <1>7 DEF Next, WorkStep, RetryStep, AdminStep

OffInv == \A d \in Devices : \A r \in rows[d] : ~r.on => GaveUp(TokenOf[d], sends)

LEMMA OffNext == TypeInv /\ TryInv /\ OffInv /\ [Next]_vars => OffInv'
<1> SUFFICES ASSUME TypeInv, TryInv, OffInv, [Next]_vars, NEW d \in Devices, NEW r \in rows'[d], ~r.on
             PROVE  GaveUp(TokenOf[d], sends')
  BY DEF OffInv
<1>1. CASE GaveUp(TokenOf[d], sends')  BY <1>1
<1>2. CASE \E q \in rows[d] : ~q.on
  <2>1. GaveUp(TokenOf[d], sends)  BY <1>2 DEF OffInv
  <2>2. sends \subseteq sends' /\ \A t : Tried(t, sends) => Tried(t, sends')  BY SendsGrow
  <2>. QED  BY <2>1, <2>2 DEF GaveUp
<1>. QED  BY <1>1, <1>2, SwitchedOff

\* A phone is switched off only after a notification to it failed in every one
\* of the configured attempts.
THEOREM SwitchOffJustified == Spec => []OffAfterAll
<1>1. Init => TryInv /\ OffInv
  <2> SUFFICES ASSUME Init PROVE TryInv /\ OffInv  OBVIOUS
  <2>1. \A s \in Services : Slots(s) = {}
    <3> SUFFICES ASSUME NEW s \in Services PROVE Slots(s) = {}  OBVIOUS
    <3>1. svc[s] = [Unmade EXCEPT !.running = (s = 1)]  BY DEF Init
    <3>2. svc[s].queue = <<>>  BY <3>1 DEF Unmade
    <3>. QED  BY <3>2 DEF Slots
  <2>2. \A s \in Services, w \in Workers : ~Recording(s, w)  BY DEF Init, Recording, AtRest
  <2>. QED  BY <2>1, <2>2 DEF Init, TryInv, OffInv
<1>2. OffInv => OffAfterAll
  BY DEF OffInv, GaveUp, OffAfterAll, Tried, Failure
<1>3. Spec => [](TypeInv /\ TryInv /\ OffInv)
  BY <1>1, TypeInit, TypeNext, TryNext, OffNext, PTL DEF Spec
<1>. QED  BY <1>2, <1>3, PTL

-----------------------------------------------------------------------------
(* Once: an event is marked before there is a task for it, and a device is *)
(* done with when there is one for it.                                     *)

\* Connections that share no event, and a service that forgets none.
Distinct   == \A c, d \in Conns : c # d =>
                 \A i \in 1..Len(Script[c]), j \in 1..Len(Script[d]) : Script[c][i] # Script[d][j]
Remembered == IsFiniteSet(Events) /\ Cardinality(Events) <= MaxIDs

Key(t) == [svc |-> t.svc, ev |-> t.ev, dev |-> t.dev, row |-> t.row]

\* What a call has found out, and what it has still to do.
FindInv == \A c \in Conns :
    /\ call[c].pc = "mark" => EventAt(c) \notin svc[call[c].svc].processed
    /\ Finding(c) => EventAt(c) \in svc[call[c].svc].processed
    /\ call[c].pc = "send" => \A d \in call[c].todo : OwnerOf[d.dev] \notin call[c].left

\* No call will make another task of this key.
Settled(k, ss, cs) ==
    /\ k.ev \in ss[k.svc].processed
    /\ \A c \in Conns :
          cs[c].pc \in {"users", "send"} /\ cs[c].svc = k.svc /\ Script[c][cs[c].pos] = k.ev =>
              /\ OwnerOf[k.dev] \notin cs[c].left
              /\ cs[c].pc = "send" => [dev |-> k.dev, row |-> k.row] \notin cs[c].todo

SettledInv ==
    /\ \A s \in Services : \A i \in Slots(s) : Settled(Key(At(s, i)), svc, call)
    /\ \A t \in retries : Settled(Key(t), svc, call)
    /\ \A s \in Services, w \in Workers : Recording(s, w) => Settled(Key(worker[s][w].task), svc, call)
    /\ \A x \in sends : Settled(Key(x.task), svc, call)

\* An id more is remembered with all the others.
LEMMA RememberAll ==
    ASSUME Remembered, NEW P \in SUBSET Events, NEW e \in Events
    PROVE  Remember(P, e) = P \cup {e}
<1>1. P \cup {e} \subseteq Events  OBVIOUS
<1>2. Cardinality(P \cup {e}) <= Cardinality(Events) /\ Cardinality(P \cup {e}) \in Nat /\ Cardinality(Events) \in Nat
  BY <1>1, FS_Subset, FS_CardinalityType DEF Remembered
<1>3. ~(Cardinality(P \cup {e}) > MaxIDs)  BY <1>2, PushAssumption DEF Remembered
<1>. QED  BY <1>3 DEF Remember

\* What each step of a call does to it.
LEMMA CallEffect ==
    ASSUME TypeInv, NEW c \in Conns, CallStep(c)
    PROVE  \E k : /\ call'[c] = k /\ \A b \in Conns \ {c} : call'[b] = call[b]
                  /\ k.pc \notin {"idle", "check"} =>
                        /\ k.svc = call[c].svc /\ k.pos = call[c].pos
                        /\ k.pc \in {"mark", "users", "send"}
                  /\ \/ k.pc \in {"idle", "check"}
                     \/ Check(c) /\ k.pc = "mark" /\ EventAt(c) \notin svc[call[c].svc].processed
                     \/ Mark(c) /\ k.pc = "users"
                     \/ /\ NextUser(c) /\ k.pc \in {"users", "send"}
                        /\ \E u \in call[c].left : k.left = call[c].left \ {u} /\ k.todo = ActiveRows(u)
                     \/ /\ Enqueue(c) /\ k.pc \in {"users", "send"}
                        /\ k.left = call[c].left
                        /\ \E d \in call[c].todo : k.todo = call[c].todo \ {d}
<1> DEFINE Goal(k) ==
       /\ k.pc \notin {"idle", "check"} =>
             /\ k.svc = call[c].svc /\ k.pos = call[c].pos
             /\ k.pc \in {"mark", "users", "send"}
       /\ \/ k.pc \in {"idle", "check"}
          \/ Check(c) /\ k.pc = "mark" /\ EventAt(c) \notin svc[call[c].svc].processed
          \/ Mark(c) /\ k.pc = "users"
          \/ /\ NextUser(c) /\ k.pc \in {"users", "send"}
             /\ \E u \in call[c].left : k.left = call[c].left \ {u} /\ k.todo = ActiveRows(u)
          \/ /\ Enqueue(c) /\ k.pc \in {"users", "send"}
             /\ k.left = call[c].left
             /\ \E d \in call[c].todo : k.todo = call[c].todo \ {d}
<1>0. call \in [Conns -> Calls] /\ call[c] \in Calls  BY DEF TypeInv, CoreType
<1> SUFFICES \E k : call' = [call EXCEPT ![c] = k] /\ Goal(k)
  <2> HIDE DEF Goal
  <2>1. ASSUME NEW k, call' = [call EXCEPT ![c] = k], Goal(k)
        PROVE  call'[c] = k /\ \A b \in Conns \ {c} : call'[b] = call[b]
    BY <1>0, <2>1
  <2>2. (\E k : call' = [call EXCEPT ![c] = k] /\ Goal(k)) =>
           \E k : call'[c] = k /\ (\A b \in Conns \ {c} : call'[b] = call[b]) /\ Goal(k)
    BY <2>1
  <2>. QED  BY <2>2 DEF Goal
<1>1. ASSUME NEW k, call' = [call EXCEPT ![c] = k], Goal(k) PROVE \E q : call' = [call EXCEPT ![c] = q] /\ Goal(q)
  <2> HIDE DEF Goal
  <2>. QED  BY <1>1
<1>2. CASE EndCall(c)
  <2>1. [NoCall EXCEPT !.pos = call[c].pos + 1].pc = "idle"  BY DEF NoCall
  <2>. QED  BY <1>1, <1>2, <2>1 DEF EndCall
<1>3. CASE LoseConn(c)
  <2>1. [NoCall EXCEPT !.pos = Len(Script[c]) + 1].pc = "idle"  BY DEF NoCall
  <2>. QED  BY <1>1, <1>3, <2>1 DEF LoseConn
<1>4. CASE GetService(c) /\ ~EndCall(c)
  <2> DEFINE k == [call[c] EXCEPT !.pc = "check", !.svc = global]
  <2>1. call' = [call EXCEPT ![c] = k]  BY <1>0, <1>4 DEF GetService
  <2>2. k.pc = "check"  BY <1>0 DEF Calls
  <2> HIDE DEF k
  <2>. QED  BY <1>1, <2>1, <2>2
<1>5. CASE Check(c) /\ ~EndCall(c)
  <2> DEFINE k == [call[c] EXCEPT !.pc = "mark"]
  <2>1. call' = [call EXCEPT ![c] = k] /\ EventAt(c) \notin svc[call[c].svc].processed
    BY <1>0, <1>5 DEF Check, Known
  <2>2. k.pc = "mark" /\ k.svc = call[c].svc /\ k.pos = call[c].pos  BY <1>0 DEF Calls
  <2> HIDE DEF k
  <2>. QED  BY <1>1, <1>5, <2>1, <2>2
<1>6. CASE Mark(c) /\ ~EndCall(c)
  <2> DEFINE L == Recipients(EventAt(c)) \ {AuthorOf[EventAt(c)]}
             k == [call[c] EXCEPT !.pc = "users", !.left = L]
  <2>1. call' = [call EXCEPT ![c] = k]  BY <1>0, <1>6 DEF Mark
  <2> HIDE DEF L
  <2>2. k.pc = "users" /\ k.svc = call[c].svc /\ k.pos = call[c].pos  BY <1>0 DEF Calls
  <2> HIDE DEF k
  <2>. QED  BY <1>1, <1>6, <2>1, <2>2
<1>7. CASE NextUser(c) /\ ~EndCall(c)
  <2>1. PICK u \in call[c].left :
           call' = [call EXCEPT ![c].left = @ \ {u}, ![c].todo = ActiveRows(u),
                                ![c].pc = IF ActiveRows(u) = {} THEN "users" ELSE "send"]
    BY <1>7 DEF NextUser
  <2> DEFINE pc == IF ActiveRows(u) = {} THEN "users" ELSE "send"
             L  == call[c].left \ {u}
             T  == ActiveRows(u)
             k  == [call[c] EXCEPT !.left = L, !.todo = T, !.pc = pc]
  <2>2. call' = [call EXCEPT ![c] = k] /\ pc \in {"users", "send"}  BY <1>0, <2>1
  <2>3. L = call[c].left \ {u} /\ T = ActiveRows(u)  OBVIOUS
  <2> HIDE DEF L, T, pc
  <2>4. k.pc = pc /\ k.svc = call[c].svc /\ k.pos = call[c].pos /\ k.left = L /\ k.todo = T
    BY <1>0 DEF Calls
  <2> HIDE DEF k
  <2>. QED  BY <1>1, <1>7, <2>2, <2>3, <2>4
<1>8. CASE Enqueue(c) /\ ~EndCall(c) /\ ~LoseConn(c)
  <2>1. PICK d \in call[c].todo : Queued(c, d)  BY <1>8 DEF Enqueue
  <2> DEFINE T  == call[c].todo \ {d}
             pc == IF call[c].todo = {d} THEN "users" ELSE "send"
             k  == [call[c] EXCEPT !.todo = T, !.pc = pc]
  <2>2. call' = [call EXCEPT ![c] = k] /\ pc \in {"users", "send"}  BY <1>0, <2>1 DEF Queued
  <2>3. T = call[c].todo \ {d}  OBVIOUS
  <2> HIDE DEF T, pc
  <2>4. k.pc = pc /\ k.svc = call[c].svc /\ k.pos = call[c].pos /\ k.left = call[c].left /\ k.todo = T
    BY <1>0 DEF Calls
  <2> HIDE DEF k
  <2>. QED  BY <1>1, <1>8, <2>2, <2>3, <2>4
<1>. QED  BY <1>2, <1>3, <1>4, <1>5, <1>6, <1>7, <1>8 DEF CallStep

\* Only Mark changes the ids of a service, and it adds one.
LEMMA MarkEffect ==
    ASSUME TypeInv, Remembered, NEW c \in Conns, Mark(c)
    PROVE  /\ call[c].svc \in Services /\ EventAt(c) \in Events
           /\ svc'[call[c].svc].processed = svc[call[c].svc].processed \cup {EventAt(c)}
           /\ \A s \in Services \ {call[c].svc} : svc'[s].processed = svc[s].processed
<1>1. call[c].svc \in Services /\ call[c].pos <= Len(Script[c]) /\ svc \in [Services -> Svcs]
  BY DEF TypeInv, CoreType, CallInv, Mark
<1>2. EventAt(c) \in Events  BY <1>1, EventTyped DEF TypeInv
<1>3. svc[call[c].svc].processed \in SUBSET Events  BY <1>1 DEF Svcs
<1>4. svc'[call[c].svc].processed = Remember(svc[call[c].svc].processed, EventAt(c))
  BY <1>1 DEF Mark, Svcs
<1>5. \A s \in Services \ {call[c].svc} : svc'[s].processed = svc[s].processed  BY <1>1 DEF Mark
<1>. QED  BY <1>1, <1>2, <1>3, <1>4, <1>5, RememberAll

LEMMA ProcessedKept ==
    ASSUME TypeInv, [Next]_vars
    PROVE  (\E c \in Conns : Mark(c)) \/ \A s \in Services : svc'[s].processed = svc[s].processed
<1> DEFINE Kept == \A s \in Services : svc'[s].processed = svc[s].processed
<1>1. /\ svc \in [Services -> Svcs] /\ CoreType
      /\ global # 0 => global \in Services
      /\ admin # "idle" => global # 0
  BY PushAssumption DEF TypeInv, CoreType, Services
<1>2. ASSUME UNCHANGED svc PROVE Kept  BY <1>2
<1>3. ASSUME NEW s \in Services, NEW t, Put(s, t) PROVE Kept  BY <1>1, <1>3 DEF Put, Svcs
<1>4. ASSUME NEW c \in Conns, CallStep(c), ~Mark(c) PROVE Kept
  <2>1. CASE GetService(c) \/ Check(c) \/ NextUser(c)
    <3>1. UNCHANGED svc  BY <2>1 DEF GetService, Check, NextUser
    <3>. QED  BY <1>2, <3>1
  <2>2. CASE Enqueue(c)
    <3>1. call[c].svc \in Services  BY <2>2 DEF Enqueue, TypeInv, CallInv
    <3>2. (\E d \in call[c].todo : Put(call[c].svc, NewTask(c, d))) \/ UNCHANGED svc  BY <2>2 DEF Enqueue
    <3>. QED  BY <1>2, <1>3, <3>1, <3>2
  <2>. QED  BY <1>4, <2>1, <2>2 DEF CallStep
<1>5. ASSUME NEW s \in Services, NEW w \in Workers, WorkStep(s, w) PROVE Kept
  <2>1. CASE Send(s, w)  BY <1>1, <2>1, SendEffect
  <2>2. CASE Record(s, w) \/ Exit(s, w)  BY <1>2, <2>2 DEF Record, Exit
  <2>. QED  BY <1>5, <2>1, <2>2 DEF WorkStep
<1>6. ASSUME NEW t \in retries, Retry(t) PROVE Kept
  <2>1. t.svc \in Services  BY DEF TypeInv, CoreType, Tasks
  <2>. QED  BY <1>2, <1>3, <1>6, <2>1 DEF Retry
<1>7. CASE BeginStop  BY <1>1, <1>7 DEF BeginStop, Svcs
<1>8. CASE CloseQueue  BY <1>1, <1>8 DEF CloseQueue, Svcs
<1>9. ASSUME NEW f, f \in [Services -> Svcs], \A s \in Services : f[s].processed = svc[s].processed,
             Replace, svc' = Made(f, global')
      PROVE  Kept
  <2>1. global' # 0 => global' \in Services  BY <1>1, <1>9, NextService
  <2>. QED  BY <1>9, <2>1 DEF Made, Svcs
<1>10. CASE Finish
  <2> DEFINE f == [svc EXCEPT ![global].running = FALSE]
  <2>1. global \in Services  BY <1>1, <1>10 DEF Finish
  <2>2. f = [svc EXCEPT ![global] = [svc[global] EXCEPT !.running = FALSE]]  BY <1>1, <2>1
  <2>3. f \in [Services -> Svcs]  BY <1>1, <2>1, <2>2, SvcShapes
  <2>4. \A s \in Services : f[s].processed = svc[s].processed  BY <1>1, <2>1 DEF Svcs
  <2> HIDE DEF f
  <2>. QED  BY <1>9, <1>10, <2>3, <2>4 DEF Finish, f
<1>11. CASE Renew  BY <1>1, <1>9, <1>11 DEF Renew
<1>12. CASE \E r \in Requests : FindRow(r) \/ SaveRow(r) \/ Unregister(r)
  BY <1>2, <1>12 DEF FindRow, SaveRow, Unregister
<1>13. CASE UNCHANGED vars  BY <1>2, <1>13 DEF vars
<1>. QED  BY <1>4, <1>5, <1>6, <1>7, <1>8, <1>10, <1>11, <1>12, <1>13 DEF Next, AdminStep, RetryStep

\* Only a call's own steps change it.
LEMMA CallKept ==
    ASSUME [Next]_vars
    PROVE  (\E c \in Conns : CallStep(c)) \/ UNCHANGED call
<1>1. ASSUME NEW s \in Services, NEW w \in Workers, WorkStep(s, w) PROVE UNCHANGED call
  BY <1>1 DEF WorkStep, Send, Record, Exit
<1>2. RetryStep \/ BeginStop \/ AdminStep \/ Renew \/ UNCHANGED vars => UNCHANGED call
  BY DEF RetryStep, Retry, BeginStop, AdminStep, CloseQueue, Finish, Renew, vars
<1>3. ASSUME NEW r \in Requests, FindRow(r) \/ SaveRow(r) \/ Unregister(r) PROVE UNCHANGED call
  BY <1>3 DEF FindRow, SaveRow, Unregister
<1>. QED  BY <1>1, <1>2, <1>3 DEF Next

\* The calls of two connections are about different events.
LEMMA OtherEvent ==
    ASSUME TypeInv, Distinct, NEW b \in Conns, NEW c \in Conns \ {b}, call[b].pc # "idle", call[c].pc # "idle"
    PROVE  EventAt(b) # EventAt(c)
<1>1. /\ call[b].pos \in 1..Len(Script[b]) /\ call[c].pos \in 1..Len(Script[c])
  BY PushAssumption DEF TypeInv, CoreType, CallInv, Calls
<1>. QED  BY <1>1 DEF Distinct, EventAt

\* Every step keeps FindInv.
LEMMA FindNext == Distinct /\ Remembered /\ TypeInv /\ FindInv /\ [Next]_vars => FindInv'
<1> SUFFICES ASSUME Distinct, Remembered, TypeInv, FindInv, [Next]_vars PROVE FindInv'  OBVIOUS
<1> DEFINE Found(b, k, f) ==
             LET e == Script[b][k.pos] IN
             /\ k.pc = "mark" => e \notin f[k.svc].processed
             /\ k.pc \in {"users", "send"} => e \in f[k.svc].processed
             /\ k.pc = "send" => \A d \in k.todo : OwnerOf[d.dev] \notin k.left
<1>1. (\A b \in Conns : Found(b, call'[b], svc')) => FindInv'  BY DEF FindInv, Finding, EventAt
<1>2. \A b \in Conns : Found(b, call[b], svc)  BY DEF FindInv, Finding, EventAt
<1>3. \A b \in Conns : call[b].pc # "idle" => call[b].svc \in Services  BY DEF TypeInv, CallInv
<1>4. ASSUME UNCHANGED call, \A s \in Services : svc'[s].processed = svc[s].processed, NEW b \in Conns
      PROVE  Found(b, call'[b], svc')
  <2>1. Found(b, call[b], svc)  BY <1>2
  <2>. QED  BY <1>3, <1>4, <2>1
<1>5. ASSUME NEW c \in Conns, Mark(c), NEW b \in Conns PROVE Found(b, call'[b], svc')
  <2>1. PICK k : /\ call'[c] = k /\ \A a \in Conns \ {c} : call'[a] = call[a]
                 /\ k.pc \notin {"idle", "check"} => k.svc = call[c].svc /\ k.pos = call[c].pos
                 /\ k.pc \in {"idle", "check", "users"}
    <3>1. CallStep(c) /\ ~Check(c) /\ ~NextUser(c) /\ ~Enqueue(c)
      BY <1>5 DEF CallStep, Mark, Check, NextUser, Enqueue
    <3>. QED  BY <3>1, CallEffect
  <2>2. /\ svc'[call[c].svc].processed = svc[call[c].svc].processed \cup {EventAt(c)}
        /\ \A s \in Services \ {call[c].svc} : svc'[s].processed = svc[s].processed
    BY <1>5, MarkEffect
  <2>3. CASE b = c  BY <2>1, <2>2, <2>3 DEF EventAt
  <2>4. CASE b # c
    <3>1. call'[b] = call[b] /\ Found(b, call[b], svc)  BY <1>2, <2>1, <2>4
    <3>2. CASE call[b].pc = "idle"  BY <3>1, <3>2
    <3>3. CASE call[b].pc # "idle"
      <4>1. EventAt(b) # EventAt(c)
        <5>1. call[c].pc # "idle"  BY <1>5 DEF Mark
        <5>. QED  BY <2>4, <3>3, <5>1, OtherEvent
      <4>2. call[b].svc \in Services  BY <1>3, <3>3
      <4>3. Script[b][call[b].pos] # EventAt(c)  BY <4>1 DEF EventAt
      <4>4. svc'[call[b].svc].processed = svc[call[b].svc].processed
            \/ svc'[call[b].svc].processed = svc[call[b].svc].processed \cup {EventAt(c)}
        BY <2>2, <4>2
      <4>. QED  BY <3>1, <4>3, <4>4
    <3>. QED  BY <3>2, <3>3
  <2>. QED  BY <2>3, <2>4
<1>6. ASSUME NEW c \in Conns, CallStep(c), \A s \in Services : svc'[s].processed = svc[s].processed, ~Mark(c),
             NEW b \in Conns
      PROVE  Found(b, call'[b], svc')
  <2>1. PICK k : /\ call'[c] = k /\ \A a \in Conns \ {c} : call'[a] = call[a]
                 /\ k.pc \notin {"idle", "check"} =>
                       k.svc = call[c].svc /\ k.pos = call[c].pos
                 /\ \/ k.pc \in {"idle", "check"}
                    \/ Check(c) /\ k.pc = "mark" /\ EventAt(c) \notin svc[call[c].svc].processed
                    \/ /\ NextUser(c) /\ k.pc \in {"users", "send"}
                       /\ \E u \in call[c].left : k.left = call[c].left \ {u} /\ k.todo = ActiveRows(u)
                    \/ /\ Enqueue(c) /\ k.pc \in {"users", "send"}
                       /\ k.left = call[c].left
                       /\ \E d \in call[c].todo : k.todo = call[c].todo \ {d}
    <3>1. TypeInv /\ CallStep(c) /\ ~Mark(c)  BY <1>6
    <3>. QED  BY <3>1, CallEffect
  <2>2. CASE b # c
    <3>1. call'[b] = call[b] /\ Found(b, call[b], svc)  BY <1>2, <2>1, <2>2
    <3>. QED  BY <1>3, <1>6, <3>1
  <2>3. Found(c, call[c], svc)  BY <1>2
  <2>4. call[c].pc # "idle" => svc'[call[c].svc].processed = svc[call[c].svc].processed  BY <1>3, <1>6
  <2>5. CASE b = c /\ k.pc \in {"idle", "check"}  BY <2>1, <2>5
  <2>6. CASE b = c /\ Check(c) /\ k.pc = "mark" /\ EventAt(c) \notin svc[call[c].svc].processed
    <3>1. call[c].pc # "idle"  BY <2>6 DEF Check
    <3>. QED  BY <2>1, <2>4, <2>6, <3>1 DEF EventAt
  <2>7. CASE b = c /\ NextUser(c) /\ k.pc \in {"users", "send"}
             /\ \E u \in call[c].left : k.left = call[c].left \ {u} /\ k.todo = ActiveRows(u)
    <3>1. PICK u \in call[c].left : k.left = call[c].left \ {u} /\ k.todo = ActiveRows(u)  BY <2>7
    <3>2. \A d \in k.todo : OwnerOf[d.dev] = u  BY <3>1, ActiveTyped DEF TypeInv
    <3>3. call[c].pc = "users"  BY <2>7 DEF NextUser
    <3>4. \A d \in k.todo : OwnerOf[d.dev] \notin k.left  BY <3>1, <3>2
    <3>. QED  BY <2>1, <2>3, <2>4, <2>7, <3>3, <3>4
  <2>8. CASE b = c /\ Enqueue(c) /\ k.pc \in {"users", "send"} /\ k.left = call[c].left
             /\ \E d \in call[c].todo : k.todo = call[c].todo \ {d}
    <3>1. call[c].pc = "send"  BY <2>8 DEF Enqueue
    <3>. QED  BY <2>1, <2>3, <2>4, <2>8, <3>1
  <2>. QED  BY <2>1, <2>2, <2>5, <2>6, <2>7, <2>8
<1> HIDE DEF Found
<1>7. \A b \in Conns : Found(b, call'[b], svc')
  <2>1. CASE \E c \in Conns : Mark(c)  BY <1>5, <2>1
  <2>2. CASE ~\E c \in Conns : Mark(c)
    <3>1. \A s \in Services : svc'[s].processed = svc[s].processed  BY <2>2, ProcessedKept
    <3>. QED  BY <1>4, <1>6, <2>2, <3>1, CallKept
  <2>. QED  BY <2>1, <2>2
<1>. QED  BY <1>1, <1>7

\* What is settled stays settled.
LEMMA SettledStays ==
    ASSUME Distinct, Remembered, TypeInv, FindInv, [Next]_vars,
           NEW t \in Tasks, Settled(Key(t), svc, call)
    PROVE  Settled(Key(t), svc', call')
<1> DEFINE Done(b, k) ==
             k.pc \in {"users", "send"} /\ k.svc = t.svc /\ Script[b][k.pos] = t.ev =>
                /\ OwnerOf[t.dev] \notin k.left
                /\ k.pc = "send" => [dev |-> t.dev, row |-> t.row] \notin k.todo
<1>1. t.ev \in svc'[t.svc].processed /\ (\A b \in Conns : Done(b, call'[b])) => Settled(Key(t), svc', call')
  BY DEF Settled, Key, Finding, EventAt
<1>2. t.ev \in svc[t.svc].processed /\ \A b \in Conns : Done(b, call[b])
  BY DEF Settled, Key, Finding, EventAt
<1>3. t.svc \in Services  BY DEF Tasks
<1>4. t.ev \in svc'[t.svc].processed
  <2>1. CASE \E c \in Conns : Mark(c)
    <3>1. PICK c \in Conns : Mark(c)  BY <2>1
    <3>. QED  BY <1>2, <1>3, <3>1, MarkEffect
  <2>2. CASE ~\E c \in Conns : Mark(c)  BY <1>2, <1>3, <2>2, ProcessedKept
  <2>. QED  BY <2>1, <2>2
<1>5. ASSUME UNCHANGED call, NEW b \in Conns PROVE Done(b, call'[b])
  <2>1. Done(b, call[b])  BY <1>2
  <2>. QED  BY <1>5, <2>1
<1>6. ASSUME NEW c \in Conns, CallStep(c), NEW b \in Conns PROVE Done(b, call'[b])
  <2>1. PICK k : /\ call'[c] = k /\ \A a \in Conns \ {c} : call'[a] = call[a]
                 /\ k.pc \notin {"idle", "check"} =>
                       /\ k.svc = call[c].svc /\ k.pos = call[c].pos
                       /\ k.pc \in {"mark", "users", "send"}
                 /\ \/ k.pc \in {"idle", "check"}
                    \/ Check(c) /\ k.pc = "mark" /\ EventAt(c) \notin svc[call[c].svc].processed
                    \/ Mark(c) /\ k.pc = "users"
                    \/ /\ NextUser(c) /\ k.pc \in {"users", "send"}
                       /\ \E u \in call[c].left : k.left = call[c].left \ {u} /\ k.todo = ActiveRows(u)
                    \/ /\ Enqueue(c) /\ k.pc \in {"users", "send"}
                       /\ k.left = call[c].left
                       /\ \E d \in call[c].todo : k.todo = call[c].todo \ {d}
    BY <1>6, CallEffect
  <2>2. CASE b # c
    <3>1. call'[b] = call[b] /\ Done(b, call[b])  BY <1>2, <2>1, <2>2
    <3>. QED  BY <3>1
  <2>3. Done(c, call[c])  BY <1>2
  <2>4. CASE b = c /\ k.pc \in {"idle", "check", "mark"}  BY <2>1, <2>4
  <2>5. CASE b = c /\ Mark(c) /\ k.pc = "users"
    <3>1. EventAt(c) \notin svc[call[c].svc].processed  BY <2>5 DEF Mark, FindInv
    <3>. QED  BY <1>2, <2>1, <2>5, <3>1 DEF EventAt
  <2>6. CASE b = c /\ NextUser(c) /\ k.pc \in {"users", "send"}
             /\ \E u \in call[c].left : k.left = call[c].left \ {u} /\ k.todo = ActiveRows(u)
    <3>1. PICK u \in call[c].left : k.left = call[c].left \ {u} /\ k.todo = ActiveRows(u)  BY <2>6
    <3>2. \A d \in k.todo : OwnerOf[d.dev] = u  BY <3>1, ActiveTyped DEF TypeInv
    <3>3. call[c].pc = "users"  BY <2>6 DEF NextUser
    <3>4. ASSUME k.svc = t.svc, Script[c][k.pos] = t.ev
          PROVE  OwnerOf[t.dev] \notin k.left /\ [dev |-> t.dev, row |-> t.row] \notin k.todo
      <4>1. OwnerOf[t.dev] \notin call[c].left  BY <2>1, <2>3, <2>6, <3>3, <3>4
      <4>2. [dev |-> t.dev, row |-> t.row] \in k.todo => OwnerOf[t.dev] = u
        <5>1. [dev |-> t.dev, row |-> t.row].dev = t.dev  OBVIOUS
        <5>. QED  BY <3>2, <5>1
      <4>. QED  BY <3>1, <4>1, <4>2
    <3>. QED  BY <2>1, <2>6, <3>4
  <2>7. CASE b = c /\ Enqueue(c) /\ k.pc \in {"users", "send"} /\ k.left = call[c].left
             /\ \E d \in call[c].todo : k.todo = call[c].todo \ {d}
    <3>1. call[c].pc = "send"  BY <2>7 DEF Enqueue
    <3>. QED  BY <2>1, <2>3, <2>7, <3>1
  <2>. QED  BY <2>1, <2>2, <2>4, <2>5, <2>6, <2>7
<1> HIDE DEF Done
<1>. QED  BY <1>1, <1>4, <1>5, <1>6, CallKept

\* The task an Enqueue puts is of a key no call had made a task of, and none
\* will again.
LEMMA NewKey ==
    ASSUME Distinct, Remembered, TypeInv, FindInv, [Next]_vars,
           NEW c \in Conns, Enqueue(c), NEW d \in call[c].todo, Asked(c, d)
    PROVE  \E s \in Services, t \in Tasks :
              Put(s, t) /\ t.svc = s /\ ~Settled(Key(t), svc, call) /\ Settled(Key(t), svc', call')
<1> DEFINE t == NewTask(c, d)
           s == call[c].svc
           k == call[c]
<1>1. /\ s \in Services /\ call[c].pos <= Len(Script[c]) /\ call[c].pc = "send"
      /\ call[c] \in Calls
  BY DEF TypeInv, CoreType, CallInv, Enqueue
<1>2. t \in Tasks /\ Put(s, t)  BY <1>1, EventTyped DEF TypeInv, Asked
<1>3. Key(t) = [svc |-> s, ev |-> EventAt(c), dev |-> d.dev, row |-> d.row] /\ t.svc = s
  BY DEF Key, NewTask
<1>4. d = [dev |-> d.dev, row |-> d.row]  BY <1>1 DEF Calls
<1>5. Finding(c) /\ EventAt(c) \in svc[s].processed /\ OwnerOf[d.dev] \notin call[c].left
  BY <1>1 DEF Finding, FindInv
<1>6. ~Settled(Key(t), svc, call)  BY <1>1, <1>3, <1>4, <1>5 DEF Settled, Finding, EventAt
<1>7. CoreType  BY DEF TypeInv
<1> HIDE DEF t
<1>8. Key(t).svc = s /\ Key(t).ev = EventAt(c) /\ Key(t).dev = d.dev /\ Key(t).row = d.row  BY <1>3
<1>9. svc'[s].processed = svc[s].processed  BY <1>1, <1>2, <1>7, PutEffect
<1>10. call' = [call EXCEPT ![c].todo = call[c].todo \ {d},
                            ![c].pc = IF call[c].todo = {d} THEN "users" ELSE "send"]
  BY DEF Asked, Queued
<1>11. /\ call'[c].svc = s /\ call'[c].pos = call[c].pos /\ call'[c].left = call[c].left
       /\ call'[c].todo = call[c].todo \ {d}
       /\ \A b \in Conns \ {c} : call'[b] = call[b]
  BY <1>1, <1>7, <1>10 DEF CoreType, Calls
<1>12. ASSUME NEW b \in Conns \ {c}, call'[b].pc \in {"users", "send"} PROVE Script[b][call'[b].pos] # EventAt(c)
  <2>1. call[b].pc # "idle" /\ call[c].pc # "idle" /\ call'[b] = call[b]  BY <1>1, <1>11, <1>12
  <2>2. EventAt(b) # EventAt(c)  BY <2>1, OtherEvent
  <2>. QED  BY <2>1, <2>2 DEF EventAt
<1>13. \A b \in Conns : call'[b].pc \in {"users", "send"} /\ Script[b][call'[b].pos] = EventAt(c) =>
          OwnerOf[d.dev] \notin call'[b].left /\ d \notin call'[b].todo
  BY <1>5, <1>11, <1>12
<1>14. t.svc = s /\ t.ev = EventAt(c) /\ t.dev = d.dev /\ t.row = d.row  BY DEF t, NewTask
<1>15. Settled(Key(t), svc', call')
  <2>1. Key(t).ev \in svc'[Key(t).svc].processed  BY <1>5, <1>8, <1>9
  <2>2. \A b \in Conns : call'[b].pc \in {"users", "send"} /\ call'[b].svc = Key(t).svc
                          /\ Script[b][call'[b].pos] = Key(t).ev =>
           /\ OwnerOf[Key(t).dev] \notin call'[b].left
           /\ call'[b].pc = "send" => [dev |-> Key(t).dev, row |-> Key(t).row] \notin call'[b].todo
    BY <1>4, <1>8, <1>13
  <2>. QED  BY <2>1, <2>2 DEF Settled
<1>. QED  BY <1>1, <1>2, <1>6, <1>14, <1>15 DEF t

\* Every step keeps SettledInv.
LEMMA SettledNext ==
    Distinct /\ Remembered /\ TypeInv /\ FindInv /\ SettledInv /\ [Next]_vars => SettledInv'
<1> SUFFICES ASSUME Distinct, Remembered, TypeInv, FindInv, SettledInv, [Next]_vars PROVE SettledInv'  OBVIOUS
<1>0. CoreType /\ TaskInv  BY DEF TypeInv
<1> DEFINE Fine(t) == t \in Tasks /\ Settled(Key(t), svc', call')
<1>1. \A t \in Tasks : Settled(Key(t), svc, call) => Fine(t)  BY SettledStays
<1> HIDE DEF Fine
<1>2. \A s \in Services : \A i \in Slots(s) : Fine(At(s, i))
  <2>1. \A s \in Services : \A i \in Slots(s) : At(s, i) \in Tasks
    BY <1>0, ElementOfSeq DEF CoreType, Svcs, Slots, At
  <2>. QED  BY <1>1, <2>1 DEF SettledInv
<1>3. \A t \in retries : Fine(t)  BY <1>0, <1>1 DEF SettledInv, CoreType
<1>4. \A s \in Services, w \in Workers : Recording(s, w) => Fine(worker[s][w].task)
  BY <1>0, <1>1 DEF SettledInv, TaskInv
<1>5. \A x \in sends : Fine(x.task)  BY <1>0, <1>1 DEF SettledInv, CoreType
<1>6. ASSUME \A s \in Services : \A i \in Slots(s)' : Fine(At(s, i)'),
             \A t \in retries' : Fine(t),
             \A s \in Services, w \in Workers : Recording(s, w)' => Fine(worker'[s][w].task),
             \A x \in sends' : Fine(x.task)
      PROVE  SettledInv'
  BY <1>6 DEF Fine, SettledInv
<1>7. CASE Still
  <2>1. \A s \in Services : \A i \in Slots(s)' : Fine(At(s, i)')  BY <1>2, <1>7 DEF Still, Slots, At
  <2>2. \A s \in Services, w \in Workers : Recording(s, w)' => Fine(worker'[s][w].task)  BY <1>4, <1>7 DEF Still
  <2>. QED  BY <1>3, <1>5, <1>6, <1>7, <2>1, <2>2 DEF Still
<1>8. ASSUME NEW s \in Services, NEW t \in Tasks, Put(s, t), Fine(t)
      PROVE  \A r \in Services : \A i \in Slots(r)' : Fine(At(r, i)')
  <2> SUFFICES ASSUME NEW r \in Services, NEW i \in Slots(r)' PROVE Fine(At(r, i)')  OBVIOUS
  <2>1. At(r, i)' = t \/ (i \in Slots(r) /\ At(r, i)' = At(r, i))  BY <1>0, <1>8, PutSlots
  <2>. QED  BY <1>2, <1>8, <2>1
<1>9. ASSUME NEW c \in Conns, Enqueue(c), NEW d \in call[c].todo, Asked(c, d) PROVE SettledInv'
  <2>1. PICK s \in Services, t \in Tasks : Put(s, t) /\ Settled(Key(t), svc', call')  BY <1>9, NewKey
  <2>2. Fine(t)  BY <2>1 DEF Fine
  <2>3. UNCHANGED <<retries, worker, sends>>  BY <1>9 DEF Enqueue
  <2>4. \A r \in Services : \A i \in Slots(r)' : Fine(At(r, i)')  BY <1>8, <2>1, <2>2
  <2>. QED  BY <1>3, <1>4, <1>5, <1>6, <2>3, <2>4 DEF Recording
<1>10. ASSUME NEW s \in Services, NEW w \in Workers, Send(s, w) PROVE SettledInv'
  <2>0. At(s, 1) \in Tasks /\ [At(s, 1) EXCEPT !.att = @ + 1] \in Tasks /\ 1 \in Slots(s)
    BY <1>0, <1>10, SendEffect, TaskShapes
  <2>1. PICK t \in Tasks, ok \in BOOLEAN :
           /\ t = [At(s, 1) EXCEPT !.att = @ + 1]
           /\ worker' = [worker EXCEPT ![s][w] = [pc |-> "record", task |-> t, ok |-> ok]]
           /\ sends' = sends \cup {[task |-> t, ok |-> ok]}
    BY <1>0, <1>10, <2>0, SendEffect
  <2>2. Fine(t)
    <3>1. Key(t) = Key(At(s, 1))  BY <2>0, <2>1 DEF Key, Tasks
    <3>2. Settled(Key(At(s, 1)), svc, call)  BY <2>0 DEF SettledInv
    <3>. QED  BY <1>1, <3>1, <3>2
  <2>3. \A r \in Services : \A i \in Slots(r)' : Fine(At(r, i)')
    <3> SUFFICES ASSUME NEW r \in Services, NEW i \in Slots(r)' PROVE Fine(At(r, i)')  OBVIOUS
    <3>1. PICK j \in Slots(r) : At(r, i)' = At(r, j)  BY <1>0, <1>10, SendSlots
    <3>. QED  BY <1>2, <3>1
  <2>4. \A r \in Services, v \in Workers : Recording(r, v)' => Fine(worker'[r][v].task)
    <3> SUFFICES ASSUME NEW r \in Services, NEW v \in Workers, Recording(r, v)' PROVE Fine(worker'[r][v].task)  OBVIOUS
    <3>1. CASE r = s /\ v = w
      <4>1. worker'[r][v] = [pc |-> "record", task |-> t, ok |-> ok]  BY <1>0, <2>1, <3>1 DEF CoreType
      <4>. QED  BY <2>2, <4>1
    <3>2. CASE ~(r = s /\ v = w)
      <4>1. worker'[r][v] = worker[r][v]  BY <1>0, <2>1, <3>2 DEF CoreType
      <4>. QED  BY <1>4, <4>1 DEF Recording
    <3>. QED  BY <3>1, <3>2
  <2>5. \A x \in sends' : Fine(x.task)
    <3>1. [task |-> t, ok |-> ok].task = t  OBVIOUS
    <3>. QED  BY <1>5, <2>1, <2>2, <3>1
  <2>6. UNCHANGED retries  BY <1>0, <1>10, SendEffect
  <2>. QED  BY <1>3, <1>6, <2>3, <2>4, <2>5, <2>6
<1>11. ASSUME NEW s \in Services, NEW w \in Workers, Record(s, w) PROVE SettledInv'
  <2>1. \A q \in retries' : Fine(q)
    <3> SUFFICES ASSUME NEW q \in retries' PROVE Fine(q)  OBVIOUS
    <3>1. q \in retries \/ (q = worker[s][w].task /\ Recording(s, w))  BY <1>0, <1>11, RecordEffect
    <3>. QED  BY <1>3, <1>4, <3>1
  <2>2. UNCHANGED <<svc, sends>>  BY <1>0, <1>11, RecordEffect
  <2>3. \A r \in Services, v \in Workers : Recording(r, v)' => Fine(worker'[r][v].task)
    <3>1. \A r \in Services, v \in Workers : Recording(r, v)' =>
             Recording(r, v) /\ worker'[r][v] = worker[r][v]
      BY <1>0, <1>11, RecordEffect
    <3>. QED  BY <1>4, <3>1
  <2>4. \A r \in Services : \A i \in Slots(r)' : Fine(At(r, i)')
    <3>1. \A r \in Services : Slots(r)' = Slots(r) /\ \A i : At(r, i)' = At(r, i)  BY <2>2 DEF Slots, At
    <3>. QED  BY <1>2, <3>1
  <2>. QED  BY <1>5, <1>6, <2>1, <2>2, <2>3, <2>4
<1>12. ASSUME NEW t \in retries, Retry(t) PROVE SettledInv'
  <2>1. t \in Tasks /\ t.svc \in Services  BY <1>0 DEF CoreType, Tasks
  <2>2. UNCHANGED <<worker, sends>> /\ retries' \subseteq retries  BY <1>12 DEF Retry
  <2>3. \A r \in Services : \A i \in Slots(r)' : Fine(At(r, i)')
    <3>1. CASE Put(t.svc, t)  BY <1>3, <1>8, <2>1, <3>1
    <3>2. CASE UNCHANGED svc
      <4>1. \A r \in Services : Slots(r)' = Slots(r) /\ \A i : At(r, i)' = At(r, i)  BY <3>2 DEF Slots, At
      <4>. QED  BY <1>2, <4>1
    <3>. QED  BY <1>12, <3>1, <3>2 DEF Retry
  <2>4. \A r \in Services, v \in Workers : Recording(r, v)' => Fine(worker'[r][v].task)
    BY <1>4, <2>2 DEF Recording
  <2>. QED  BY <1>3, <1>5, <1>6, <2>2, <2>3, <2>4
<1>. QED  BY <1>7, <1>9, <1>10, <1>11, <1>12, Moves

\* A key is in one place at a time: a queue, the retries, a worker's hands.
QueueOnce == \A s \in Services : \A i \in Slots(s) :
                At(s, i).svc = s /\ \A j \in Slots(s) : Key(At(s, i)) = Key(At(s, j)) => i = j
RetryOnce == \A t \in retries : /\ \A u \in retries : Key(t) = Key(u) => t = u
                                /\ \A s \in Services : \A i \in Slots(s) : Key(At(s, i)) # Key(t)
HandOnce  == \A s \in Services, w \in Workers : Recording(s, w) =>
                /\ \A t \in retries : Key(t) # Key(worker[s][w].task)
                /\ \A r \in Services : \A i \in Slots(r) : Key(At(r, i)) # Key(worker[s][w].task)
                /\ \A r \in Services, v \in Workers :
                      Recording(r, v) /\ Key(worker[r][v].task) = Key(worker[s][w].task) => r = s /\ v = w
\* Once it was accepted it is in none, but for the worker that has to say so.
DoneOnce  == \A x \in sends : x.ok =>
                /\ \A t \in retries : Key(t) # Key(x.task)
                /\ \A r \in Services : \A i \in Slots(r) : Key(At(r, i)) # Key(x.task)
                /\ \A r \in Services, v \in Workers :
                      Recording(r, v) /\ Key(worker[r][v].task) = Key(x.task) => worker[r][v].ok
                /\ \A y \in sends : y.ok /\ Key(y.task) = Key(x.task) => y = x
SingleInv == QueueOnce /\ RetryOnce /\ HandOnce /\ DoneOnce

\* A key that is nowhere, and that was never sent.
Unknown(k) ==
    /\ \A t \in retries : Key(t) # k
    /\ \A r \in Services : \A i \in Slots(r) : Key(At(r, i)) # k
    /\ \A r \in Services, v \in Workers : Recording(r, v) => Key(worker[r][v].task) # k
    /\ \A x \in sends : Key(x.task) # k

LEMMA SameQueues ==
    ASSUME \A s \in Services : svc'[s].queue = svc[s].queue
    PROVE  \A s \in Services : Slots(s)' = Slots(s) /\ \A i : At(s, i)' = At(s, i)
  BY DEF Slots, At

\* A step that moves no task keeps each in its place.
LEMMA SingleStill == SingleInv /\ Still => SingleInv'
<1> SUFFICES ASSUME SingleInv, Still PROVE SingleInv'  OBVIOUS
<1>1. \A s \in Services : Slots(s)' = Slots(s) /\ \A i : At(s, i)' = At(s, i)
  BY SameQueues DEF Still
<1>2. UNCHANGED <<retries, sends>> /\ \A s \in Services, w \in Workers : Recording(s, w)' =>
         Recording(s, w) /\ worker'[s][w] = worker[s][w]
  BY DEF Still
<1>3. QueueOnce' /\ RetryOnce'  BY <1>1, <1>2 DEF SingleInv, QueueOnce, RetryOnce
<1>4. HandOnce'  BY <1>1, <1>2 DEF SingleInv, HandOnce
<1>5. DoneOnce'  BY <1>1, <1>2 DEF SingleInv, DoneOnce
<1>. QED  BY <1>3, <1>4, <1>5 DEF SingleInv

\* A task is put that was nowhere, or was waiting to be retried: in its new
\* place it is alone.
LEMMA SinglePut ==
    ASSUME CoreType, SingleInv, NEW s \in Services, NEW t \in Tasks, Put(s, t), t.svc = s,
           UNCHANGED <<worker, sends>>, retries' \subseteq retries \ {t},
           t \in retries \/ Unknown(Key(t))
    PROVE  SingleInv'
<1> DEFINE n == Len(svc[s].queue) + 1
<1>1. \A r \in Services : \A i \in Slots(r)' : \/ r = s /\ i = n /\ At(r, i)' = t
                                               \/ i \in Slots(r) /\ At(r, i)' = At(r, i)
  BY PutSlots
<1> HIDE DEF n
<1>2. /\ \A u \in retries \ {t} : Key(u) # Key(t)
      /\ \A r \in Services : \A i \in Slots(r) : Key(At(r, i)) # Key(t)
      /\ \A r \in Services, v \in Workers : Recording(r, v) => Key(worker[r][v].task) # Key(t)
      /\ \A x \in sends : x.ok => Key(x.task) # Key(t)
  <2>1. CASE t \in retries  BY <2>1 DEF SingleInv, RetryOnce, HandOnce, DoneOnce
  <2>2. CASE Unknown(Key(t))  BY <2>2 DEF Unknown
  <2>. QED  BY <2>1, <2>2
<1>3. QueueOnce'  BY <1>1, <1>2 DEF SingleInv, QueueOnce
<1>4. RetryOnce'  BY <1>1, <1>2 DEF SingleInv, RetryOnce
<1>5. HandOnce'  BY <1>1, <1>2 DEF SingleInv, HandOnce, Recording
<1>6. DoneOnce'  BY <1>1, <1>2 DEF SingleInv, DoneOnce, Recording
<1>. QED  BY <1>3, <1>4, <1>5, <1>6 DEF SingleInv

\* A worker takes the first task of its queue into its hands.
LEMMA SingleSend ==
    ASSUME CoreType, SingleInv, NEW s \in Services, NEW w \in Workers, Send(s, w)
    PROVE  SingleInv'
<1>0. At(s, 1) \in Tasks /\ [At(s, 1) EXCEPT !.att = @ + 1] \in Tasks /\ 1 \in Slots(s)
  BY SendEffect, TaskShapes
<1>1. PICK t \in Tasks, ok \in BOOLEAN :
         /\ t = [At(s, 1) EXCEPT !.att = @ + 1]
         /\ worker' = [worker EXCEPT ![s][w] = [pc |-> "record", task |-> t, ok |-> ok]]
         /\ sends' = sends \cup {[task |-> t, ok |-> ok]}
  BY <1>0, SendEffect
<1>2. Key(t) = Key(At(s, 1)) /\ UNCHANGED retries  BY <1>0, <1>1, SendEffect DEF Key, Tasks
<1>3. \A r \in Services : \A i \in Slots(r)' :
         \/ r = s /\ i \in Nat /\ i + 1 \in Slots(r) /\ At(r, i)' = At(r, i + 1)
         \/ r # s /\ i \in Slots(r) /\ At(r, i)' = At(r, i)
  BY SendSlots
<1>4. /\ worker'[s][w].pc = "record" /\ worker'[s][w].task = t /\ worker'[s][w].ok = ok
      /\ \A r \in Services, v \in Workers : ~(r = s /\ v = w) => worker'[r][v] = worker[r][v]
  <2>1. worker \in [Services -> [Workers -> Hands]]  BY DEF CoreType
  <2>2. worker'[s][w] = [pc |-> "record", task |-> t, ok |-> ok]  BY <1>1, <2>1
  <2>3. \A r \in Services, v \in Workers : ~(r = s /\ v = w) => worker'[r][v] = worker[r][v]  BY <1>1, <2>1
  <2>. QED  BY <2>2, <2>3
<1>5. \A r \in Services : \A i \in Slots(r)' : Key(At(r, i)') # Key(t)
  <2> SUFFICES ASSUME NEW r \in Services, NEW i \in Slots(r)' PROVE Key(At(r, i)') # Key(t)  OBVIOUS
  <2>1. CASE r = s
    <3>1. i \in Nat /\ i + 1 \in Slots(s) /\ At(r, i)' = At(s, i + 1) /\ i + 1 # 1
      <4>1. i \in Nat /\ i + 1 \in Slots(r) /\ At(r, i)' = At(r, i + 1)  BY <1>3, <2>1
      <4>2. Slots(r) = Slots(s) /\ At(r, i + 1) = At(s, i + 1) /\ i # 0
        <5>1. i \in 1..Len(svc'[r].queue)  BY DEF Slots
        <5>. QED  BY <2>1, <5>1 DEF Slots, At
      <4>. QED  BY <4>1, <4>2
    <3>. QED  BY <1>0, <1>2, <3>1 DEF SingleInv, QueueOnce
  <2>2. CASE r # s
    <3>1. i \in Slots(r) /\ At(r, i)' = At(r, i) /\ At(r, i).svc = r /\ At(s, 1).svc = s
      BY <1>0, <1>3, <2>2 DEF SingleInv, QueueOnce
    <3>2. Key(At(r, i)).svc = r /\ Key(At(s, 1)).svc = s  BY <3>1 DEF Key
    <3>. QED  BY <1>2, <2>2, <3>1, <3>2
  <2>. QED  BY <2>1, <2>2
<1>6. \A r \in Services : \A i \in Slots(r)' : \E j \in Slots(r) : At(r, i)' = At(r, j)  BY <1>3
<1>7. /\ \A u \in retries : Key(u) # Key(t)
      /\ \A r \in Services, v \in Workers : Recording(r, v) => Key(worker[r][v].task) # Key(t)
      /\ \A x \in sends : x.ok => Key(x.task) # Key(t)
  BY <1>0, <1>2 DEF SingleInv, RetryOnce, HandOnce, DoneOnce
<1>8. QueueOnce'
  <2> SUFFICES ASSUME NEW r \in Services, NEW i \in Slots(r)'
               PROVE  At(r, i)'.svc = r /\ \A j \in Slots(r)' : Key(At(r, i)') = Key(At(r, j)') => i = j
    BY DEF QueueOnce
  <2>1. At(r, i)'.svc = r  BY <1>6 DEF SingleInv, QueueOnce
  <2>2. ASSUME NEW j \in Slots(r)', Key(At(r, i)') = Key(At(r, j)') PROVE i = j
    <3>1. CASE r = s
      <4>1. i \in Nat /\ i + 1 \in Slots(r) /\ At(r, i)' = At(r, i + 1)  BY <1>3, <3>1
      <4>2. j \in Nat /\ j + 1 \in Slots(r) /\ At(r, j)' = At(r, j + 1)  BY <1>3, <3>1
      <4>3. i + 1 = j + 1  BY <2>2, <4>1, <4>2 DEF SingleInv, QueueOnce
      <4>. QED  BY <4>1, <4>2, <4>3
    <3>2. CASE r # s  BY <1>3, <2>2, <3>2 DEF SingleInv, QueueOnce
    <3>. QED  BY <3>1, <3>2
  <2>. QED  BY <2>1, <2>2
<1>9. RetryOnce'  BY <1>2, <1>6 DEF SingleInv, RetryOnce
<1>10. \A r \in Services, v \in Workers : Recording(r, v)' =>
          \/ r = s /\ v = w /\ worker'[r][v].task = t /\ worker'[r][v].ok = ok
          \/ ~(r = s /\ v = w) /\ Recording(r, v) /\ worker'[r][v] = worker[r][v]
  BY <1>4 DEF Recording
<1>11. HandOnce'
  <2> SUFFICES ASSUME NEW r \in Services, NEW v \in Workers, Recording(r, v)'
               PROVE  LET k == Key(worker'[r][v].task) IN
                      /\ \A u \in retries' : Key(u) # k
                      /\ \A q \in Services : \A i \in Slots(q)' : Key(At(q, i)') # k
                      /\ \A q \in Services, y \in Workers :
                            Recording(q, y)' /\ Key(worker'[q][y].task) = k => q = r /\ y = v
    BY DEF HandOnce
  <2>1. CASE r = s /\ v = w /\ worker'[r][v].task = t  BY <1>2, <1>5, <1>7, <1>10, <2>1
  <2>2. CASE ~(r = s /\ v = w) /\ Recording(r, v) /\ worker'[r][v] = worker[r][v]
    <3>1. /\ \A u \in retries' : Key(u) # Key(worker'[r][v].task)
          /\ \A q \in Services : \A i \in Slots(q)' : Key(At(q, i)') # Key(worker'[r][v].task)
      BY <1>2, <1>6, <2>2 DEF SingleInv, HandOnce
    <3>2. ASSUME NEW q \in Services, NEW y \in Workers, Recording(q, y)',
                 Key(worker'[q][y].task) = Key(worker'[r][v].task)
          PROVE  q = r /\ y = v
      <4>1. CASE q = s /\ y = w /\ worker'[q][y].task = t  BY <1>7, <2>2, <3>2, <4>1
      <4>2. CASE Recording(q, y) /\ worker'[q][y] = worker[q][y]
        BY <2>2, <3>2, <4>2 DEF SingleInv, HandOnce
      <4>. QED  BY <1>10, <3>2, <4>1, <4>2
    <3>. QED  BY <3>1, <3>2
  <2>. QED  BY <1>10, <2>1, <2>2
<1>12. DoneOnce'
  <2> SUFFICES ASSUME NEW x \in sends', x.ok
               PROVE  /\ \A u \in retries' : Key(u) # Key(x.task)
                      /\ \A r \in Services : \A i \in Slots(r)' : Key(At(r, i)') # Key(x.task)
                      /\ \A r \in Services, v \in Workers :
                            Recording(r, v)' /\ Key(worker'[r][v].task) = Key(x.task) => worker'[r][v].ok
                      /\ \A y \in sends' : y.ok /\ Key(y.task) = Key(x.task) => y = x
    BY DEF DoneOnce
  <2>0. \A y \in sends' : y \in sends \/ (y = [task |-> t, ok |-> ok] /\ y.task = t /\ y.ok = ok)
    BY <1>1
  <2>1. CASE x \in sends
    <3>1. /\ \A u \in retries' : Key(u) # Key(x.task)
          /\ \A r \in Services : \A i \in Slots(r)' : Key(At(r, i)') # Key(x.task)
      BY <1>2, <1>6, <2>1 DEF SingleInv, DoneOnce
    <3>2. \A r \in Services, v \in Workers :
             Recording(r, v)' /\ Key(worker'[r][v].task) = Key(x.task) => worker'[r][v].ok
      BY <1>7, <1>10, <2>1 DEF SingleInv, DoneOnce
    <3>3. \A y \in sends' : y.ok /\ Key(y.task) = Key(x.task) => y = x
      BY <1>7, <2>0, <2>1 DEF SingleInv, DoneOnce
    <3>. QED  BY <3>1, <3>2, <3>3
  <2>2. CASE x = [task |-> t, ok |-> ok] /\ x.task = t /\ x.ok = ok
    <3>1. \A r \in Services, v \in Workers :
             Recording(r, v)' /\ Key(worker'[r][v].task) = Key(x.task) => worker'[r][v].ok
      <4> SUFFICES ASSUME NEW r \in Services, NEW v \in Workers, Recording(r, v)',
                          Key(worker'[r][v].task) = Key(x.task)
                   PROVE  worker'[r][v].ok
        OBVIOUS
      <4>1. ~(Recording(r, v) /\ worker'[r][v] = worker[r][v])  BY <1>7, <2>2
      <4>2. worker'[r][v].ok = ok  BY <1>10, <4>1
      <4>. QED  BY <2>2, <4>2
    <3>2. \A y \in sends' : y.ok /\ Key(y.task) = Key(x.task) => y = x
      BY <1>7, <2>0, <2>2
    <3>. QED  BY <1>2, <1>5, <1>7, <2>2, <3>1, <3>2
  <2>. QED  BY <2>0, <2>1, <2>2
<1>. QED  BY <1>8, <1>9, <1>11, <1>12 DEF SingleInv

\* A worker lays its task down, to be retried when it was refused.
LEMMA SingleRecord ==
    ASSUME CoreType, SingleInv, NEW s \in Services, NEW w \in Workers, Record(s, w)
    PROVE  SingleInv'
<1> DEFINE t == worker[s][w].task
<1>1. UNCHANGED <<svc, sends>> /\ Recording(s, w)  BY RecordEffect
<1>2. \A r \in Services, v \in Workers : Recording(r, v)' =>
         Recording(r, v) /\ worker'[r][v] = worker[r][v] /\ ~(r = s /\ v = w)
  BY RecordEffect
<1>3. \A q \in retries' : q \in retries \/ (q = t /\ worker[s][w].ok = FALSE)  BY RecordEffect
<1>4. \A r \in Services : Slots(r)' = Slots(r) /\ \A i : At(r, i)' = At(r, i)  BY <1>1, SameQueues
<1>5. /\ \A u \in retries : Key(u) # Key(t)
      /\ \A r \in Services : \A i \in Slots(r) : Key(At(r, i)) # Key(t)
      /\ \A r \in Services, v \in Workers : Recording(r, v)' => Key(worker'[r][v].task) # Key(t)
      /\ worker[s][w].ok = FALSE => \A x \in sends : x.ok => Key(x.task) # Key(t)
  BY <1>1, <1>2 DEF SingleInv, HandOnce, DoneOnce
<1> HIDE DEF t
<1>6. QueueOnce'  BY <1>4 DEF SingleInv, QueueOnce
<1>7. RetryOnce'  BY <1>3, <1>4, <1>5 DEF SingleInv, RetryOnce
<1>8. HandOnce'  BY <1>2, <1>3, <1>4, <1>5 DEF SingleInv, HandOnce
<1>9. DoneOnce'  BY <1>1, <1>2, <1>3, <1>4, <1>5 DEF SingleInv, DoneOnce
<1>. QED  BY <1>6, <1>7, <1>8, <1>9 DEF SingleInv

\* A retry that does not get back into the queue is gone.
LEMMA SingleDrop ==
    ASSUME SingleInv, UNCHANGED <<svc, worker, sends>>, retries' \subseteq retries
    PROVE  SingleInv'
<1>1. \A r \in Services : Slots(r)' = Slots(r) /\ \A i : At(r, i)' = At(r, i)  BY SameQueues
<1>2. QueueOnce' /\ RetryOnce'  BY <1>1 DEF SingleInv, QueueOnce, RetryOnce
<1>3. HandOnce'  BY <1>1 DEF SingleInv, HandOnce, Recording
<1>4. DoneOnce'  BY <1>1 DEF SingleInv, DoneOnce, Recording
<1>. QED  BY <1>2, <1>3, <1>4 DEF SingleInv

\* Every step keeps SingleInv.
LEMMA SingleNext ==
    Distinct /\ Remembered /\ TypeInv /\ FindInv /\ SettledInv /\ SingleInv /\ [Next]_vars => SingleInv'
<1> SUFFICES ASSUME Distinct, Remembered, TypeInv, FindInv, SettledInv, SingleInv, [Next]_vars PROVE SingleInv'
  OBVIOUS
<1>0. CoreType  BY DEF TypeInv
<1>1. CASE Still  BY <1>1, SingleStill
<1>2. ASSUME NEW c \in Conns, Enqueue(c), NEW d \in call[c].todo, Asked(c, d) PROVE SingleInv'
  <2>1. PICK s \in Services, t \in Tasks : Put(s, t) /\ t.svc = s /\ ~Settled(Key(t), svc, call)  BY <1>2, NewKey
  <2>2. Unknown(Key(t))
    <3>1. \A u : Settled(Key(u), svc, call) => Key(u) # Key(t)  BY <2>1
    <3>. QED  BY <3>1 DEF Unknown, SettledInv
  <2>3. UNCHANGED <<retries, worker, sends>>  BY <1>2 DEF Enqueue
  <2>4. retries' \subseteq retries \ {t}  BY <2>2, <2>3 DEF Unknown
  <2>. QED  BY <1>0, <2>1, <2>2, <2>3, <2>4, SinglePut
<1>3. ASSUME NEW s \in Services, NEW w \in Workers, Send(s, w) \/ Record(s, w) PROVE SingleInv'
  BY <1>0, <1>3, SingleSend, SingleRecord
<1>4. ASSUME NEW t \in retries, Retry(t) PROVE SingleInv'
  <2>1. t \in Tasks /\ t.svc \in Services  BY <1>0 DEF CoreType, Tasks
  <2>2. UNCHANGED <<worker, sends>> /\ retries' = retries \ {t}  BY <1>4 DEF Retry
  <2>3. CASE Put(t.svc, t)  BY <1>0, <2>1, <2>2, <2>3, SinglePut
  <2>4. CASE UNCHANGED svc  BY <2>2, <2>4, SingleDrop
  <2>. QED  BY <1>4, <2>3, <2>4 DEF Retry
<1>. QED  BY <1>1, <1>2, <1>3, <1>4, Moves

\* A device gets a notification of one event once from one service, however
\* often it fails before, if each event comes over one connection and the
\* service has room for the ids of all (processEvent, sendNotification,
\* retryNotification).
THEOREM NotifiedOnce ==
    ASSUME Distinct, Remembered
    PROVE  Spec => []Once
<1>1. Init => FindInv /\ SettledInv /\ SingleInv
  <2> SUFFICES ASSUME Init PROVE FindInv /\ SettledInv /\ SingleInv  OBVIOUS
  <2>1. \A s \in Services : Slots(s) = {}
    <3> SUFFICES ASSUME NEW s \in Services PROVE Slots(s) = {}  OBVIOUS
    <3>1. svc[s] = [Unmade EXCEPT !.running = (s = 1)]  BY DEF Init
    <3>2. svc[s].queue = <<>>  BY <3>1 DEF Unmade
    <3>. QED  BY <3>2 DEF Slots
  <2>2. \A s \in Services, w \in Workers : ~Recording(s, w)  BY DEF Init, Recording, AtRest
  <2>3. \A c \in Conns : call[c].pc = "idle"  BY DEF Init, NoCall
  <2>4. retries = {} /\ sends = {}  BY DEF Init
  <2>. QED  BY <2>1, <2>2, <2>3, <2>4
            DEF FindInv, Finding, SettledInv, SingleInv, QueueOnce, RetryOnce, HandOnce, DoneOnce
<1>2. SingleInv => Once
  <2> SUFFICES ASSUME SingleInv, NEW x \in sends, NEW y \in sends, x.ok, y.ok,
                      x.task.svc = y.task.svc, x.task.ev = y.task.ev,
                      x.task.dev = y.task.dev, x.task.row = y.task.row
               PROVE  x = y
    BY DEF Once
  <2>1. Key(x.task) = Key(y.task)  BY DEF Key
  <2>. QED  BY <2>1 DEF SingleInv, DoneOnce
<1>3. FindInv /\ TypeInv /\ [Next]_vars => FindInv'  BY FindNext
<1>4. TypeInv /\ FindInv /\ SettledInv /\ [Next]_vars => SettledInv'  BY SettledNext
<1>5. TypeInv /\ FindInv /\ SettledInv /\ SingleInv /\ [Next]_vars => SingleInv'  BY SingleNext
<1>6. Spec => [](TypeInv /\ FindInv /\ SettledInv /\ SingleInv)
  BY <1>1, <1>3, <1>4, <1>5, TypeInit, TypeNext, PTL DEF Spec
<1>. QED  BY <1>2, <1>6, PTL
=============================================================================
