---------------------- MODULE AddressPoolNotifyProofs -----------------------
(***************************************************************************)
(* Theorems of AddressPool and of Notify.  Of AddressPool, for any names,  *)
(* spellings, addresses and number of goroutines: an address is one        *)
(* user's.  Of Notify: the state's type, and that no notification is lost  *)
(* between a subscription's query and the processor; the inductive         *)
(* invariant says what each goroutine holds at each of its steps, and      *)
(* that an open subscription is registered with its filter under an entry  *)
(* that the processor will admit, or whose handler has still to query.     *)
(***************************************************************************)
EXTENDS AddressPool, Notify, TLAPS

-----------------------------------------------------------------------------
(* AddressPool *)

\* A row that is owned is in the table.
OwnersKnown == \A a \in Addrs : owner[a] # NoName => a \in rows

\* A job past its choice of a user has one.
JobsNamed ==
    \A g \in Agents : job[g].pc \in {"alloc", "check", "drop", "store"} => job[g].name \in Names

\* The address a job carries, read long before it is stored, still belongs to
\* the user the job is about.
JobsOwned == \A g \in Agents : job[g].name \in Names => Belongs(job[g].name, job[g].addr)

IInv == PoolTypeOK /\ OwnersKnown /\ Exclusive /\ PublishedOwned /\ JobsNamed /\ JobsOwned

\* What a step may do to ownership: nothing, or give an unowned row of the
\* table to a name that owns none.
Grants(n, a) ==
    /\ a \in rows /\ owner[a] = NoName /\ OwnedBy(n) = {}
    /\ owner' = [owner EXCEPT ![a] = n]
    /\ rows' = rows
Learns == rows' = rows \/ \E a \in Addrs : rows' = rows \cup {a}
OwnershipStep ==
    \/ owner' = owner /\ Learns
    \/ \E n \in Names, a \in Addrs : Grants(n, a)

-----------------------------------------------------------------------------
\* AllocateBitcoinAddress grants an unowned row or changes no owner.
LEMMA AllocateGrants ==
    ASSUME IInv, NEW g \in Agents, Allocate(g) PROVE OwnershipStep
<1>1. job[g].name \in Names
  BY DEF Allocate, IInv, JobsNamed
<1>2. CASE UNCHANGED owner
  BY <1>2 DEF Allocate, OwnershipStep, Learns
<1>3. CASE \E a \in Candidates(job[g].name) : owner' = [owner EXCEPT ![a] = job[g].name]
  <2>1. PICK a \in Candidates(job[g].name) : owner' = [owner EXCEPT ![a] = job[g].name]
    BY <1>3
  <2>2. a \in rows /\ a \in Addrs
    BY <2>1 DEF Candidates, OwnedBy, Available, IInv, PoolTypeOK
  <2>3. rows' = rows
    BY DEF Allocate
  <2>4. CASE OwnedBy(job[g].name) = {}
    <3>1. owner[a] = NoName
      BY <2>1, <2>4 DEF Candidates, Available
    <3>2. Grants(job[g].name, a)
      BY <2>1, <2>2, <2>3, <2>4, <3>1 DEF Grants
    <3> QED BY <1>1, <2>2, <3>2 DEF OwnershipStep
  <2>5. CASE OwnedBy(job[g].name) # {}
    <3>1. owner[a] = job[g].name
      BY <2>1, <2>5 DEF Candidates, OwnedBy
    <3>2. owner' = owner
      BY <2>1, <2>2, <3>1 DEF IInv, PoolTypeOK
    <3> QED BY <2>3, <3>2 DEF OwnershipStep, Learns
  <2> QED BY <2>4, <2>5
<1> QED BY <1>2, <1>3 DEF Allocate

\* Saving a synced address adds an unowned row or leaves the table alone.
LEMMA SyncSaveKeepsOwners ==
    ASSUME IInv, NEW s \in Syncers, SyncSave(s) PROVE owner' = owner /\ Learns
<1>1. sync[s] \in Addrs
  BY DEF SyncSave, IInv, PoolTypeOK
<1>2. sync[s] \in rows \/ owner[sync[s]] = NoName
  BY <1>1 DEF IInv, OwnersKnown
<1>3. owner' = owner
  BY <1>1, <1>2 DEF SyncSave, OwnersAfterSave, IInv, PoolTypeOK
<1> QED BY <1>1, <1>3 DEF SyncSave, Learns

\* Every step is an ownership step.
LEMMA StepIsOwnershipStep ==
    ASSUME IInv, [PoolNext]_poolVars PROVE OwnershipStep
<1>1. CASE \E s \in Syncers : SyncSave(s)
  BY <1>1, SyncSaveKeepsOwners DEF OwnershipStep
<1>2. CASE \E g \in Agents : Allocate(g)
  BY <1>2, AllocateGrants
<1>3. ASSUME NEW g \in Agents, AgentStep(g) \/ AgentStart(g), ~Allocate(g)
      PROVE owner' = owner /\ rows' = rows
  <2>1. CASE AgentStep(g)
    BY <1>3, <2>1 DEF AgentStep, CheckEvent, DropEvents, StoreEvent, BatchReady,
                      BatchTimeout, BatchPick
  <2>2. CASE AgentStart(g)
    BY <2>2 DEF AgentStart, Login, StartRefresh, StartReadBack, StartPayment,
                StartAssignTier, StartBatch
  <2> QED BY <1>3, <2>1, <2>2
<1>4. CASE \E s \in Syncers, a \in Addrs : SyncCheck(s, a)
  BY <1>4 DEF SyncCheck, OwnershipStep, Learns
<1>5. CASE \E m \in {"subscription", "free"} : ChangeMode(m)
  BY <1>5 DEF ChangeMode, OwnershipStep, Learns
<1>6. CASE Restart
  BY <1>6 DEF Restart, OwnershipStep, Learns
<1>7. CASE UNCHANGED poolVars
  BY <1>7 DEF poolVars, OwnershipStep, Learns
<1>8. CASE \E g \in Agents : AgentStep(g) \/ AgentStart(g)
  BY <1>2, <1>3, <1>8 DEF OwnershipStep, Learns
<1>9. CASE \E e \in events : RemoveUnauthorized(e)
  BY <1>9 DEF RemoveUnauthorized, OwnershipStep, Learns
<1> QED BY <1>1, <1>4, <1>5, <1>6, <1>7, <1>8, <1>9 DEF PoolNext

\* Belongs, read in the next state.
BelongsNext(n, a) ==
    a # NoAddr => a \in rows' /\ owner'[a] # NoName /\ KeyOf[owner'[a]] = KeyOf[n]

\* What belongs to a user keeps belonging to that user.
LEMMA BelongsForever ==
    ASSUME IInv, OwnershipStep, NEW n, NEW a \in Addrs \cup {NoAddr}, Belongs(n, a)
    PROVE  BelongsNext(n, a)
<1>1. CASE a = NoAddr
  BY <1>1 DEF BelongsNext
<1>2. CASE a # NoAddr
  <2>1. a \in rows /\ a \in Addrs /\ owner[a] # NoName /\ KeyOf[owner[a]] = KeyOf[n]
    BY <1>2 DEF Belongs
  <2>2. CASE owner' = owner /\ Learns
    BY <2>1, <2>2 DEF BelongsNext, Learns
  <2>3. ASSUME NEW m \in Names, NEW b \in Addrs, Grants(m, b) PROVE BelongsNext(n, a)
    <3>1. owner'[a] = owner[a]
      BY <2>1, <2>3 DEF Grants, IInv, PoolTypeOK
    <3> QED BY <2>1, <2>3, <3>1 DEF Grants, BelongsNext
  <2> QED BY <2>2, <2>3 DEF OwnershipStep
<1> QED BY <1>1, <1>2

-----------------------------------------------------------------------------
(* The inductive invariant, one lemma per conjunct.                         *)

LEMMA InitInv == PoolInit => IInv
<1> SUFFICES ASSUME PoolInit PROVE IInv
  OBVIOUS
<1> USE DEF PoolInit, Idle
<1>1. PoolTypeOK
  BY DEF PoolTypeOK, Job, PCs
<1>2. OwnersKnown /\ Exclusive /\ PublishedOwned
  BY DEF OwnersKnown, Exclusive, PublishedOwned
<1>3. JobsNamed /\ JobsOwned
  BY NoneAssumption DEF JobsNamed, JobsOwned
<1> QED BY <1>1, <1>2, <1>3 DEF IInv

\* A goroutine's next record is a job: the shape every action keeps.
LEMMA JobTypes ==
    ASSUME PoolTypeOK, NEW g \in Agents
    PROVE  /\ Idle \in Job
           /\ Skip(job[g]) \in Job
           /\ \A pc \in PCs : [job[g] EXCEPT !.pc = pc] \in Job
           /\ \A n \in Names, a \in Addrs \cup {NoAddr}, pc \in PCs : Rewrite(n, a, pc) \in Job
           /\ \A a \in Addrs : AfterAlloc(job[g], a) \in Job
           /\ \A n \in Names : LoginJob(n) \in Job /\ Picked(job[g], n) \in Job
           /\ \A T \in SUBSET Names : BatchJob(T) \in Job
<1>1. job[g] \in Job
  BY DEF PoolTypeOK
<1>2. Idle \in Job
  BY DEF Idle, Job, PCs
<1>3. Skip(job[g]) \in Job /\ (\A pc \in PCs : [job[g] EXCEPT !.pc = pc] \in Job)
  BY <1>1, <1>2 DEF Skip, Job, PCs
<1>4. \A n \in Names, a \in Addrs \cup {NoAddr}, pc \in PCs : Rewrite(n, a, pc) \in Job
  BY DEF Rewrite, Idle, Job, PCs
<1>5. \A a \in Addrs : AfterAlloc(job[g], a) \in Job
  BY <1>1 DEF AfterAlloc, Job, PCs
<1>6. \A n \in Names : LoginJob(n) \in Job
  BY DEF LoginJob, Idle, Job, PCs
<1>7. \A n \in Names : Picked(job[g], n) \in Job
  BY <1>1 DEF Picked, Job, PCs
<1>8. \A T \in SUBSET Names : BatchJob(T) \in Job
  BY DEF BatchJob, Idle, Job, PCs
<1> QED BY <1>2, <1>3, <1>4, <1>5, <1>6, <1>7, <1>8

LEMMA PoolTypeStep == IInv /\ [PoolNext]_poolVars => PoolTypeOK'
<1> SUFFICES ASSUME IInv, PoolTypeOK, [PoolNext]_poolVars PROVE PoolTypeOK'
  BY DEF IInv
<1>0. Idle \in Job
  BY DEF Idle, Job, PCs
<1>1. ASSUME NEW s \in Syncers, NEW a \in Addrs, SyncCheck(s, a) PROVE PoolTypeOK'
  BY <1>1 DEF SyncCheck, PoolTypeOK
<1>2. ASSUME NEW s \in Syncers, SyncSave(s) PROVE PoolTypeOK'
  <2>1. sync[s] \in Addrs
    BY <1>2 DEF SyncSave, PoolTypeOK
  <2>2. owner' \in [Addrs -> Names \cup {NoName}]
    BY <1>2, <2>1 DEF SyncSave, OwnersAfterSave, PoolTypeOK
  <2> QED BY <1>2, <2>1, <2>2 DEF SyncSave, PoolTypeOK
<1>3. ASSUME NEW g \in Agents, AgentStep(g) PROVE PoolTypeOK'
  <2>0. job[g] \in Job /\ job \in [Agents -> Job]
    BY DEF PoolTypeOK
  <2>1. CASE Allocate(g)
    <3>1. ASSUME NEW a \in Candidates(job[g].name), job[g].pc = "alloc",
                 owner' = [owner EXCEPT ![a] = job[g].name],
                 job' = [job EXCEPT ![g] = AfterAlloc(job[g], a)]
          PROVE  owner' \in [Addrs -> Names \cup {NoName}] /\ job' \in [Agents -> Job]
      <4>1. a \in Addrs
        BY <3>1 DEF Candidates, OwnedBy, Available, PoolTypeOK
      <4>2. job[g].name \in Names \cup {NoName}
        BY <2>0 DEF Job
      <4> QED BY <2>0, <3>1, <4>1, <4>2, JobTypes DEF PoolTypeOK
    <3>2. CASE Candidates(job[g].name) = {}
      BY <2>0, <2>1, <3>2, JobTypes DEF Allocate, PoolTypeOK
    <3>3. owner' \in [Addrs -> Names \cup {NoName}] /\ job' \in [Agents -> Job]
      BY <2>1, <3>1, <3>2 DEF Allocate, PoolTypeOK
    <3> QED BY <2>1, <3>3 DEF Allocate, PoolTypeOK
  <2>2. CASE CheckEvent(g)
    BY <2>0, <2>2, JobTypes DEF CheckEvent, PoolTypeOK, PCs
  <2>3. CASE DropEvents(g)
    BY <2>0, <2>3, JobTypes DEF DropEvents, PoolTypeOK, PCs
  <2>4. CASE StoreEvent(g)
    <3>1. [name |-> job[g].name, addr |-> job[g].addr] \in Event
      BY <2>0, <2>4 DEF StoreEvent, Job, Event, IInv, JobsNamed
    <3> QED BY <2>0, <2>4, <3>1, JobTypes DEF StoreEvent, PoolTypeOK
  <2>5. CASE BatchReady(g)
    BY <2>0, <2>5, JobTypes DEF BatchReady, PoolTypeOK, PCs
  <2>6. CASE BatchTimeout(g)
    BY <1>0, <2>0, <2>6 DEF BatchTimeout, PoolTypeOK
  <2>7. CASE BatchPick(g)
    <3>1. job[g].todo \subseteq Names
      BY <2>0 DEF Job
    <3> QED BY <1>0, <2>0, <2>7, <3>1, JobTypes DEF BatchPick, PoolTypeOK
  <2> QED BY <1>3, <2>1, <2>2, <2>3, <2>4, <2>5, <2>6, <2>7 DEF AgentStep
<1>4. ASSUME NEW g \in Agents, AgentStart(g) PROVE PoolTypeOK'
  <2>0. job \in [Agents -> Job] /\ job[g] \in Job
    BY DEF PoolTypeOK
  <2>1. \A e \in events : e.name \in Names /\ e.addr \in Addrs \cup {NoAddr}
    BY DEF PoolTypeOK, Event
  <2>2. ASSUME NEW n \in HexNames, Login(g, n) PROVE job' \in [Agents -> Job]
    BY <2>0, <2>2, KeyAssumption, JobTypes DEF Login
  <2>3. ASSUME NEW e \in events, StartRefresh(g, e) \/ StartReadBack(g, e)
        PROVE  job' \in [Agents -> Job]
    BY <2>0, <2>1, <2>3, JobTypes DEF StartRefresh, StartReadBack, PCs
  <2>4. ASSUME NEW a \in Addrs, NEW e \in events, StartPayment(g, a, e)
        PROVE  job' \in [Agents -> Job]
    <3>1. Payer(a) \in Names
      BY <2>4 DEF StartPayment, Payer, PoolTypeOK
    <3> QED BY <2>0, <2>1, <2>4, <3>1, JobTypes DEF StartPayment, PCs
  <2>5. ASSUME NEW n \in Names, StartAssignTier(g, n) PROVE job' \in [Agents -> Job]
    BY <2>0, <2>5, JobTypes DEF StartAssignTier, PCs
  <2>6. ASSUME StartBatch(g) PROVE job' \in [Agents -> Job]
    <3>1. Unaddressed \subseteq Names
      BY <2>1 DEF Unaddressed
    <3> QED BY <2>0, <2>6, <3>1, JobTypes DEF StartBatch
  <2>7. job' \in [Agents -> Job]
    BY <1>4, <2>2, <2>3, <2>4, <2>5, <2>6 DEF AgentStart
  <2>8. UNCHANGED <<rows, owner, events, mode, sync>>
    BY <1>4 DEF AgentStart, Login, StartRefresh, StartReadBack, StartPayment,
                StartAssignTier, StartBatch
  <2> QED BY <2>7, <2>8 DEF PoolTypeOK
<1>5. ASSUME NEW m \in {"subscription", "free"}, ChangeMode(m) PROVE PoolTypeOK'
  BY <1>5 DEF ChangeMode, PoolTypeOK
<1>6. CASE Restart
  BY <1>0, <1>6 DEF Restart, PoolTypeOK
<1>7. CASE UNCHANGED poolVars
  BY <1>7 DEF poolVars, PoolTypeOK
<1>8. ASSUME NEW e \in events, RemoveUnauthorized(e) PROVE PoolTypeOK'
  BY <1>8 DEF RemoveUnauthorized, PoolTypeOK
<1> QED BY <1>1, <1>2, <1>3, <1>4, <1>5, <1>6, <1>7, <1>8 DEF PoolNext

\* Granting an unowned row to a name without one keeps ownership exclusive.
LEMMA OwnershipKept ==
    ASSUME IInv, [PoolNext]_poolVars PROVE (OwnersKnown /\ Exclusive)'
<1>1. OwnershipStep /\ PoolTypeOK'
  BY StepIsOwnershipStep, PoolTypeStep DEF IInv
<1>2. ASSUME owner' = owner, Learns PROVE (OwnersKnown /\ Exclusive)'
  BY <1>1, <1>2 DEF IInv, OwnersKnown, Exclusive, PoolTypeOK, Learns
<1>3. ASSUME NEW n \in Names, NEW a \in Addrs, Grants(n, a)
      PROVE  (OwnersKnown /\ Exclusive)'
  <2>1. \A b \in Addrs : owner'[b] = IF b = a THEN n ELSE owner[b]
    BY <1>3 DEF Grants, IInv, PoolTypeOK
  <2>2. \A b \in rows : owner[b] # n
    BY <1>3 DEF Grants, OwnedBy
  <2> QED BY <1>1, <1>3, <2>1, <2>2 DEF Grants, IInv, OwnersKnown, Exclusive, PoolTypeOK
<1> QED BY <1>1, <1>2, <1>3 DEF OwnershipStep

-----------------------------------------------------------------------------
(* A job carries the right address: it copies it from an event, or has it   *)
(* from its own allocation.                                                 *)

\* After an allocation the address belongs to the name it was made for.
LEMMA AllocatedBelongs ==
    ASSUME IInv, NEW g \in Agents, job[g].pc = "alloc",
           NEW a \in Candidates(job[g].name),
           owner' = [owner EXCEPT ![a] = job[g].name], rows' = rows
    PROVE  a \in Addrs /\ BelongsNext(job[g].name, a)
<1>1. a \in rows /\ a \in Addrs
  BY DEF Candidates, OwnedBy, Available, IInv, PoolTypeOK
<1>2. job[g].name \in Names
  BY DEF IInv, JobsNamed
<1>3. owner'[a] = job[g].name
  BY <1>1 DEF IInv, PoolTypeOK
<1> QED BY <1>1, <1>2, <1>3, NoneAssumption DEF BelongsNext

\* A job record is sound if it names a user when it needs one, and carries
\* only that user's address.
Sound(r) ==
    /\ r \in Job
    /\ r.pc \in {"alloc", "check", "drop", "store"} => r.name \in Names
    /\ r.name \in Names => BelongsNext(r.name, r.addr)

\* A goroutine that takes a sound record leaves all jobs sound.
LEMMA JobsKept ==
    ASSUME IInv, OwnershipStep, NEW g \in Agents, NEW r, Sound(r),
           job' = [job EXCEPT ![g] = r]
    PROVE  (JobsNamed /\ JobsOwned)'
<1>1. job \in [Agents -> Job] /\ job' \in [Agents -> Job]
  BY DEF IInv, PoolTypeOK, Sound
<1>2. ASSUME NEW h \in Agents PROVE Sound(job'[h])
  <2>1. CASE h = g
    BY <1>1, <2>1
  <2>2. CASE h # g
    <3>1. job'[h] = job[h] /\ job[h] \in Job /\ job[h].addr \in Addrs \cup {NoAddr}
      BY <1>1, <2>2 DEF Job
    <3>2. job[h].name \in Names => BelongsNext(job[h].name, job[h].addr)
      BY <3>1, BelongsForever DEF IInv, JobsOwned
    <3> QED BY <3>1, <3>2 DEF Sound, IInv, JobsNamed
  <2> QED BY <2>1, <2>2
<1> QED BY <1>2 DEF Sound, JobsNamed, JobsOwned, Belongs, BelongsNext

\* Events that stay stay right, and an event a sound job stores is right.
LEMMA EventsKept ==
    ASSUME IInv, OwnershipStep,
           \A e \in events' : e \in events \/ BelongsNext(e.name, e.addr)
    PROVE  PublishedOwned'
<1>1. ASSUME NEW e \in events' PROVE BelongsNext(e.name, e.addr)
  <2>1. CASE e \in events
    <3>1. e.addr \in Addrs \cup {NoAddr} /\ Belongs(e.name, e.addr)
      BY <2>1 DEF IInv, PoolTypeOK, Event, PublishedOwned
    <3> QED BY <3>1, BelongsForever
  <2> QED BY <1>1, <2>1
<1> QED BY <1>1 DEF PublishedOwned, Belongs, BelongsNext

\* Every action of a goroutine puts a sound record in its place.
LEMMA AgentStepSound ==
    ASSUME IInv, OwnershipStep, NEW g \in Agents, AgentStep(g)
    PROVE  (JobsNamed /\ JobsOwned /\ PublishedOwned)'
<1>0. /\ job[g] \in Job /\ Idle \in Job
      /\ job[g].pc \in {"alloc", "check", "drop", "store"} => job[g].name \in Names
      /\ job[g].name \in Names => BelongsNext(job[g].name, job[g].addr)
  <2>1. job[g] \in Job /\ Idle \in Job
    BY JobTypes DEF IInv, PoolTypeOK
  <2>2. job[g].addr \in Addrs \cup {NoAddr}
    BY <2>1 DEF Job
  <2> QED BY <2>1, <2>2, BelongsForever DEF IInv, JobsNamed, JobsOwned
<1>1. Sound(Idle)
  BY <1>0, NoneAssumption DEF Sound, Idle
<1>2. Sound(Skip(job[g]))
  <2>1. Skip(job[g]) \in Job
    BY JobTypes DEF IInv
  <2>2. Skip(job[g]).name = NoName /\ Skip(job[g]).pc \in {"pick", "idle"}
    BY <1>0 DEF Skip, Idle, Job
  <2> QED BY <2>1, <2>2, NoneAssumption DEF Sound
<1>3. CASE Allocate(g)
  <2>1. ASSUME NEW a \in Candidates(job[g].name),
               owner' = [owner EXCEPT ![a] = job[g].name],
               job' = [job EXCEPT ![g] = AfterAlloc(job[g], a)]
        PROVE  (JobsNamed /\ JobsOwned)'
    <3>1. a \in Addrs /\ BelongsNext(job[g].name, a)
      BY <1>3, <2>1, AllocatedBelongs DEF Allocate
    <3>2. AfterAlloc(job[g], a) \in Job
      BY <3>1, JobTypes DEF IInv
    <3>3. AfterAlloc(job[g], a).name = job[g].name /\ AfterAlloc(job[g], a).addr = a
      BY <1>0 DEF AfterAlloc, Job
    <3>4. job[g].name \in Names
      BY <1>0, <1>3 DEF Allocate
    <3>5. Sound(AfterAlloc(job[g], a))
      BY <3>1, <3>2, <3>3, <3>4 DEF Sound
    <3> QED BY <2>1, <3>5, JobsKept
  <2>2. ASSUME job' = [job EXCEPT ![g] = Skip(job[g])] PROVE (JobsNamed /\ JobsOwned)'
    BY <1>2, <2>2, JobsKept
  <2>3. PublishedOwned'
    BY <1>3, EventsKept DEF Allocate
  <2> QED BY <1>3, <2>1, <2>2, <2>3 DEF Allocate
<1>4. ASSUME NEW pc \in {"check", "drop", "store", "pick"},
             pc \in {"drop", "store"} => job[g].name \in Names,
             pc # "check",
             job' = [job EXCEPT ![g] = [job[g] EXCEPT !.pc = pc]]
      PROVE  (JobsNamed /\ JobsOwned)'
  <2>1. [job[g] EXCEPT !.pc = pc] \in Job
    BY <1>4, JobTypes DEF IInv, PCs
  <2>2. /\ [job[g] EXCEPT !.pc = pc].name = job[g].name
        /\ [job[g] EXCEPT !.pc = pc].addr = job[g].addr
        /\ [job[g] EXCEPT !.pc = pc].pc = pc
    BY <1>0 DEF Job
  <2>3. Sound([job[g] EXCEPT !.pc = pc])
    BY <1>0, <1>4, <2>1, <2>2 DEF Sound
  <2> QED BY <1>4, <2>3, JobsKept
<1>5. CASE CheckEvent(g)
  <2>1. (JobsNamed /\ JobsOwned)'
    <3>1. CASE job' = [job EXCEPT ![g] = Idle]
      BY <1>1, <3>1, JobsKept
    <3>2. CASE job' = [job EXCEPT ![g] = [job[g] EXCEPT !.pc = "store"]]
      BY <1>0, <1>4, <1>5, <3>2 DEF CheckEvent
    <3> QED BY <1>5, <3>1, <3>2 DEF CheckEvent
  <2> QED BY <1>5, <2>1, EventsKept DEF CheckEvent
<1>6. CASE DropEvents(g)
  <2>1. job' = [job EXCEPT ![g] = [job[g] EXCEPT !.pc = "store"]]
    BY <1>0, <1>6 DEF DropEvents, IInv, PoolTypeOK
  <2>2. (JobsNamed /\ JobsOwned)'
    BY <1>0, <1>4, <1>6, <2>1 DEF DropEvents
  <2> QED BY <1>6, <2>2, EventsKept DEF DropEvents
<1>7. CASE StoreEvent(g)
  <2>1. (JobsNamed /\ JobsOwned)'
    BY <1>2, <1>7, JobsKept DEF StoreEvent
  <2>2. BelongsNext(job[g].name, job[g].addr)
    BY <1>0, <1>7 DEF StoreEvent
  <2>3. \A e \in events' : e \in events \/ BelongsNext(e.name, e.addr)
    BY <1>7, <2>2 DEF StoreEvent
  <2> QED BY <2>1, <2>3, EventsKept
<1>8. CASE BatchReady(g)
  <2>1. job' = [job EXCEPT ![g] = [job[g] EXCEPT !.pc = "pick"]]
    BY <1>0, <1>8 DEF BatchReady, IInv, PoolTypeOK
  <2>2. (JobsNamed /\ JobsOwned)'
    BY <1>4, <2>1
  <2> QED BY <1>8, <2>2, EventsKept DEF BatchReady
<1>9. CASE BatchTimeout(g)
  BY <1>1, <1>9, JobsKept, EventsKept DEF BatchTimeout
<1>10. CASE BatchPick(g)
  <2>1. ASSUME NEW n \in job[g].todo, job' = [job EXCEPT ![g] = Picked(job[g], n)]
        PROVE  (JobsNamed /\ JobsOwned)'
    <3>1. n \in Names
      BY <1>0 DEF Job
    <3>2. Picked(job[g], n) \in Job
      BY <3>1, JobTypes DEF IInv
    <3>3. Picked(job[g], n).name = n /\ Picked(job[g], n).addr = NoAddr
      BY <1>0, <2>1 DEF Picked, Job
    <3>4. Sound(Picked(job[g], n))
      BY <3>1, <3>2, <3>3 DEF Sound, BelongsNext
    <3> QED BY <2>1, <3>4, JobsKept
  <2>2. ASSUME job' = [job EXCEPT ![g] = Idle] PROVE (JobsNamed /\ JobsOwned)'
    BY <1>1, <2>2, JobsKept
  <2>3. PublishedOwned'
    BY <1>10, EventsKept DEF BatchPick
  <2> QED BY <1>10, <2>1, <2>2, <2>3 DEF BatchPick
<1> QED BY <1>3, <1>5, <1>6, <1>7, <1>8, <1>9, <1>10 DEF AgentStep

\* A new job is sound: it starts without an address, or with the address of
\* an event about the same user.
LEMMA AgentStartSound ==
    ASSUME IInv, OwnershipStep, NEW g \in Agents, AgentStart(g)
    PROVE  (JobsNamed /\ JobsOwned /\ PublishedOwned)'
<1>1. \A e \in events : /\ e.name \in Names /\ e.addr \in Addrs \cup {NoAddr}
                        /\ BelongsNext(e.name, e.addr)
  <2>1. \A e \in events : e.name \in Names /\ e.addr \in Addrs \cup {NoAddr}
    BY DEF IInv, PoolTypeOK, Event
  <2> QED BY <2>1, BelongsForever DEF IInv, PublishedOwned
<1>2. ASSUME NEW n \in Names, NEW a \in Addrs \cup {NoAddr}, NEW pc \in PCs, BelongsNext(n, a)
      PROVE  Sound(Rewrite(n, a, pc))
  <2>1. Rewrite(n, a, pc) \in Job
    BY JobTypes DEF IInv
  <2>2. Rewrite(n, a, pc).name = n /\ Rewrite(n, a, pc).addr = a
    BY DEF Rewrite, Idle
  <2> QED BY <1>2, <2>1, <2>2 DEF Sound
<1>3. ASSUME NEW n \in HexNames, Login(g, n) PROVE (JobsNamed /\ JobsOwned)'
  <2>1. n \in Names /\ LoginJob(n) \in Job
    BY KeyAssumption, JobTypes DEF IInv
  <2>2. LoginJob(n).name = n /\ LoginJob(n).addr = NoAddr
    BY DEF LoginJob, Idle
  <2>3. Sound(LoginJob(n))
    BY <2>1, <2>2 DEF Sound, BelongsNext
  <2> QED BY <1>3, <2>3, JobsKept DEF Login
<1>4. ASSUME NEW e \in events, StartRefresh(g, e) \/ StartReadBack(g, e)
      PROVE  (JobsNamed /\ JobsOwned)'
  BY <1>1, <1>2, <1>4, JobsKept DEF StartRefresh, StartReadBack, PCs
<1>5. ASSUME NEW a \in Addrs, NEW e \in events, StartPayment(g, a, e)
      PROVE  (JobsNamed /\ JobsOwned)'
  <2>1. Payer(a) \in Names
    BY <1>5 DEF StartPayment, Payer, IInv, PoolTypeOK
  <2>2. KeyOf[e.name] = KeyOf[Payer(a)]
    BY <1>5 DEF StartPayment, SameUser
  <2>3. BelongsNext(Payer(a), e.addr)
    BY <1>1, <2>2 DEF BelongsNext
  <2>4. Sound(Rewrite(Payer(a), e.addr, "drop"))
    BY <1>1, <1>2, <2>1, <2>3 DEF PCs
  <2> QED BY <1>5, <2>4, JobsKept DEF StartPayment
<1>6. ASSUME NEW n \in Names, StartAssignTier(g, n) PROVE (JobsNamed /\ JobsOwned)'
  <2>1. BelongsNext(n, NoAddr)
    BY DEF BelongsNext
  <2>2. Sound(Rewrite(n, NoAddr, "drop"))
    BY <1>2, <2>1 DEF PCs
  <2> QED BY <1>6, <2>2, JobsKept DEF StartAssignTier
<1>7. ASSUME StartBatch(g) PROVE (JobsNamed /\ JobsOwned)'
  <2>1. BatchJob(Unaddressed) \in Job
    BY <1>1, JobTypes DEF IInv, Unaddressed
  <2>2. BatchJob(Unaddressed).name = NoName /\ BatchJob(Unaddressed).pc = "enough"
    BY DEF BatchJob, Idle
  <2>3. Sound(BatchJob(Unaddressed))
    BY <2>1, <2>2, NoneAssumption DEF Sound
  <2> QED BY <1>7, <2>3, JobsKept DEF StartBatch
<1>8. (JobsNamed /\ JobsOwned)'
  BY <1>3, <1>4, <1>5, <1>6, <1>7 DEF AgentStart
<1>9. events' = events
  BY DEF AgentStart, Login, StartRefresh, StartReadBack, StartPayment, StartAssignTier, StartBatch
<1> QED BY <1>8, <1>9, EventsKept

\* Steps that touch no job leave the jobs and the events sound.
LEMMA JobsUntouched ==
    ASSUME IInv, OwnershipStep, job' = job, events' \subseteq events
    PROVE  (JobsNamed /\ JobsOwned /\ PublishedOwned)'
<1>1. ASSUME NEW h \in Agents, job[h].name \in Names
      PROVE  BelongsNext(job[h].name, job[h].addr)
  <2>1. job[h].addr \in Addrs \cup {NoAddr}
    BY DEF IInv, PoolTypeOK, Job
  <2> QED BY <1>1, <2>1, BelongsForever DEF IInv, JobsOwned
<1>2. (JobsNamed /\ JobsOwned)'
  BY <1>1 DEF IInv, JobsNamed, JobsOwned, Belongs, BelongsNext
<1> QED BY <1>2, EventsKept

LEMMA StepInv == IInv /\ [PoolNext]_poolVars => IInv'
<1> SUFFICES ASSUME IInv, [PoolNext]_poolVars PROVE IInv'
  OBVIOUS
<1>1. OwnershipStep
  BY StepIsOwnershipStep
<1>2. (JobsNamed /\ JobsOwned /\ PublishedOwned)'
  <2>1. ASSUME NEW g \in Agents, AgentStep(g) \/ AgentStart(g)
        PROVE  (JobsNamed /\ JobsOwned /\ PublishedOwned)'
    BY <1>1, <2>1, AgentStepSound, AgentStartSound
  <2>2. CASE Restart
    <3>1. \A h \in Agents : job'[h].pc = "idle" /\ job'[h].name = NoName
      BY <2>2 DEF Restart, Idle
    <3>2. (JobsNamed /\ JobsOwned)'
      BY <3>1, NoneAssumption DEF JobsNamed, JobsOwned
    <3> QED BY <1>1, <2>2, <3>2, EventsKept DEF Restart
  <2>3. CASE UNCHANGED <<job, events>>
    BY <1>1, <2>3, JobsUntouched
  <2>4. ASSUME NEW e \in events, RemoveUnauthorized(e)
        PROVE  (JobsNamed /\ JobsOwned /\ PublishedOwned)'
    BY <1>1, <2>4, JobsUntouched DEF RemoveUnauthorized
  <2> QED BY <2>1, <2>2, <2>3, <2>4 DEF PoolNext, poolVars, SyncCheck, SyncSave, ChangeMode
<1> QED BY <1>2, PoolTypeStep, OwnershipKept DEF IInv

-----------------------------------------------------------------------------
(* The theorems.                                                            *)

\* The inductive invariant holds in every reachable state.
THEOREM Invariance == PoolSpec => []IInv
BY InitInv, StepInv, PTL DEF PoolSpec

\* The table, the events and every goroutine's job keep their types
\* (statistics_gorm.go, lib/subscription).
THEOREM PoolTypeCorrect == PoolSpec => []PoolTypeOK
<1>1. IInv => PoolTypeOK
  BY DEF IInv
<1> QED BY <1>1, Invariance, PTL

\* No subscriber is ever given a second address by AllocateBitcoinAddress,
\* whatever logins, batches, syncs and restarts interleave.
THEOREM OwnershipExclusive == PoolSpec => []Exclusive
<1>1. IInv => Exclusive
  BY DEF IInv
<1> QED BY <1>1, Invariance, PTL

\* Whatever rewrites of kind 11888 events race, the address shown to a user is
\* owned by that user, so a payment to it is credited to that user.
THEOREM PaymentsRoutedRight == PoolSpec => []PublishedOwned
<1>1. IInv => PublishedOwned
  BY DEF IInv
<1> QED BY <1>1, Invariance, PTL

-----------------------------------------------------------------------------
(* Refinement: every step of the pool is a step of the address book or      *)
(* changes nothing in it.                                                   *)

\* A row a name owns is the address the book shows for it.
LEMMA HolderUnique ==
    ASSUME IInv, NEW n \in Names, NEW a \in OwnedBy(n) PROVE HolderOf(n) = a
<1>1. \A b \in OwnedBy(n) : b = a
  BY NoneAssumption DEF OwnedBy, IInv, Exclusive
<1> QED BY <1>1 DEF HolderOf, AnyOf

\* Learning an address changes no holder: nobody owned it before.
LEMMA LearnKeepsHolders ==
    ASSUME IInv, owner' = owner, Learns
    PROVE  [n \in Names |-> HolderOf(n)]' = [n \in Names |-> HolderOf(n)]
<1>1. ASSUME NEW n \in Names PROVE OwnedBy(n)' = OwnedBy(n)
  <2>1. \A a \in Addrs : owner[a] = n => a \in rows
    BY NoneAssumption DEF IInv, OwnersKnown
  <2> QED BY <2>1 DEF OwnedBy, Learns, IInv, PoolTypeOK
<1>2. ASSUME NEW n \in Names PROVE HolderOf(n)' = HolderOf(n)
  BY <1>1 DEF HolderOf
<1> QED BY <1>2

\* Granting a row assigns it to its new holder and to nobody else.
LEMMA GrantAssigns ==
    ASSUME IInv, NEW n \in Names, NEW a \in Addrs, Grants(n, a)
    PROVE  Book!Assign(n, a)
<1>1. \A b \in Addrs : owner'[b] = IF b = a THEN n ELSE owner[b]
  BY DEF Grants, IInv, PoolTypeOK
<1>2. OwnedBy(n)' = {a}
  <2>1. \A b \in rows : owner[b] # n
    BY DEF Grants, OwnedBy
  <2> QED BY <1>1, <2>1 DEF Grants, OwnedBy, IInv, PoolTypeOK
<1>3. HolderOf(n)' = a
  BY <1>2 DEF HolderOf, AnyOf
<1>4. ASSUME NEW m \in Names, m # n PROVE HolderOf(m)' = HolderOf(m)
  <2>1. OwnedBy(m)' = OwnedBy(m)
    BY <1>1, <1>4, NoneAssumption DEF Grants, OwnedBy, IInv, PoolTypeOK
  <2> QED BY <2>1 DEF HolderOf
<1>5. HolderOf(n) = NoAddr
  BY DEF Grants, HolderOf
<1>6. ASSUME NEW m \in Names PROVE HolderOf(m) # a
  <2>1. CASE OwnedBy(m) = {}
    BY <2>1, NoneAssumption DEF HolderOf
  <2>2. CASE OwnedBy(m) # {}
    <3>1. PICK b \in OwnedBy(m) : TRUE
      BY <2>2
    <3>2. HolderOf(m) = b /\ owner[b] = m
      BY <3>1, HolderUnique DEF OwnedBy
    <3> QED BY <3>2, NoneAssumption DEF Grants
  <2> QED BY <2>1, <2>2
<1> DEFINE H == [m \in Names |-> HolderOf(m)]
<1>7. H' = [H EXCEPT ![n] = a]
  BY <1>3, <1>4
<1> QED BY <1>5, <1>6, <1>7 DEF Book!Assign, Grants

\* The address pool implements the address book: holders are never changed,
\* shared or forgotten, so a payer is identified by the address alone.
THEOREM PoolImplementsBook == PoolSpec => ImplementsBook
<1>1. PoolInit => Book!Init
  <2>1. ASSUME PoolInit, NEW n \in Names PROVE HolderOf(n) = NoAddr
    BY <2>1 DEF PoolInit, HolderOf, OwnedBy
  <2> QED BY <2>1 DEF PoolInit, Book!Init
<1>2. IInv /\ [PoolNext]_poolVars => [Book!Next]_<<rows, [n \in Names |-> HolderOf(n)]>>
  <2> SUFFICES ASSUME IInv, [PoolNext]_poolVars
               PROVE  [Book!Next]_<<rows, [n \in Names |-> HolderOf(n)]>>
    OBVIOUS
  <2>1. CASE owner' = owner /\ Learns
    <3>1. [n \in Names |-> HolderOf(n)]' = [n \in Names |-> HolderOf(n)]
      BY <2>1, LearnKeepsHolders
    <3> QED BY <2>1, <3>1 DEF Learns, Book!Next, Book!Learn
  <2>2. ASSUME NEW n \in Names, NEW a \in Addrs, Grants(n, a) PROVE Book!Next
    BY <2>2, GrantAssigns DEF Book!Next
  <2> QED BY <2>1, <2>2, StepIsOwnershipStep DEF OwnershipStep
<1> QED BY <1>1, <1>2, Invariance, PTL DEF PoolSpec, ImplementsBook, Book!Spec

-----------------------------------------------------------------------------
(* Notify *)

\* A handler carries an event only from its answer to the notification, and
\* query results only into the answer; a new connection's has not started.
HandInv ==
    \A c \in Conns :
        /\ hand[c].then \in {"loop", "auth", "notify", "bye"}
        /\ hand[c].pc = "notify" => hand[c].then = "notify"
        /\ hand[c].then = "notify" => hand[c].ev # NoEvent
        /\ hand[c].ev # NoEvent => hand[c].then = "notify" /\ hand[c].pc \in {"lock", "write", "notify"}
        /\ hand[c].ans # {} => hand[c].then = "loop" /\ hand[c].pc \in {"lock", "write"}
        /\ hand[c].pc = "sync" => listeners[c] # None
        /\ conn[c] = "new" => hand[c].pc = "loop"

\* The processor's position determines what it carries.
ProcInv ==
    /\ proc.pc \in {"subs", "lock", "write"} <=> proc.c # NoConn
    /\ proc.pc \in {"lock", "write"} <=> proc.id # NoId
    /\ proc.pc \in {"conns", "subs", "lock", "write"} <=> proc.ev # NoEvent

\* A wanted subscription is in the registered map, and the entry is
\* authenticated unless the handler is about to make it so.
Listening(c) ==
    /\ listeners[c] # None => listeners[c].map = maps[c]
    /\ \A id \in SubIds :
           want[c][id] # NoFilter =>
               /\ authed[c] /\ listeners[c] # None /\ subs[c][id] = want[c][id]
               /\ listeners[c].auth \/ (hand[c].pc = "sync" /\ hand[c].id = id)
RegInv == \A c \in Conns : Listening(c)

NotifyInv == TypeOK /\ HandInv /\ ProcInv /\ RegInv /\ NoGap

\* The three places of NoGap, and a handler that is none of them.
Covered(c, id, e) == Queued(e) \/ Underway(c, id, e) \/ Answering(c, id, e)
Quiet(c) == hand[c].ev = NoEvent /\ hand[c].ans = {} /\ hand[c].pc \notin {"sync", "query"}

-----------------------------------------------------------------------------
(* The state's type *)

\* The handler at rest is well typed.
LEMMA HandRest == AtRest \in HandType
  BY DEF HandType, AtRest, Pcs

\* The ways an action changes a handler keep its type.
LEMMA HandShapes ==
    ASSUME NEW h \in HandType, NEW pc \in Pcs, NEW then \in Pcs
    PROVE  /\ [h EXCEPT !.pc = pc] \in HandType
           /\ [h EXCEPT !.pc = pc, !.then = then] \in HandType
           /\ \A id \in SubIds : [h EXCEPT !.pc = pc, !.id = id] \in HandType
           /\ \A e \in Events : [h EXCEPT !.pc = pc, !.then = then, !.ev = e] \in HandType
           /\ \A mu \in {0, 1, 2} : [h EXCEPT !.pc = pc, !.mu = mu] \in HandType
           /\ \A A \in SUBSET Events : [h EXCEPT !.pc = pc, !.then = then, !.ans = A] \in HandType
  BY DEF HandType

\* No entry is an entry of the type.
LEMMA NoneTyped == None \in Entries
  BY DEF None, Entries

\* The initial state is well typed.
LEMMA TypeInit == Init => TypeOK
<1> SUFFICES ASSUME Init PROVE TypeOK  OBVIOUS
<1>1. Waiting \in ProcType
  BY NoneTyped DEF ProcType, Waiting, NoEntries
<1>2. NoSubs \in Wishes /\ Nothing \in [SubIds -> SUBSET Events]
  BY DEF NoSubs, Wishes, Nothing
<1>3. chan \in Seq(Events) /\ Len(chan) <= QueueSize
  BY NotifyAssumption DEF Init
<1>4. hand \in [Conns -> HandType] /\ proc \in ProcType
  BY <1>1, HandRest DEF Init
<1>5. listeners \in [Conns -> Entries]
  BY NoneTyped DEF Init
<1>6. subs \in [Conns -> Wishes] /\ want \in [Conns -> Wishes]
  BY <1>2 DEF Init
<1>7. sent \in [Conns -> [SubIds -> SUBSET Events]]
  BY <1>2 DEF Init
<1>8. attempts \in [Conns -> 0..MaxAuthAttempts] /\ used \in [Conns -> Nat]
  BY NotifyAssumption DEF Init
<1>9. maps \in [Conns -> {0, 1, 2}] /\ connWriteMu \in [Conns -> {0, 1, 2}]
  BY DEF Init
<1>10. /\ conn \in [Conns -> {"new", "open", "ended"}] /\ broken \in [Conns -> BOOLEAN]
       /\ authed \in [Conns -> BOOLEAN] /\ blocked \in [Conns -> BOOLEAN]
       /\ ticker \in [Conns -> {"off", "run", "write"}]
  BY DEF Init
<1>11. /\ alive \in BOOLEAN /\ shutdown \in BOOLEAN
       /\ stored \subseteq Events /\ dropped \subseteq Events
  BY DEF Init
<1> QED  BY <1>3, <1>4, <1>5, <1>6, <1>7, <1>8, <1>9, <1>10, <1>11 DEF TypeOK

\* Every step keeps the types: each goroutine knows what it carries.
LEMMA TypeStep == TypeOK /\ HandInv /\ ProcInv /\ Next => TypeOK'
<1> SUFFICES ASSUME TypeOK, HandInv, ProcInv, Next PROVE TypeOK'  OBVIOUS
<1>proc. proc \in ProcType
  BY DEF TypeOK
<1>entry. ASSUME NEW c \in Conns PROVE Entry(c) \in Entries
  BY DEF Entry, NewMap, TypeOK, Entries
<1>1. ASSUME NEW c \in Conns, NEW id \in SubIds, NEW f \in Filters, Req(c, id, f) PROVE TypeOK'
  <2>1. hand' \in [Conns -> HandType]
    BY <1>1, HandRest, HandShapes DEF Req, TypeOK, Pcs
  <2>5. Entry(c) \in Entries /\ Entry(c).map \in {0, 1, 2}
    BY <1>entry DEF Entries
  <2>3. listeners' \in [Conns -> Entries] /\ maps' \in [Conns -> {0, 1, 2}]
    BY <1>1, <2>5 DEF Req, SetListener, TypeOK
  <2>4. subs' \in [Conns -> Wishes] /\ want' \in [Conns -> Wishes]
    BY <1>1 DEF Req, SetListener, TypeOK, Wishes, NoSubs
  <2> QED  BY <1>1, <2>1, <2>3, <2>4 DEF Req, Read, TypeOK, life, state, regs, hist
<1>2. ASSUME NEW c \in Conns, NEW id \in SubIds, NEW f \in Filters, Count(c, id, f) PROVE TypeOK'
  <2>1. hand' \in [Conns -> HandType]
    BY <1>2, HandRest, HandShapes DEF Count, Answer, TypeOK, Pcs
  <2>5. Entry(c) \in Entries /\ Entry(c).map \in {0, 1, 2}
    BY <1>entry DEF Entries
  <2>3. listeners' \in [Conns -> Entries] /\ maps' \in [Conns -> {0, 1, 2}]
    BY <1>2, <2>5 DEF Count, SetListener, TypeOK
  <2>4. subs' \in [Conns -> Wishes] /\ want' \in [Conns -> Wishes]
    BY <1>2 DEF Count, SetListener, TypeOK, Wishes, NoSubs
  <2> QED  BY <1>2, <2>1, <2>3, <2>4 DEF Count, Read, TypeOK, life, state, regs, hist
<1>3. ASSUME NEW c \in Conns, NEW id \in SubIds, Close(c, id) PROVE TypeOK'
  <2>1. hand' \in [Conns -> HandType]
    BY <1>3, HandRest, HandShapes DEF Close, Answer, TypeOK, Pcs
  <2>2. [subs[c] EXCEPT ![id] = NoFilter] \in Wishes
    BY DEF TypeOK, Wishes
  <2>3. subs' \in [Conns -> Wishes]
    BY <1>3, <2>2 DEF Close, TypeOK
  <2>4. want' \in [Conns -> Wishes] /\ sent' \in [Conns -> [SubIds -> SUBSET Events]]
    BY <1>3 DEF Close, TypeOK, Wishes
  <2>5. listeners' \in [Conns -> Entries]
    BY <1>3, NoneTyped DEF Close, TypeOK
  <2>6. connWriteMu' \in [Conns -> {0, 1, 2}]
    BY <1>3 DEF Close, TypeOK
  <2>7. used' \in [Conns -> Nat]
    BY <1>3 DEF Close, Read, TypeOK
  <2> QED  BY <1>3, <2>1, <2>3, <2>4, <2>5, <2>6, <2>7 DEF Close, TypeOK, life, state, regs,
       hist
<1>4. ASSUME NEW c \in Conns, NEW e \in Events, NEW ok \in BOOLEAN, Publish(c, e, ok) PROVE TypeOK'
  <2>1. hand' \in [Conns -> HandType]
    BY <1>4, HandRest, HandShapes DEF Publish, TypeOK, Pcs
  <2> QED  BY <1>4, <2>1 DEF Publish, Read, Kept, TypeOK, life, state, regs, hist
<1>5. ASSUME NEW c \in Conns, Auth(c) PROVE TypeOK'
  <2>1. /\ [AtRest EXCEPT !.pc = "lock", !.then = "loop"] \in HandType
        /\ [AtRest EXCEPT !.pc = "lock", !.then = "auth"] \in HandType
    BY HandRest, HandShapes DEF Pcs
  <2>2. Answer(c, "loop") \/ Answer(c, "auth")
    BY <1>5 DEF Auth
  <2>3. hand' \in [Conns -> HandType]
    BY <2>1, <2>2 DEF Answer, TypeOK
  <2>4. attempts' \in [Conns -> 0..MaxAuthAttempts] /\ used' \in [Conns -> Nat]
    BY <1>5, NotifyAssumption DEF Auth, Read, TypeOK
  <2> QED  BY <1>5, <2>3, <2>4 DEF Auth, TypeOK, life, state, regs, hist
<1>6. ASSUME NEW c \in Conns, AuthNotice(c) PROVE TypeOK'
  <2>1. hand' \in [Conns -> HandType]
    BY <1>6, HandRest, HandShapes DEF AuthNotice, Unguarded, TypeOK, Pcs
  <2>2. used' \in [Conns -> Nat]
    BY <1>6 DEF AuthNotice, Read, TypeOK
  <2> QED  BY <1>6, <2>1, <2>2 DEF AuthNotice, Read, TypeOK, life, state, regs, hist
<1>7. ASSUME NEW c \in Conns, Refuse(c) PROVE TypeOK'
  <2>1. hand' \in [Conns -> HandType]
    BY <1>7, HandRest, HandShapes DEF Refuse, Answer, TypeOK, Pcs
  <2>2. used' \in [Conns -> Nat]
    BY <1>7 DEF Refuse, Read, TypeOK
  <2> QED  BY <1>7, <2>1, <2>2 DEF Refuse, Read, TypeOK, life, state, regs, hist
<1>8. ASSUME NEW c \in Conns, Terminate(c) PROVE TypeOK'
  <2>1. hand' \in [Conns -> HandType]
    BY <1>8, HandRest, HandShapes DEF Terminate, Unguarded, TypeOK, Pcs
  <2>2. used' \in [Conns -> Nat]
    BY <1>8 DEF Terminate, Read, TypeOK
  <2> QED  BY <1>8, <2>1, <2>2 DEF Terminate, Read, TypeOK, life, state, regs, hist
<1>9. ASSUME NEW c \in Conns, ToRead(c) PROVE TypeOK'
  <2>2. [hand[c] EXCEPT !.pc = "read"] \in HandType
    BY HandShapes DEF TypeOK, Pcs
  <2>1. hand' \in [Conns -> HandType]
    BY <1>9, <2>2 DEF ToRead, TypeOK
  <2> QED  BY <1>9, <2>1 DEF ToRead, TypeOK, life, state, regs, hist
<1>10. ASSUME NEW c \in Conns, StopReading(c) PROVE TypeOK'
  <2>1. hand \in [Conns -> HandType]
    BY DEF TypeOK
  <2>2. [hand[c] EXCEPT !.pc = "bye"] \in HandType
    BY <2>1, HandShapes DEF Pcs
  <2>3. [AtRest EXCEPT !.pc = "write", !.then = "bye"] \in HandType
    BY HandRest, HandShapes DEF Pcs
  <2>4. hand' \in [Conns -> HandType]
    BY <1>10, <2>1, <2>2, <2>3 DEF StopReading, Unguarded
  <2> QED  BY <1>10, <2>4 DEF StopReading, TypeOK, life, state, regs, hist
<1>11. ASSUME NEW c \in Conns, ReadFails(c) PROVE TypeOK'
  <2>2. [hand[c] EXCEPT !.pc = "bye"] \in HandType
    BY HandShapes DEF TypeOK, Pcs
  <2>1. hand' \in [Conns -> HandType]
    BY <1>11, <2>2 DEF ReadFails, TypeOK
  <2> QED  BY <1>11, <2>1 DEF ReadFails, TypeOK, life, state, regs, hist
<1>12. ASSUME NEW c \in Conns, Sync(c) PROVE TypeOK'
  <2>1. [hand[c] EXCEPT !.pc = "query"] \in HandType
    BY HandShapes DEF TypeOK, Pcs
  <2>2. hand' \in [Conns -> HandType]
    BY <1>12, <2>1 DEF Sync, TypeOK
  <2>3. listeners' \in [Conns -> Entries]
    BY <1>12 DEF Sync, TypeOK, Entries
  <2> QED  BY <1>12, <2>2, <2>3 DEF Sync, TypeOK, life, state, regs, hist
<1>13. ASSUME NEW c \in Conns, Query(c) PROVE TypeOK'
  <2>1. stored \cap subs[c][hand[c].id] \in SUBSET Events
    BY DEF TypeOK
  <2>2. [hand[c] EXCEPT !.pc = "lock", !.then = "loop", !.ans = stored \cap subs[c][hand[c].id]] \in HandType
    BY <2>1, HandShapes DEF TypeOK, Pcs
  <2>3. hand' \in [Conns -> HandType]
    BY <1>13, <2>2 DEF Query, TypeOK
  <2> QED  BY <1>13, <2>3 DEF Query, TypeOK, life, state, regs, hist
<1>14. ASSUME NEW c \in Conns, Authenticated(c) PROVE TypeOK'
  <2>1. hand' \in [Conns -> HandType]
    BY <1>14, HandRest DEF Authenticated, TypeOK
  <2>2. listeners' \in [Conns -> Entries]
    BY <1>14 DEF Authenticated, TypeOK, Entries
  <2> QED  BY <1>14, <2>1, <2>2 DEF Authenticated, TypeOK, life, state, regs, hist
<1>15. ASSUME NEW c \in Conns, NotifyListeners(c) PROVE TypeOK'
  <2>1. hand' \in [Conns -> HandType]
    BY <1>15, HandRest DEF NotifyListeners, TypeOK
  <2>2. hand[c].ev \in Events
    BY <1>15 DEF NotifyListeners, HandInv, TypeOK, HandType
  <2>3. dropped' \subseteq Events
    BY <1>15, <2>2 DEF NotifyListeners, TypeOK
  <2>4. chan' \in Seq(Events) /\ Len(chan') <= QueueSize
    <3>1. CASE chan' = Append(chan, hand[c].ev) /\ Len(chan) < QueueSize
      BY <2>2, <3>1, NotifyAssumption DEF TypeOK
    <3>2. CASE chan' = chan
      BY <3>2 DEF TypeOK
    <3> QED  BY <1>15, <3>1, <3>2 DEF NotifyListeners, Room
  <2> QED  BY <1>15, <2>1, <2>3, <2>4 DEF NotifyListeners, TypeOK, life, state, regs, hist
<1>16. ASSUME NEW c \in Conns, Lock(c) PROVE TypeOK'
  <2>1. MutexOf(c) \in {0, 1, 2}
    BY DEF MutexOf, NewMutex, TypeOK
  <2>h. hand[c] \in HandType /\ "write" \in Pcs
    BY DEF TypeOK, Pcs
  <2>2. [hand[c] EXCEPT !.pc = "write", !.mu = MutexOf(c)] \in HandType
    BY <2>1, <2>h, HandShapes
  <2>3. hand' \in [Conns -> HandType]
    BY <1>16, <2>2 DEF Lock, TypeOK
  <2> QED  BY <1>16, <2>1, <2>3 DEF Lock, GetMutex, TypeOK, life, state, regs, hist
<1>17. ASSUME NEW c \in Conns, Written(c) PROVE TypeOK'
  <2>1. hand[c] \in HandType /\ hand[c].then \in Pcs
    BY DEF TypeOK, HandType
  <2>2. Released(hand[c]) \in HandType
    BY <2>1, HandRest, HandShapes DEF Released
  <2>3. hand' \in [Conns -> HandType]
    BY <1>17, <2>2 DEF Written, TypeOK
  <2>4. sent' \in [Conns -> [SubIds -> SUBSET Events]]
    BY <1>17, <2>1 DEF Written, TypeOK, HandType
  <2> QED  BY <1>17, <2>3, <2>4 DEF Written, TypeOK, life, state, regs, hist
<1>18. ASSUME NEW c \in Conns, End(c) PROVE TypeOK'
  <2>1. hand' \in [Conns -> HandType]
    BY <1>18, HandRest DEF End, TypeOK, Pcs
  <2>2. NoSubs \in Wishes
    BY DEF NoSubs, Wishes
  <2> QED  BY <1>18, <2>1, <2>2, NoneTyped DEF End, TypeOK, life, state, regs, hist
<1>19. ASSUME NEW c \in Conns, TickBlocked(c) PROVE TypeOK'
  BY <1>19 DEF TickBlocked, TypeOK, life, state, regs, hist
<1>20. ASSUME NEW c \in Conns, TickCloses(c) PROVE TypeOK'
  BY <1>20 DEF TickCloses, TypeOK, life, state, regs, hist
<1>21. ASSUME NEW c \in Conns, TickStops(c) PROVE TypeOK'
  BY <1>21 DEF TickStops, TypeOK, life, state, regs, hist
<1>22. ASSUME Take PROVE TypeOK'
  <2>2. Head(chan) \in Events /\ Tail(chan) \in Seq(Events) /\ Len(Tail(chan)) <= QueueSize
    BY <1>22, NotifyAssumption DEF Take, TypeOK
  <2>1. proc' \in ProcType
    BY <1>22, <2>2, <1>proc, NotifyAssumption DEF Take, ProcType
  <2> QED  BY <1>22, <2>1, <2>2 DEF Take, TypeOK, life, state, regs, hist, Keep
<1>23. ASSUME SeeShutdown PROVE TypeOK'
  <2>1. proc' \in ProcType
    BY <1>23, <1>proc, NotifyAssumption DEF SeeShutdown, ProcType
  <2> QED  BY <1>23, <2>1 DEF SeeShutdown, TypeOK, life, state, regs, hist, Keep
<1>24. ASSUME Exit PROVE TypeOK'
  <2>1. proc' \in ProcType
    BY <1>24, <1>proc, NotifyAssumption DEF Exit, ProcType
  <2> QED  BY <1>24, <2>1 DEF Exit, TypeOK, life, state, regs, hist, Keep
<1>25. ASSUME CopyConns PROVE TypeOK'
  <2>1. PICK B \in SUBSET proc.conns :
           proc' = [proc EXCEPT !.conns = @ \ B,
                                !.found = [c \in Conns |-> IF c \in B /\ Admits(c)
                                                           THEN listeners[c] ELSE @[c]]]
    BY <1>25 DEF CopyConns
  <2>2. [c \in Conns |-> IF c \in B /\ Admits(c) THEN listeners[c] ELSE proc.found[c]]
            \in [Conns -> Entries]
    BY <1>proc DEF ProcType, TypeOK
  <2>3. proc' \in ProcType
    BY <2>1, <2>2, <1>proc DEF ProcType
  <2> QED  BY <1>25, <2>3 DEF CopyConns, Keep, TypeOK, life, state, regs, hist
<1>26. ASSUME Visit PROVE TypeOK'
  <2>1. PICK c \in Conns :
           proc' = [proc EXCEPT !.pc = "subs", !.found[c] = None, !.c = c,
                                !.map = proc.found[c].map, !.ids = SubIds]
    BY <1>26 DEF Visit
  <2>2. proc.found[c].map \in {0, 1, 2} /\ [proc.found EXCEPT ![c] = None] \in [Conns -> Entries]
    BY NoneTyped, <1>proc DEF ProcType, Entries
  <2>3. proc' \in ProcType
    BY <2>1, <2>2, <1>proc DEF ProcType
  <2> QED  BY <1>26, <2>3 DEF Visit, Keep, TypeOK, life, state, regs, hist
<1>27. ASSUME AllVisited PROVE TypeOK'
  <2>1. proc' \in ProcType
    BY <1>27, <1>proc, NotifyAssumption DEF AllVisited, ProcType
  <2> QED  BY <1>27, <2>1 DEF AllVisited, TypeOK, life, state, regs, hist, Keep
<1>28. ASSUME CopySubs PROVE TypeOK'
  <2>1. PICK B \in SUBSET proc.ids :
           proc' = [proc EXCEPT !.ids = @ \ B,
                                !.match = @ \cup {id \in B : Matches(proc.c, id)}]
    BY <1>28 DEF CopySubs
  <2>2. {id \in B : Matches(proc.c, id)} \subseteq SubIds
    BY <1>proc DEF ProcType
  <2>3. proc' \in ProcType
    BY <2>1, <2>2, <1>proc DEF ProcType
  <2> QED  BY <1>28, <2>3 DEF CopySubs, Keep, TypeOK, life, state, regs, hist
<1>29. ASSUME VisitSub PROVE TypeOK'
  <2>1. proc.c \in Conns /\ MutexOf(proc.c) \in {0, 1, 2}
    BY <1>29, <1>proc DEF VisitSub, ProcInv, ProcType, MutexOf, NewMutex, TypeOK
  <2>2. PICK id \in proc.match :
           proc' = [proc EXCEPT !.pc = "lock", !.match = @ \ {id}, !.id = id,
                                !.mu = MutexOf(proc.c)]
    BY <1>29 DEF VisitSub
  <2>3. id \in SubIds
    BY <1>proc DEF ProcType
  <2>4. proc' \in ProcType
    BY <2>1, <2>2, <2>3, <1>proc DEF ProcType
  <2>5. connWriteMu' \in [Conns -> {0, 1, 2}]
    BY <1>29, <2>1 DEF VisitSub, GetMutex, TypeOK
  <2> QED  BY <1>29, <2>4, <2>5 DEF VisitSub, Keep, TypeOK, life, state, regs, hist
<1>30. ASSUME ProcLock PROVE TypeOK'
  <2>1. proc' \in ProcType
    BY <1>30, <1>proc, NotifyAssumption DEF ProcLock, ProcType
  <2> QED  BY <1>30, <2>1 DEF ProcLock, TypeOK, life, state, regs, hist, Keep
<1>31. ASSUME ProcWritten PROVE TypeOK'
  <2>1. proc' \in ProcType
    BY <1>31, <1>proc, NotifyAssumption DEF ProcWritten, ProcType
  <2>2. proc.c \in Conns /\ proc.id \in SubIds /\ proc.ev \in Events
    BY <1>31, <1>proc DEF ProcWritten, ProcType, ProcInv
  <2>3. sent' \in [Conns -> [SubIds -> SUBSET Events]]
    BY <1>31, <2>2 DEF ProcWritten, TypeOK
  <2> QED  BY <1>31, <2>1, <2>3 DEF ProcWritten, TypeOK, life, state, regs, hist, Keep
<1>32. ASSUME SubsVisited PROVE TypeOK'
  <2>1. proc' \in ProcType
    BY <1>32, <1>proc, NotifyAssumption DEF SubsVisited, ProcType
  <2> QED  BY <1>32, <2>1 DEF SubsVisited, TypeOK, life, state, regs, hist, Keep
<1>33. ASSUME NEW c \in Conns, Connect(c) PROVE TypeOK'
  <2>1. /\ [AtRest EXCEPT !.pc = "write", !.then = "bye"] \in HandType
        /\ [AtRest EXCEPT !.pc = "lock", !.then = "loop"] \in HandType
    BY HandRest, HandShapes DEF Pcs
  <2>2. hand \in [Conns -> HandType]
    BY DEF TypeOK
  <2>3. hand' \in [Conns -> HandType]
    BY <1>33, <2>1, <2>2 DEF Connect, Answer, Unguarded
  <2> QED  BY <1>33, <2>3 DEF Connect, TypeOK, life, state, regs, hist
<1>34. ASSUME NEW c \in Conns, Disconnect(c) PROVE TypeOK'
  BY <1>34 DEF Disconnect, TypeOK, life, state, regs, hist
<1>35. ASSUME NEW c \in Conns, Block(c) PROVE TypeOK'
  BY <1>35 DEF Block, TypeOK, life, state, regs, hist
<1>36. ASSUME NEW c \in Conns, PanicHandler(c) PROVE TypeOK'
  <2>1. [AtRest EXCEPT !.pc = "bye"] \in HandType
    BY HandRest, HandShapes DEF Pcs
  <2>2. hand' \in [Conns -> HandType]
    BY <1>36, <2>1 DEF PanicHandler, TypeOK
  <2>3. dropped' \subseteq Events
    BY <1>36 DEF PanicHandler, TypeOK, HandType
  <2> QED  BY <1>36, <2>2, <2>3 DEF PanicHandler, TypeOK, life, state, regs, hist
<1>37. ASSUME SignalShutdown PROVE TypeOK'
  BY <1>37 DEF SignalShutdown, TypeOK, life, state, regs, hist
<1>38. ASSUME PanicProcess PROVE TypeOK'
  BY <1>38 DEF PanicProcess, TypeOK, life, state, regs, hist
<1> QED
  BY <1>1, <1>2, <1>3, <1>4, <1>5, <1>6, <1>7, <1>8, <1>9, <1>10, <1>11, <1>12, <1>13, <1>14,
       <1>15, <1>16, <1>17, <1>18, <1>19, <1>20, <1>21, <1>22, <1>23, <1>24, <1>25, <1>26,
       <1>27, <1>28, <1>29, <1>30, <1>31, <1>32, <1>33, <1>34, <1>35, <1>36, <1>37, <1>38
  DEF Next, Message, Handle, Tick, Process, Environment

-----------------------------------------------------------------------------
(* What the goroutines hold *)

\* Every step keeps what the handlers hold in order.
LEMMA HandStep == TypeOK /\ HandInv /\ Next => HandInv'
<1> SUFFICES ASSUME TypeOK, HandInv, Next PROVE HandInv'  OBVIOUS
<1>hand. hand \in [Conns -> HandType]
  BY DEF TypeOK
<1>list. listeners \in [Conns -> [auth : BOOLEAN, map : {0, 1, 2}]]
  BY DEF TypeOK, Entries
<1>1. ASSUME NEW c \in Conns, NEW id \in SubIds, NEW f \in Filters, Req(c, id, f) PROVE HandInv'
  BY <1>1, <1>hand, <1>list DEF Req, Read, SetListener, Entry, NewMap, HandInv, HandType,
       AtRest, None, state, regs
<1>2. ASSUME NEW c \in Conns, NEW id \in SubIds, NEW f \in Filters, Count(c, id, f) PROVE HandInv'
  BY <1>2, <1>hand, <1>list DEF Count, Read, Answer, SetListener, Entry, NewMap, HandInv,
       HandType, AtRest, None, state, regs
<1>3. ASSUME NEW c \in Conns, NEW id \in SubIds, Close(c, id) PROVE HandInv'
  BY <1>3, <1>hand, <1>list DEF Close, Read, Answer, HandInv, HandType, AtRest, None, state,
       regs
<1>4. ASSUME NEW c \in Conns, NEW e \in Events, NEW ok \in BOOLEAN, Publish(c, e, ok) PROVE HandInv'
  BY <1>4, <1>hand, <1>list, NotifyAssumption DEF Publish, Read, HandInv, HandType, AtRest,
       None, state, regs
<1>5. ASSUME NEW c \in Conns, Auth(c) PROVE HandInv'
  <2>1. CASE Answer(c, "loop")
    BY <1>5, <2>1, <1>hand, <1>list DEF Auth, Read, Answer, HandInv, HandType, AtRest, regs
  <2>2. CASE Answer(c, "auth")
    BY <1>5, <2>2, <1>hand, <1>list DEF Auth, Read, Answer, HandInv, HandType, AtRest, regs
  <2> QED  BY <1>5, <2>1, <2>2 DEF Auth
<1>6. ASSUME NEW c \in Conns, AuthNotice(c) PROVE HandInv'
  BY <1>6, <1>hand, <1>list DEF AuthNotice, Read, Unguarded, HandInv, HandType, AtRest, None,
       state, regs
<1>7. ASSUME NEW c \in Conns, Refuse(c) PROVE HandInv'
  BY <1>7, <1>hand, <1>list DEF Refuse, Read, Answer, HandInv, HandType, AtRest, None, state,
       regs
<1>8. ASSUME NEW c \in Conns, Terminate(c) PROVE HandInv'
  BY <1>8, <1>hand, <1>list DEF Terminate, Read, Unguarded, HandInv, HandType, AtRest, None,
       state, regs
<1>9. ASSUME NEW c \in Conns, ToRead(c) PROVE HandInv'
  BY <1>9, <1>hand, <1>list DEF ToRead, HandInv, HandType, AtRest, None, state, regs
<1>10. ASSUME NEW c \in Conns, StopReading(c) PROVE HandInv'
  <2>1. CASE Unguarded(c, "bye")
    BY <1>10, <2>1, <1>hand, <1>list DEF StopReading, Unguarded, HandInv, HandType, AtRest,
         state, regs
  <2>2. CASE hand' = [hand EXCEPT ![c].pc = "bye"]
    BY <1>10, <2>2, <1>hand, <1>list DEF StopReading, HandInv, HandType, state, regs
  <2> QED  BY <1>10, <2>1, <2>2 DEF StopReading
<1>11. ASSUME NEW c \in Conns, ReadFails(c) PROVE HandInv'
  BY <1>11, <1>hand, <1>list DEF ReadFails, HandInv, HandType, AtRest, None, state, regs
<1>12. ASSUME NEW c \in Conns, Sync(c) PROVE HandInv'
  BY <1>12, <1>hand, <1>list DEF Sync, HandInv, HandType, AtRest, None, state, regs
<1>13. ASSUME NEW c \in Conns, Query(c) PROVE HandInv'
  BY <1>13, <1>hand, <1>list DEF Query, HandInv, HandType, AtRest, None, state, regs
<1>14. ASSUME NEW c \in Conns, Authenticated(c) PROVE HandInv'
  BY <1>14, <1>hand, <1>list DEF Authenticated, HandInv, HandType, AtRest, None, state, regs
<1>15. ASSUME NEW c \in Conns, NotifyListeners(c) PROVE HandInv'
  BY <1>15, <1>hand, <1>list DEF NotifyListeners, Room, HandInv, HandType, AtRest, None,
       state, regs
<1>16. ASSUME NEW c \in Conns, Lock(c) PROVE HandInv'
  BY <1>16, <1>hand, <1>list DEF Lock, GetMutex, HandInv, HandType, AtRest, None, state, regs
<1>17. ASSUME NEW c \in Conns, Written(c) PROVE HandInv'
  <2>1. CASE hand[c].then = "loop"
    BY <1>17, <2>1, <1>hand, <1>list DEF Written, Released, HandInv, HandType, AtRest, state,
         regs
  <2>2. CASE hand[c].then # "loop"
    BY <1>17, <2>2, <1>hand, <1>list DEF Written, Released, HandInv, HandType, state, regs
  <2> QED  BY <2>1, <2>2
<1>18. ASSUME NEW c \in Conns, End(c) PROVE HandInv'
  BY <1>18, <1>hand, <1>list DEF End, HandInv, HandType, AtRest, None, state, regs
<1>19. ASSUME NEW c \in Conns, TickBlocked(c) PROVE HandInv'
  BY <1>19, <1>hand, <1>list DEF TickBlocked, HandInv, HandType, AtRest, None, state, regs
<1>20. ASSUME NEW c \in Conns, TickCloses(c) PROVE HandInv'
  BY <1>20, <1>hand, <1>list DEF TickCloses, HandInv, HandType, AtRest, None, state, regs
<1>21. ASSUME NEW c \in Conns, TickStops(c) PROVE HandInv'
  BY <1>21, <1>hand, <1>list DEF TickStops, HandInv, HandType, AtRest, None, state, regs
<1>22. ASSUME Take PROVE HandInv'
  BY <1>22, <1>hand, <1>list DEF Take, Keep, HandInv, HandType, AtRest, None, state, regs
<1>23. ASSUME SeeShutdown PROVE HandInv'
  BY <1>23, <1>hand, <1>list DEF SeeShutdown, Keep, HandInv, HandType, AtRest, None, state, regs
<1>24. ASSUME Exit PROVE HandInv'
  BY <1>24, <1>hand, <1>list DEF Exit, Keep, HandInv, HandType, AtRest, None, state, regs
<1>25. ASSUME CopyConns PROVE HandInv'
  BY <1>25, <1>hand, <1>list DEF CopyConns, Keep, HandInv, HandType, AtRest, None, state, regs
<1>26. ASSUME Visit PROVE HandInv'
  BY <1>26, <1>hand, <1>list DEF Visit, Keep, HandInv, HandType, AtRest, None, state, regs
<1>27. ASSUME AllVisited PROVE HandInv'
  BY <1>27, <1>hand, <1>list DEF AllVisited, Keep, HandInv, HandType, AtRest, None, state, regs
<1>28. ASSUME CopySubs PROVE HandInv'
  BY <1>28, <1>hand, <1>list DEF CopySubs, Keep, HandInv, HandType, AtRest, None, state, regs
<1>29. ASSUME VisitSub PROVE HandInv'
  BY <1>29, <1>hand, <1>list DEF VisitSub, Keep, HandInv, HandType, AtRest, None, state, regs
<1>30. ASSUME ProcLock PROVE HandInv'
  BY <1>30, <1>hand, <1>list DEF ProcLock, Keep, HandInv, HandType, AtRest, None, state, regs
<1>31. ASSUME ProcWritten PROVE HandInv'
  BY <1>31, <1>hand, <1>list DEF ProcWritten, Keep, HandInv, HandType, AtRest, None, state, regs
<1>32. ASSUME SubsVisited PROVE HandInv'
  BY <1>32, <1>hand, <1>list DEF SubsVisited, Keep, HandInv, HandType, AtRest, None, state, regs
<1>33. ASSUME NEW c \in Conns, Connect(c) PROVE HandInv'
  <2>0. conn'[c] = "open" /\ \A d \in Conns \ {c} : conn'[d] = conn[d]
    BY <1>33 DEF Connect, TypeOK
  <2>1. hand'[c].pc \in {"write", "lock"} /\ hand'[c].then \in {"bye", "loop"}
        /\ hand'[c].ev = NoEvent /\ hand'[c].ans = {}
    BY <1>33, <1>hand DEF Connect, Answer, Unguarded, AtRest
  <2>2. \A d \in Conns \ {c} : hand'[d] = hand[d]
    BY <1>33, <1>hand DEF Connect, Answer, Unguarded
  <2>3. listeners' = listeners
    BY <1>33 DEF Connect, regs
  <2> QED  BY <2>0, <2>1, <2>2, <2>3 DEF HandInv
<1>34. ASSUME NEW c \in Conns, Disconnect(c) PROVE HandInv'
  BY <1>34, <1>hand, <1>list DEF Disconnect, HandInv, HandType, AtRest, None, state, regs
<1>35. ASSUME NEW c \in Conns, Block(c) PROVE HandInv'
  BY <1>35, <1>hand, <1>list DEF Block, HandInv, HandType, AtRest, None, state, regs
<1>36. ASSUME NEW c \in Conns, PanicHandler(c) PROVE HandInv'
  BY <1>36, <1>hand, <1>list DEF PanicHandler, HandlerWrites, HandInv, HandType, AtRest, None,
       state, regs
<1>37. ASSUME SignalShutdown PROVE HandInv'
  BY <1>37, <1>hand, <1>list DEF SignalShutdown, HandInv, HandType, AtRest, None, state, regs
<1>38. ASSUME PanicProcess PROVE HandInv'
  BY <1>38, <1>hand, <1>list DEF PanicProcess, HandInv, HandType, AtRest, None, state, regs
<1> QED
  BY <1>1, <1>2, <1>3, <1>4, <1>5, <1>6, <1>7, <1>8, <1>9, <1>10, <1>11, <1>12, <1>13, <1>14,
       <1>15, <1>16, <1>17, <1>18, <1>19, <1>20, <1>21, <1>22, <1>23, <1>24, <1>25, <1>26,
       <1>27, <1>28, <1>29, <1>30, <1>31, <1>32, <1>33, <1>34, <1>35, <1>36, <1>37, <1>38
  DEF Next, Message, Handle, Tick, Process, Environment

\* Every step keeps what the processor holds in order.
LEMMA ProcStep == TypeOK /\ ProcInv /\ Next => ProcInv'
<1> SUFFICES ASSUME TypeOK, ProcInv, Next PROVE ProcInv'  OBVIOUS
<1>proc. proc \in ProcType
  BY DEF TypeOK
<1>1. ASSUME NEW c \in Conns, NEW id \in SubIds, NEW f \in Filters, Req(c, id, f) PROVE ProcInv'
  BY <1>1, <1>proc, NotifyAssumption DEF Req, Read, SetListener, Entry, NewMap, ProcInv,
       ProcType, Waiting
<1>2. ASSUME NEW c \in Conns, NEW id \in SubIds, NEW f \in Filters, Count(c, id, f) PROVE ProcInv'
  BY <1>2, <1>proc, NotifyAssumption DEF Count, Read, Answer, SetListener, Entry, NewMap,
       ProcInv, ProcType, Waiting
<1>3. ASSUME NEW c \in Conns, NEW id \in SubIds, Close(c, id) PROVE ProcInv'
  BY <1>3, <1>proc, NotifyAssumption DEF Close, Read, Answer, ProcInv, ProcType, Waiting
<1>4. ASSUME NEW c \in Conns, NEW e \in Events, NEW ok \in BOOLEAN, Publish(c, e, ok) PROVE ProcInv'
  BY <1>4, <1>proc, NotifyAssumption DEF Publish, Read, ProcInv, ProcType, Waiting
<1>5. ASSUME NEW c \in Conns, Auth(c) PROVE ProcInv'
  BY <1>5, <1>proc, NotifyAssumption DEF Auth, Read, Answer, ProcInv, ProcType, Waiting
<1>6. ASSUME NEW c \in Conns, AuthNotice(c) PROVE ProcInv'
  BY <1>6, <1>proc, NotifyAssumption DEF AuthNotice, Read, Unguarded, ProcInv, ProcType, Waiting
<1>7. ASSUME NEW c \in Conns, Refuse(c) PROVE ProcInv'
  BY <1>7, <1>proc, NotifyAssumption DEF Refuse, Read, Answer, ProcInv, ProcType, Waiting
<1>8. ASSUME NEW c \in Conns, Terminate(c) PROVE ProcInv'
  BY <1>8, <1>proc, NotifyAssumption DEF Terminate, Read, Unguarded, ProcInv, ProcType, Waiting
<1>9. ASSUME NEW c \in Conns, ToRead(c) PROVE ProcInv'
  BY <1>9, <1>proc, NotifyAssumption DEF ToRead, ProcInv, ProcType, Waiting
<1>10. ASSUME NEW c \in Conns, StopReading(c) PROVE ProcInv'
  BY <1>10, <1>proc, NotifyAssumption DEF StopReading, Unguarded, ProcInv, ProcType, Waiting
<1>11. ASSUME NEW c \in Conns, ReadFails(c) PROVE ProcInv'
  BY <1>11, <1>proc, NotifyAssumption DEF ReadFails, ProcInv, ProcType, Waiting
<1>12. ASSUME NEW c \in Conns, Sync(c) PROVE ProcInv'
  BY <1>12, <1>proc, NotifyAssumption DEF Sync, ProcInv, ProcType, Waiting
<1>13. ASSUME NEW c \in Conns, Query(c) PROVE ProcInv'
  BY <1>13, <1>proc, NotifyAssumption DEF Query, ProcInv, ProcType, Waiting
<1>14. ASSUME NEW c \in Conns, Authenticated(c) PROVE ProcInv'
  BY <1>14, <1>proc, NotifyAssumption DEF Authenticated, ProcInv, ProcType, Waiting
<1>15. ASSUME NEW c \in Conns, NotifyListeners(c) PROVE ProcInv'
  BY <1>15, <1>proc, NotifyAssumption DEF NotifyListeners, Room, ProcInv, ProcType, Waiting
<1>16. ASSUME NEW c \in Conns, Lock(c) PROVE ProcInv'
  BY <1>16, <1>proc, NotifyAssumption DEF Lock, GetMutex, ProcInv, ProcType, Waiting
<1>17. ASSUME NEW c \in Conns, Written(c) PROVE ProcInv'
  BY <1>17, <1>proc, NotifyAssumption DEF Written, Released, ProcInv, ProcType, Waiting
<1>18. ASSUME NEW c \in Conns, End(c) PROVE ProcInv'
  BY <1>18, <1>proc, NotifyAssumption DEF End, ProcInv, ProcType, Waiting
<1>19. ASSUME NEW c \in Conns, TickBlocked(c) PROVE ProcInv'
  BY <1>19, <1>proc, NotifyAssumption DEF TickBlocked, ProcInv, ProcType, Waiting
<1>20. ASSUME NEW c \in Conns, TickCloses(c) PROVE ProcInv'
  BY <1>20, <1>proc, NotifyAssumption DEF TickCloses, ProcInv, ProcType, Waiting
<1>21. ASSUME NEW c \in Conns, TickStops(c) PROVE ProcInv'
  BY <1>21, <1>proc, NotifyAssumption DEF TickStops, ProcInv, ProcType, Waiting
<1>22. ASSUME Take PROVE ProcInv'
  <2>1. Head(chan) # NoEvent
    BY <1>22, NotifyAssumption DEF Take, TypeOK
  <2> QED  BY <1>22, <2>1, <1>proc DEF Take, ProcInv, ProcType
<1>23. ASSUME SeeShutdown PROVE ProcInv'
  BY <1>23, <1>proc, NotifyAssumption DEF SeeShutdown, Keep, ProcInv, ProcType, Waiting
<1>24. ASSUME Exit PROVE ProcInv'
  BY <1>24, <1>proc, NotifyAssumption DEF Exit, Keep, ProcInv, ProcType, Waiting
<1>25. ASSUME CopyConns PROVE ProcInv'
  <2>1. /\ proc'.pc = proc.pc /\ proc'.id = proc.id
        /\ proc'.c = proc.c /\ proc'.ev = proc.ev
    BY <1>25, <1>proc DEF CopyConns, ProcType
  <2> QED  BY <2>1 DEF ProcInv
<1>26. ASSUME Visit PROVE ProcInv'
  BY <1>26, <1>proc, NotifyAssumption DEF Visit, Keep, ProcInv, ProcType, Waiting
<1>27. ASSUME AllVisited PROVE ProcInv'
  BY <1>27, <1>proc, NotifyAssumption DEF AllVisited, Keep, ProcInv, ProcType, Waiting
<1>28. ASSUME CopySubs PROVE ProcInv'
  <2>1. /\ proc'.pc = proc.pc /\ proc'.id = proc.id
        /\ proc'.c = proc.c /\ proc'.ev = proc.ev
    BY <1>28, <1>proc DEF CopySubs, ProcType
  <2> QED  BY <2>1 DEF ProcInv
<1>29. ASSUME VisitSub PROVE ProcInv'
  <2>1. PICK id \in proc.match :
           proc' = [proc EXCEPT !.pc = "lock", !.match = @ \ {id}, !.id = id,
                                !.mu = MutexOf(proc.c)]
    BY <1>29 DEF VisitSub
  <2>2. id # NoId
    BY <1>proc, NotifyAssumption DEF ProcType
  <2>3. proc'.pc = "lock" /\ proc'.id = id /\ proc'.c = proc.c /\ proc'.ev = proc.ev
    BY <2>1, <1>proc DEF ProcType
  <2> QED  BY <1>29, <2>2, <2>3 DEF VisitSub, ProcInv
<1>30. ASSUME ProcLock PROVE ProcInv'
  BY <1>30, <1>proc, NotifyAssumption DEF ProcLock, Keep, ProcInv, ProcType, Waiting
<1>31. ASSUME ProcWritten PROVE ProcInv'
  BY <1>31, <1>proc, NotifyAssumption DEF ProcWritten, Keep, ProcInv, ProcType, Waiting
<1>32. ASSUME SubsVisited PROVE ProcInv'
  BY <1>32, <1>proc, NotifyAssumption DEF SubsVisited, Keep, ProcInv, ProcType, Waiting
<1>33. ASSUME NEW c \in Conns, Connect(c) PROVE ProcInv'
  BY <1>33, <1>proc, NotifyAssumption DEF Connect, Unguarded, Answer, ProcInv, ProcType, Waiting
<1>34. ASSUME NEW c \in Conns, Disconnect(c) PROVE ProcInv'
  BY <1>34, <1>proc, NotifyAssumption DEF Disconnect, ProcInv, ProcType, Waiting
<1>35. ASSUME NEW c \in Conns, Block(c) PROVE ProcInv'
  BY <1>35, <1>proc, NotifyAssumption DEF Block, ProcInv, ProcType, Waiting
<1>36. ASSUME NEW c \in Conns, PanicHandler(c) PROVE ProcInv'
  BY <1>36, <1>proc, NotifyAssumption DEF PanicHandler, HandlerWrites, ProcInv, ProcType,
       Waiting
<1>37. ASSUME SignalShutdown PROVE ProcInv'
  BY <1>37, <1>proc, NotifyAssumption DEF SignalShutdown, ProcInv, ProcType, Waiting
<1>38. ASSUME PanicProcess PROVE ProcInv'
  BY <1>38, <1>proc, NotifyAssumption DEF PanicProcess, ProcInv, ProcType, Waiting
<1> QED
  BY <1>1, <1>2, <1>3, <1>4, <1>5, <1>6, <1>7, <1>8, <1>9, <1>10, <1>11, <1>12, <1>13, <1>14,
       <1>15, <1>16, <1>17, <1>18, <1>19, <1>20, <1>21, <1>22, <1>23, <1>24, <1>25, <1>26,
       <1>27, <1>28, <1>29, <1>30, <1>31, <1>32, <1>33, <1>34, <1>35, <1>36, <1>37, <1>38
  DEF Next, Message, Handle, Tick, Process, Environment

-----------------------------------------------------------------------------
(* The registrations *)

\* Every step keeps wanted subscriptions registered (setListener,
\* removeListenerId, AuthenticateConnection).
LEMMA RegStep == TypeOK /\ HandInv /\ RegInv /\ Next => RegInv'
<1> SUFFICES ASSUME TypeOK, HandInv, RegInv, Next PROVE RegInv'  OBVIOUS
<1>hand. hand \in [Conns -> HandType]
  BY DEF TypeOK
<1>list. listeners \in [Conns -> [auth : BOOLEAN, map : {0, 1, 2}]] /\ maps \in [Conns -> {0, 1, 2}]
  BY DEF TypeOK, Entries
<1>subs. subs \in [Conns -> Wishes] /\ want \in [Conns -> Wishes] /\ authed \in [Conns -> BOOLEAN]
  BY DEF TypeOK
<1>1. ASSUME NEW c \in Conns, NEW id \in SubIds, NEW f \in Filters, Req(c, id, f) PROVE RegInv'
  <2>1. Entry(c) # None /\ (listeners[c] # None => Entry(c) = listeners[c])
    BY <1>list DEF Entry, NewMap, None
  <2>2. /\ listeners'[c] = Entry(c) /\ maps'[c] = Entry(c).map
        /\ listeners'[c] # None
    BY <1>1, <2>1, <1>list DEF Req, SetListener
  <2>3. hand'[c].pc = "sync" /\ hand'[c].id = id /\ hand[c].pc = "read"
    BY <1>1, <1>hand DEF Req, Read, AtRest
  <2>4. /\ subs'[c][id] = f /\ want'[c][id] = IF authed[c] THEN f ELSE NoFilter
        /\ authed' = authed
    BY <1>1, <1>subs DEF Req, SetListener, NoSubs, Wishes, state
  <2>5. \A k \in SubIds \ {id} : want'[c][k] = want[c][k] /\ (listeners[c] # None => subs'[c][k] = subs[c][k])
    BY <1>1, <1>subs DEF Req, SetListener, Wishes
  <2>6. Listening(c)'
    BY <2>1, <2>2, <2>3, <2>4, <2>5, NotifyAssumption DEF Listening, RegInv
  <2>9. \A d \in Conns \ {c} : Listening(d)'
    BY <1>1, <1>hand, <1>list, <1>subs DEF Req, Read, SetListener, AtRest, Listening, RegInv,
         state, regs, hist
  <2> QED  BY <2>6, <2>9 DEF RegInv
<1>2. ASSUME NEW c \in Conns, NEW id \in SubIds, NEW f \in Filters, Count(c, id, f) PROVE RegInv'
  <2>1. Entry(c) # None /\ (listeners[c] # None => Entry(c) = listeners[c])
    BY <1>list DEF Entry, NewMap, None
  <2>2. /\ listeners'[c] = Entry(c) /\ maps'[c] = Entry(c).map
        /\ listeners'[c] # None
    BY <1>2, <2>1, <1>list DEF Count, SetListener
  <2>3. hand[c].pc = "read"
    BY <1>2 DEF Count, Read
  <2>4. want'[c][id] = NoFilter /\ authed' = authed
    BY <1>2, <1>subs DEF Count, Wishes, state
  <2>5. \A k \in SubIds \ {id} : want'[c][k] = want[c][k] /\ (listeners[c] # None => subs'[c][k] = subs[c][k])
    BY <1>2, <1>subs DEF Count, SetListener, Wishes
  <2>6. Listening(c)'
    BY <2>1, <2>2, <2>3, <2>4, <2>5 DEF Listening, RegInv
  <2>9. \A d \in Conns \ {c} : Listening(d)'
    BY <1>2, <1>hand, <1>list, <1>subs DEF Count, Read, Answer, SetListener, AtRest,
         Listening, RegInv, state, regs, hist
  <2> QED  BY <2>6, <2>9 DEF RegInv
<1>3. ASSUME NEW c \in Conns, NEW id \in SubIds, Close(c, id) PROVE RegInv'
  <2>1. hand[c].pc = "read" /\ want'[c][id] = NoFilter /\ authed' = authed /\ maps' = maps
    BY <1>3, <1>subs DEF Close, Read, Wishes, state
  <2>2. \A k \in SubIds \ {id} : want'[c][k] = want[c][k] /\ subs'[c][k] = subs[c][k]
    BY <1>3, <1>subs DEF Close, Wishes
  <2>3. \/ listeners'[c] = listeners[c]
        \/ listeners'[c] = None /\ [subs[c] EXCEPT ![id] = NoFilter] = NoSubs
    BY <1>3, <1>list DEF Close
  <2>4. listeners'[c] = listeners[c] \/ (listeners'[c] = None /\ \A k \in SubIds \ {id} : subs[c][k] = NoFilter)
    BY <2>3, <1>subs DEF NoSubs, Wishes
  <2>5. Listening(c)'
    BY <2>1, <2>2, <2>4 DEF Listening, RegInv
  <2>9. \A d \in Conns \ {c} : Listening(d)'
    BY <1>3, <1>hand, <1>list, <1>subs DEF Close, Read, Answer, AtRest, Listening, RegInv,
         state, regs, hist
  <2> QED  BY <2>5, <2>9 DEF RegInv
<1>4. ASSUME NEW c \in Conns, NEW e \in Events, NEW ok \in BOOLEAN, Publish(c, e, ok) PROVE RegInv'
  BY <1>4, <1>hand, <1>list, <1>subs DEF Publish, Read, RegInv, Listening, HandInv, HandType,
       AtRest, None, NoSubs, state, regs, hist
<1>5. ASSUME NEW c \in Conns, Auth(c) PROVE RegInv'
  <2>1. CASE Answer(c, "loop")
    BY <1>5, <2>1, <1>hand, <1>list, <1>subs DEF Auth, Read, Answer, RegInv, Listening,
         HandInv, HandType, AtRest, state, regs, hist
  <2>2. CASE Answer(c, "auth")
    BY <1>5, <2>2, <1>hand, <1>list, <1>subs DEF Auth, Read, Answer, RegInv, Listening,
         HandInv, HandType, AtRest, state, regs, hist
  <2> QED  BY <1>5, <2>1, <2>2 DEF Auth
<1>6. ASSUME NEW c \in Conns, AuthNotice(c) PROVE RegInv'
  BY <1>6, <1>hand, <1>list, <1>subs DEF AuthNotice, Read, Unguarded, RegInv, Listening,
       HandInv, HandType, AtRest, None, NoSubs, state, regs, hist
<1>7. ASSUME NEW c \in Conns, Refuse(c) PROVE RegInv'
  BY <1>7, <1>hand, <1>list, <1>subs DEF Refuse, Read, Answer, RegInv, Listening, HandInv,
       HandType, AtRest, None, NoSubs, state, regs, hist
<1>8. ASSUME NEW c \in Conns, Terminate(c) PROVE RegInv'
  BY <1>8, <1>hand, <1>list, <1>subs DEF Terminate, Read, Unguarded, RegInv, Listening,
       HandInv, HandType, AtRest, None, NoSubs, state, regs, hist
<1>9. ASSUME NEW c \in Conns, ToRead(c) PROVE RegInv'
  BY <1>9, <1>hand, <1>list, <1>subs DEF ToRead, RegInv, Listening, HandInv, HandType, AtRest,
       None, NoSubs, state, regs, hist
<1>10. ASSUME NEW c \in Conns, StopReading(c) PROVE RegInv'
  <2>1. CASE Unguarded(c, "bye")
    BY <1>10, <2>1, <1>hand, <1>list, <1>subs DEF StopReading, Unguarded, RegInv, Listening,
         HandInv, HandType, AtRest, state, regs, hist
  <2>2. CASE hand' = [hand EXCEPT ![c].pc = "bye"]
    BY <1>10, <2>2, <1>hand, <1>list, <1>subs DEF StopReading, RegInv, Listening, HandInv,
         HandType, AtRest, state, regs, hist
  <2> QED  BY <1>10, <2>1, <2>2 DEF StopReading
<1>11. ASSUME NEW c \in Conns, ReadFails(c) PROVE RegInv'
  BY <1>11, <1>hand, <1>list, <1>subs DEF ReadFails, RegInv, Listening, HandInv, HandType,
       AtRest, None, NoSubs, state, regs, hist
<1>12. ASSUME NEW c \in Conns, Sync(c) PROVE RegInv'
  <2>1. listeners[c] # None
    BY <1>12 DEF Sync, HandInv
  <2>2. /\ listeners'[c].map = listeners[c].map /\ listeners'[c].auth = (listeners[c].auth \/ authed[c])
        /\ maps' = maps /\ subs' = subs /\ want' = want /\ authed' = authed
    BY <1>12, <1>list DEF Sync, state, regs, hist
  <2>3. listeners'[c] # None
    BY <1>12, <2>1, <1>list DEF Sync, None
  <2>6. Listening(c)'
    BY <2>1, <2>2, <2>3 DEF Listening, RegInv
  <2>9. \A d \in Conns \ {c} : Listening(d)'
    BY <1>12, <1>hand, <1>list, <1>subs DEF Sync, Listening, RegInv, state, regs, hist
  <2> QED  BY <2>6, <2>9 DEF RegInv
<1>13. ASSUME NEW c \in Conns, Query(c) PROVE RegInv'
  BY <1>13, <1>hand, <1>list, <1>subs DEF Query, RegInv, Listening, HandInv, HandType, AtRest,
       None, NoSubs, state, regs, hist
<1>14. ASSUME NEW c \in Conns, Authenticated(c) PROVE RegInv'
  <2>0. hand[c].pc = "auth" /\ authed'[c] = TRUE
    BY <1>14, <1>subs DEF Authenticated
  <2>1. (listeners'[c] = None <=> listeners[c] = None) /\ listeners'[c].map = listeners[c].map
    BY <1>14, <1>list DEF Authenticated, None
  <2>2. listeners'[c] # None => listeners'[c].auth
    BY <1>14, <2>1, <1>list DEF Authenticated
  <2>3. maps' = maps /\ subs' = subs /\ want' = want
    BY <1>14 DEF Authenticated, hist
  <2>6. Listening(c)'
    BY <2>0, <2>1, <2>2, <2>3 DEF Listening, RegInv
  <2>9. \A d \in Conns \ {c} : Listening(d)'
    BY <1>14, <1>hand, <1>list, <1>subs DEF Authenticated, Listening, RegInv, state, regs, hist
  <2> QED  BY <2>6, <2>9 DEF RegInv
<1>15. ASSUME NEW c \in Conns, NotifyListeners(c) PROVE RegInv'
  BY <1>15, <1>hand, <1>list, <1>subs DEF NotifyListeners, Room, RegInv, Listening, HandInv,
       HandType, AtRest, None, NoSubs, state, regs, hist
<1>16. ASSUME NEW c \in Conns, Lock(c) PROVE RegInv'
  BY <1>16, <1>hand, <1>list, <1>subs DEF Lock, GetMutex, RegInv, Listening, HandInv,
       HandType, AtRest, None, NoSubs, state, regs, hist
<1>17. ASSUME NEW c \in Conns, Written(c) PROVE RegInv'
  BY <1>17, <1>hand, <1>list, <1>subs DEF Written, Released, RegInv, Listening, HandInv,
       HandType, AtRest, None, NoSubs, state, regs, hist
<1>18. ASSUME NEW c \in Conns, End(c) PROVE RegInv'
  <2>6. Listening(c)'
    BY <1>18, <1>list, <1>subs DEF End, Listening, None, NoSubs
  <2>9. \A d \in Conns \ {c} : Listening(d)'
    BY <1>18, <1>hand, <1>list, <1>subs DEF End, Listening, RegInv, state, regs, hist
  <2> QED  BY <2>6, <2>9 DEF RegInv
<1>19. ASSUME NEW c \in Conns, TickBlocked(c) PROVE RegInv'
  BY <1>19, <1>hand, <1>list, <1>subs DEF TickBlocked, RegInv, Listening, HandInv, HandType,
       AtRest, None, NoSubs, state, regs, hist
<1>20. ASSUME NEW c \in Conns, TickCloses(c) PROVE RegInv'
  BY <1>20, <1>hand, <1>list, <1>subs DEF TickCloses, RegInv, Listening, HandInv, HandType,
       AtRest, None, NoSubs, state, regs, hist
<1>21. ASSUME NEW c \in Conns, TickStops(c) PROVE RegInv'
  BY <1>21, <1>hand, <1>list, <1>subs DEF TickStops, RegInv, Listening, HandInv, HandType,
       AtRest, None, NoSubs, state, regs, hist
<1>22. ASSUME Take PROVE RegInv'
  BY <1>22, <1>hand, <1>list, <1>subs DEF Take, Keep, RegInv, Listening, HandInv, HandType,
       AtRest, None, NoSubs, state, regs, hist
<1>23. ASSUME SeeShutdown PROVE RegInv'
  BY <1>23, <1>hand, <1>list, <1>subs DEF SeeShutdown, Keep, RegInv, Listening, HandInv,
       HandType, AtRest, None, NoSubs, state, regs, hist
<1>24. ASSUME Exit PROVE RegInv'
  BY <1>24, <1>hand, <1>list, <1>subs DEF Exit, Keep, RegInv, Listening, HandInv, HandType,
       AtRest, None, NoSubs, state, regs, hist
<1>25. ASSUME CopyConns PROVE RegInv'
  BY <1>25, <1>hand, <1>list, <1>subs DEF CopyConns, Keep, RegInv, Listening, HandInv,
       HandType, AtRest, None, NoSubs, state, regs, hist
<1>26. ASSUME Visit PROVE RegInv'
  BY <1>26, <1>hand, <1>list, <1>subs DEF Visit, Keep, RegInv, Listening, HandInv, HandType,
       AtRest, None, NoSubs, state, regs, hist
<1>27. ASSUME AllVisited PROVE RegInv'
  BY <1>27, <1>hand, <1>list, <1>subs DEF AllVisited, Keep, RegInv, Listening, HandInv,
       HandType, AtRest, None, NoSubs, state, regs, hist
<1>28. ASSUME CopySubs PROVE RegInv'
  BY <1>28, <1>hand, <1>list, <1>subs DEF CopySubs, Keep, RegInv, Listening, HandInv,
       HandType, AtRest, None, NoSubs, state, regs, hist
<1>29. ASSUME VisitSub PROVE RegInv'
  BY <1>29, <1>hand, <1>list, <1>subs DEF VisitSub, Keep, RegInv, Listening, HandInv,
       HandType, AtRest, None, NoSubs, state, regs, hist
<1>30. ASSUME ProcLock PROVE RegInv'
  BY <1>30, <1>hand, <1>list, <1>subs DEF ProcLock, Keep, RegInv, Listening, HandInv,
       HandType, AtRest, None, NoSubs, state, regs, hist
<1>31. ASSUME ProcWritten PROVE RegInv'
  BY <1>31, <1>hand, <1>list, <1>subs DEF ProcWritten, Keep, RegInv, Listening, HandInv,
       HandType, AtRest, None, NoSubs, state, regs, hist
<1>32. ASSUME SubsVisited PROVE RegInv'
  BY <1>32, <1>hand, <1>list, <1>subs DEF SubsVisited, Keep, RegInv, Listening, HandInv,
       HandType, AtRest, None, NoSubs, state, regs, hist
<1>33. ASSUME NEW c \in Conns, Connect(c) PROVE RegInv'
  <2>1. hand[c].pc = "loop" /\ UNCHANGED <<listeners, maps, subs, want, authed>>
    BY <1>33 DEF Connect, HandInv, regs, hist
  <2>2. \A d \in Conns \ {c} : hand'[d] = hand[d]
    BY <1>33, <1>hand DEF Connect, Answer, Unguarded
  <2> QED  BY <2>1, <2>2 DEF RegInv, Listening
<1>34. ASSUME NEW c \in Conns, Disconnect(c) PROVE RegInv'
  BY <1>34, <1>hand, <1>list, <1>subs DEF Disconnect, RegInv, Listening, HandInv, HandType,
       AtRest, None, NoSubs, state, regs, hist
<1>35. ASSUME NEW c \in Conns, Block(c) PROVE RegInv'
  BY <1>35, <1>hand, <1>list, <1>subs DEF Block, RegInv, Listening, HandInv, HandType, AtRest,
       None, NoSubs, state, regs, hist
<1>36. ASSUME NEW c \in Conns, PanicHandler(c) PROVE RegInv'
  BY <1>36, <1>hand, <1>list, <1>subs DEF PanicHandler, HandlerWrites, RegInv, Listening,
       HandInv, HandType, AtRest, None, NoSubs, state, regs, hist
<1>37. ASSUME SignalShutdown PROVE RegInv'
  BY <1>37, <1>hand, <1>list, <1>subs DEF SignalShutdown, RegInv, Listening, HandInv,
       HandType, AtRest, None, NoSubs, state, regs, hist
<1>38. ASSUME PanicProcess PROVE RegInv'
  BY <1>38, <1>hand, <1>list, <1>subs DEF PanicProcess, RegInv, Listening, HandInv, HandType,
       AtRest, None, NoSubs, state, regs, hist
<1> QED
  BY <1>1, <1>2, <1>3, <1>4, <1>5, <1>6, <1>7, <1>8, <1>9, <1>10, <1>11, <1>12, <1>13, <1>14,
       <1>15, <1>16, <1>17, <1>18, <1>19, <1>20, <1>21, <1>22, <1>23, <1>24, <1>25, <1>26,
       <1>27, <1>28, <1>29, <1>30, <1>31, <1>32, <1>33, <1>34, <1>35, <1>36, <1>37, <1>38
  DEF Next, Message, Handle, Tick, Process, Environment

-----------------------------------------------------------------------------
(* No gap *)

\* What is appended is in the sequence.
LEMMA LastIn ==
    ASSUME NEW S, NEW s \in Seq(S), NEW x \in S
    PROVE  \E i \in 1..Len(Append(s, x)) : Append(s, x)[i] = x
<1>1. Len(s) + 1 \in 1..Len(Append(s, x)) /\ Append(s, x)[Len(s) + 1] = x
  OBVIOUS
<1> QED  BY <1>1

\* What was in the sequence is in it after an append.
LEMMA StillIn ==
    ASSUME NEW S, NEW s \in Seq(S), NEW y \in S, NEW i \in 1..Len(s)
    PROVE  \E j \in 1..Len(Append(s, y)) : Append(s, y)[j] = s[i]
<1>1. i \in 1..Len(Append(s, y)) /\ Append(s, y)[i] = s[i]
  OBVIOUS
<1> QED  BY <1>1

\* What is not the head is in the tail.
LEMMA TailIn ==
    ASSUME NEW S, NEW s \in Seq(S), s # <<>>, NEW i \in 1..Len(s), s[i] # Head(s)
    PROVE  \E j \in 1..Len(Tail(s)) : Tail(s)[j] = s[i]
<1>1. i - 1 \in 1..Len(Tail(s)) /\ Tail(s)[i - 1] = s[i]
  OBVIOUS
<1> QED  BY <1>1

\* A handler that carries nothing may change without uncovering an event.
LEMMA QuietStep ==
    ASSUME NEW c \in Conns, Quiet(c), \A y \in Conns \ {c} : hand'[y] = hand[y],
           NEW d \in Conns, NEW k \in SubIds, NEW x \in Events,
           chan' = chan, proc' = proc, maps'[d] = maps[d], Covered(d, k, x)
    PROVE  Covered(d, k, x)'
<1>1. Queued(x) => Queued(x)'
  BY NotifyAssumption DEF Queued, Quiet
<1>2. Answering(d, k, x) => Answering(d, k, x)'
  BY DEF Answering, Quiet
<1>3. Underway(d, k, x) => Underway(d, k, x)'
  BY DEF Underway
<1> QED  BY <1>1, <1>2, <1>3 DEF Covered

\* An event stays covered when no goroutine moves.
LEMMA StayStep ==
    ASSUME NEW d \in Conns, NEW k \in SubIds, NEW x \in Events,
           hand' = hand, chan' = chan, proc' = proc, maps' = maps, Covered(d, k, x)
    PROVE  Covered(d, k, x)'
  BY DEF Covered, Queued, Underway, Answering

\* Every step keeps each owed event on its way.
LEMMA GapStep == TypeOK /\ HandInv /\ ProcInv /\ RegInv /\ NoGap /\ Next => NoGap'
<1> SUFFICES ASSUME TypeOK, HandInv, ProcInv, RegInv, NoGap, Next,
                    NEW d \in Conns, NEW k \in SubIds, NEW x \in Events, Owed(d, k, x)'
             PROVE  Covered(d, k, x)'
  BY DEF NoGap, Covered
<1>0. hand \in [Conns -> HandType]
  BY DEF TypeOK
<1>1. want \in [Conns -> [SubIds -> Filters \cup {NoFilter}]]
  BY DEF TypeOK, Wishes
<1>2. sent \in [Conns -> [SubIds -> SUBSET Events]] /\ broken \in [Conns -> BOOLEAN]
  BY DEF TypeOK
<1>3. Owed(d, k, x) => Covered(d, k, x)
  BY DEF NoGap, Covered
<1>4. proc \in ProcType
  BY DEF TypeOK
<1>5. maps \in [Conns -> {0, 1, 2}]
  BY DEF TypeOK
<1>6. ASSUME NEW c \in Conns, NEW id \in SubIds, NEW f \in Filters, Req(c, id, f) PROVE Covered(d, k, x)'
  <2>1. Quiet(c)
    BY <1>6 DEF Req, Read, HandInv, Quiet
  <2>2. \A y \in Conns \ {c} : hand'[y] = hand[y]
    BY <1>6, <1>0 DEF Req, Read
  <2>3. CASE Owed(d, k, x)
    <3>1. listeners[d] # None
      BY <2>3 DEF Owed, Wanted, RegInv, Listening
    <3>2. maps'[d] = maps[d]
      BY <1>6, <3>1, <1>5 DEF Req, SetListener, Entry, RegInv, Listening
    <3> QED  BY <1>6, <2>1, <2>2, <2>3, <3>2, <1>3, QuietStep DEF Req
  <2>4. CASE d = c /\ k = id
    BY <1>6, <2>4, <1>0 DEF Req, Covered, Answering, AtRest
  <2>5. CASE ~(d = c /\ k = id)
    <3>1. Owed(d, k, x)
      BY <1>6, <2>5, <1>1, <1>2 DEF Req, Owed, Wanted, state
    <3> QED  BY <3>1, <2>3
  <2> QED  BY <2>4, <2>5
<1>7. ASSUME NEW c \in Conns, NEW id \in SubIds, NEW f \in Filters, Count(c, id, f) PROVE Covered(d, k, x)'
  <2>1. Quiet(c)
    BY <1>7 DEF Count, Read, HandInv, Quiet
  <2>2. \A y \in Conns \ {c} : hand'[y] = hand[y]
    BY <1>7, <1>0 DEF Count, Read, Answer
  <2>3. CASE Owed(d, k, x)
    <3>1. listeners[d] # None
      BY <2>3 DEF Owed, Wanted, RegInv, Listening
    <3>2. maps'[d] = maps[d]
      BY <1>7, <3>1, <1>5 DEF Count, SetListener, Entry, RegInv, Listening
    <3> QED  BY <1>7, <2>1, <2>2, <2>3, <3>2, <1>3, QuietStep DEF Count
  <2>4. Owed(d, k, x)
    BY <1>7, <1>1, <1>2 DEF Count, Owed, Wanted, state
  <2> QED  BY <2>3, <2>4
<1>8. ASSUME NEW c \in Conns, NEW id \in SubIds, Close(c, id) PROVE Covered(d, k, x)'
  <2>1. Quiet(c)
    BY <1>8 DEF Close, Read, Answer, HandInv, Quiet
  <2>2. \A y \in Conns \ {c} : hand'[y] = hand[y]
    BY <1>8, <1>0 DEF Close, Read, Answer
  <2>3. Owed(d, k, x)
    BY <1>8, <1>1, <1>2 DEF Close, Read, Answer, NoSubs, Owed, Wanted, state, hist
  <2>4. chan' = chan /\ proc' = proc /\ maps' = maps
    BY <1>8 DEF Close, regs
  <2> QED  BY <2>1, <2>2, <2>3, <2>4, <1>3, QuietStep
<1>9. ASSUME NEW c \in Conns, NEW e \in Events, NEW ok \in BOOLEAN, Publish(c, e, ok) PROVE Covered(d, k, x)'
  <2>1. Quiet(c)
    BY <1>9 DEF Publish, Read, HandInv, Quiet
  <2>2. \A y \in Conns \ {c} : hand'[y] = hand[y]
    BY <1>9, <1>0 DEF Publish
  <2>3. hand'[c].ev = e
    BY <1>9, <1>0 DEF Publish, AtRest
  <2>4. CASE x = e
    BY <2>3, <2>4 DEF Covered, Queued
  <2>5. CASE x # e
    <3>1. Owed(d, k, x)
      BY <1>9, <2>5, <1>2 DEF Publish, Kept, Owed, Wanted, state, hist
    <3> QED  BY <1>9, <2>1, <2>2, <3>1, <1>3, QuietStep DEF Publish, regs
  <2> QED  BY <2>4, <2>5
<1>10. ASSUME NEW c \in Conns, Auth(c) PROVE Covered(d, k, x)'
  <2>1. Quiet(c)
    BY <1>10 DEF Auth, Read, Answer, HandInv, Quiet
  <2>2. \A y \in Conns \ {c} : hand'[y] = hand[y]
    BY <1>10, <1>0 DEF Auth, Read, Answer
  <2>3. Owed(d, k, x)
    BY <1>10, <1>1, <1>2 DEF Auth, Read, Answer, NoSubs, Owed, Wanted, state, hist
  <2>4. chan' = chan /\ proc' = proc /\ maps' = maps
    BY <1>10 DEF Auth, regs
  <2> QED  BY <2>1, <2>2, <2>3, <2>4, <1>3, QuietStep
<1>11. ASSUME NEW c \in Conns, AuthNotice(c) PROVE Covered(d, k, x)'
  <2>1. Quiet(c)
    BY <1>11 DEF AuthNotice, Read, Unguarded, HandInv, Quiet
  <2>2. \A y \in Conns \ {c} : hand'[y] = hand[y]
    BY <1>11, <1>0 DEF AuthNotice, Read, Unguarded
  <2>3. Owed(d, k, x)
    BY <1>11, <1>1, <1>2 DEF AuthNotice, Read, Unguarded, NoSubs, Owed, Wanted, state, hist
  <2>4. chan' = chan /\ proc' = proc /\ maps' = maps
    BY <1>11 DEF AuthNotice, regs
  <2> QED  BY <2>1, <2>2, <2>3, <2>4, <1>3, QuietStep
<1>12. ASSUME NEW c \in Conns, Refuse(c) PROVE Covered(d, k, x)'
  <2>1. Quiet(c)
    BY <1>12 DEF Refuse, Read, Answer, HandInv, Quiet
  <2>2. \A y \in Conns \ {c} : hand'[y] = hand[y]
    BY <1>12, <1>0 DEF Refuse, Read, Answer
  <2>3. Owed(d, k, x)
    BY <1>12, <1>1, <1>2 DEF Refuse, Read, Answer, NoSubs, Owed, Wanted, state, hist
  <2>4. chan' = chan /\ proc' = proc /\ maps' = maps
    BY <1>12 DEF Refuse, regs
  <2> QED  BY <2>1, <2>2, <2>3, <2>4, <1>3, QuietStep
<1>13. ASSUME NEW c \in Conns, Terminate(c) PROVE Covered(d, k, x)'
  <2>1. Quiet(c)
    BY <1>13 DEF Terminate, Read, Unguarded, HandInv, Quiet
  <2>2. \A y \in Conns \ {c} : hand'[y] = hand[y]
    BY <1>13, <1>0 DEF Terminate, Read, Unguarded
  <2>3. Owed(d, k, x)
    BY <1>13, <1>1, <1>2 DEF Terminate, Read, Unguarded, NoSubs, Owed, Wanted, state, hist
  <2>4. chan' = chan /\ proc' = proc /\ maps' = maps
    BY <1>13 DEF Terminate, regs
  <2> QED  BY <2>1, <2>2, <2>3, <2>4, <1>3, QuietStep
<1>14. ASSUME NEW c \in Conns, ToRead(c) PROVE Covered(d, k, x)'
  <2>1. Quiet(c)
    BY <1>14 DEF ToRead, HandInv, Quiet
  <2>2. \A y \in Conns \ {c} : hand'[y] = hand[y]
    BY <1>14, <1>0 DEF ToRead
  <2>3. Owed(d, k, x)
    BY <1>14, <1>1, <1>2 DEF ToRead, NoSubs, Owed, Wanted, state, hist
  <2>4. chan' = chan /\ proc' = proc /\ maps' = maps
    BY <1>14 DEF ToRead, regs
  <2> QED  BY <2>1, <2>2, <2>3, <2>4, <1>3, QuietStep
<1>15. ASSUME NEW c \in Conns, StopReading(c) PROVE Covered(d, k, x)'
  <2>1. Quiet(c)
    BY <1>15 DEF StopReading, Unguarded, HandInv, Quiet
  <2>2. \A y \in Conns \ {c} : hand'[y] = hand[y]
    BY <1>15, <1>0 DEF StopReading, Unguarded
  <2>3. Owed(d, k, x)
    BY <1>15, <1>1, <1>2 DEF StopReading, Unguarded, NoSubs, Owed, Wanted, state, hist
  <2>4. chan' = chan /\ proc' = proc /\ maps' = maps
    BY <1>15 DEF StopReading, regs
  <2> QED  BY <2>1, <2>2, <2>3, <2>4, <1>3, QuietStep
<1>16. ASSUME NEW c \in Conns, ReadFails(c) PROVE Covered(d, k, x)'
  <2>1. Quiet(c)
    BY <1>16 DEF ReadFails, HandInv, Quiet
  <2>2. \A y \in Conns \ {c} : hand'[y] = hand[y]
    BY <1>16, <1>0 DEF ReadFails
  <2>3. Owed(d, k, x)
    BY <1>16, <1>1, <1>2 DEF ReadFails, NoSubs, Owed, Wanted, state, hist
  <2>4. chan' = chan /\ proc' = proc /\ maps' = maps
    BY <1>16 DEF ReadFails, regs
  <2> QED  BY <2>1, <2>2, <2>3, <2>4, <1>3, QuietStep
<1>17. ASSUME NEW c \in Conns, Sync(c) PROVE Covered(d, k, x)'
  <2>1. Owed(d, k, x) /\ Covered(d, k, x)
    BY <1>17, <1>3 DEF Sync, Owed, Wanted, state, hist
  <2>2. \A y \in Conns : hand'[y].ev = hand[y].ev /\ (y # c => hand'[y] = hand[y])
    BY <1>17, <1>0 DEF Sync, HandType
  <2>3. hand'[c].pc = "query" /\ hand'[c].id = hand[c].id /\ hand[c].pc = "sync"
    BY <1>17, <1>0 DEF Sync, HandType
  <2>4. Answering(d, k, x) => Answering(d, k, x)'
    BY <2>2, <2>3 DEF Answering
  <2> QED  BY <1>17, <2>1, <2>2, <2>4 DEF Sync, Covered, Queued, Underway
<1>18. ASSUME NEW c \in Conns, Query(c) PROVE Covered(d, k, x)'
  <2>1. Owed(d, k, x) /\ Covered(d, k, x)
    BY <1>18, <1>3 DEF Query, Owed, Wanted, state, hist
  <2>2. \A y \in Conns : hand'[y].ev = hand[y].ev /\ (y # c => hand'[y] = hand[y])
    BY <1>18, <1>0 DEF Query, HandType
  <2>3. hand'[c].ans = stored \cap subs[c][hand[c].id] /\ hand'[c].id = hand[c].id
    BY <1>18, <1>0 DEF Query, HandType
  <2>4. x \in stored \cap subs[d][k]
    BY <2>1 DEF Owed, Wanted, RegInv, Listening
  <2>5. Answering(d, k, x) => Answering(d, k, x)'
    BY <2>2, <2>3, <2>4 DEF Answering
  <2> QED  BY <1>18, <2>1, <2>2, <2>5 DEF Query, Covered, Queued, Underway, regs
<1>19. ASSUME NEW c \in Conns, Authenticated(c) PROVE Covered(d, k, x)'
  <2>1. Quiet(c)
    BY <1>19 DEF Authenticated, HandInv, Quiet
  <2>2. \A y \in Conns \ {c} : hand'[y] = hand[y]
    BY <1>19, <1>0 DEF Authenticated
  <2>3. Owed(d, k, x)
    BY <1>19, <1>1, <1>2 DEF Authenticated, NoSubs, Owed, Wanted, state, hist
  <2>4. chan' = chan /\ proc' = proc /\ maps' = maps
    BY <1>19 DEF Authenticated, regs
  <2> QED  BY <2>1, <2>2, <2>3, <2>4, <1>3, QuietStep
<1>20. ASSUME NEW c \in Conns, NotifyListeners(c) PROVE Covered(d, k, x)'
  <2>1. Owed(d, k, x)
    BY <1>20 DEF NotifyListeners, Owed, Wanted, state
  <2>2. \A y \in Conns \ {c} : hand'[y] = hand[y]
    BY <1>20, <1>0 DEF NotifyListeners
  <2>3. hand[c].pc = "notify" /\ hand[c].ans = {}
    BY <1>20 DEF NotifyListeners, HandInv
  <2>4. Answering(d, k, x) => Answering(d, k, x)'
    BY <2>2, <2>3 DEF Answering
  <2>5. Queued(x) => Queued(x)'
    <3>1. CASE hand[c].ev = x
      <4>1. CASE Room
        <5>1. chan' = Append(chan, x) /\ chan \in Seq(Events)
          BY <1>20, <3>1, <4>1 DEF NotifyListeners, TypeOK
        <5> QED  BY <5>1, LastIn DEF Queued
      <4>2. CASE ~Room
        BY <1>20, <3>1, <4>2 DEF NotifyListeners, Owed
      <4> QED  BY <4>1, <4>2
    <3>2. CASE hand[c].ev # x
      <4>1. chan \in Seq(Events) /\ hand[c].ev \in Events
        BY <1>20 DEF NotifyListeners, HandInv, TypeOK, HandType
      <4>2. \A j \in 1..Len(chan) : chan[j] = x => \E l \in 1..Len(chan') : chan'[l] = x
        <5>1. CASE Room
          <6>1. chan' = Append(chan, hand[c].ev)
            BY <1>20, <5>1 DEF NotifyListeners
          <6> QED  BY <4>1, <6>1, StillIn
        <5>2. CASE ~Room
          BY <1>20, <5>2 DEF NotifyListeners
        <5> QED  BY <5>1, <5>2
      <4> QED  BY <2>2, <3>2, <4>2 DEF Queued
    <3> QED  BY <3>1, <3>2
  <2> QED  BY <1>20, <2>1, <2>4, <2>5, <1>3 DEF NotifyListeners, Covered, Underway, regs
<1>21. ASSUME NEW c \in Conns, Lock(c) PROVE Covered(d, k, x)'
  <2>1. Owed(d, k, x) /\ Covered(d, k, x)
    BY <1>21, <1>3 DEF Lock, Owed, Wanted, state, hist
  <2>2. \A y \in Conns : /\ hand'[y].ev = hand[y].ev /\ hand'[y].id = hand[y].id
                         /\ hand'[y].ans = hand[y].ans /\ (y # c => hand'[y] = hand[y])
    BY <1>21, <1>0 DEF Lock, HandType
  <2>3. hand[c].pc = "lock"
    BY <1>21 DEF Lock
  <2>4. Answering(d, k, x) => Answering(d, k, x)'
    BY <2>2, <2>3 DEF Answering
  <2> QED  BY <1>21, <2>1, <2>2, <2>4 DEF Lock, Covered, Queued, Underway, regs
<1>22. ASSUME NEW c \in Conns, Written(c) PROVE Covered(d, k, x)'
  <2>1. hand[c].pc = "write" /\ (\A y \in Conns \ {c} : hand'[y] = hand[y])
    BY <1>22, <1>0 DEF Written
  <2>2. sent[d][k] \subseteq sent'[d][k]
    BY <1>22, <1>2 DEF Written
  <2>3. Owed(d, k, x)
    BY <1>22, <2>2 DEF Written, Owed, Wanted, state
  <2>4. CASE Answering(d, k, x)
    <3>1. CASE d = c
      <4>1. hand[c].id = k /\ k # NoId /\ x \in hand[c].ans
        BY <2>1, <2>4, <3>1, NotifyAssumption DEF Answering
      <4>2. x \in sent'[d][k]
        BY <1>22, <4>1, <3>1, <2>3, <1>2 DEF Written, Owed
      <4> QED  BY <4>2 DEF Owed
    <3>2. CASE d # c
      BY <2>1, <2>4, <3>2 DEF Covered, Answering
    <3> QED  BY <3>1, <3>2
  <2>5. CASE Queued(x)
    <3>1. hand[c].ev = x => hand'[c].ev = x
      <4> SUFFICES ASSUME hand[c].ev = x PROVE hand'[c].ev = x  OBVIOUS
      <4>1. hand[c].then = "notify"
        BY NotifyAssumption DEF HandInv
      <4> QED  BY <1>22, <4>1, <1>0 DEF Written, Released, HandType
    <3> QED  BY <1>22, <2>1, <2>5, <3>1 DEF Written, Covered, Queued
  <2>6. CASE Underway(d, k, x)
    BY <1>22, <2>6 DEF Written, Covered, Underway, regs
  <2> QED  BY <2>3, <2>4, <2>5, <2>6, <1>3 DEF Covered
<1>23. ASSUME NEW c \in Conns, End(c) PROVE Covered(d, k, x)'
  <2>1. Quiet(c)
    BY <1>23 DEF End, HandInv, Quiet
  <2>2. \A y \in Conns \ {c} : hand'[y] = hand[y]
    BY <1>23, <1>0 DEF End
  <2>3. Owed(d, k, x)
    BY <1>23, <1>1, <1>2 DEF End, NoSubs, Owed, Wanted, state, hist
  <2>4. chan' = chan /\ proc' = proc /\ maps' = maps
    BY <1>23 DEF End, regs
  <2> QED  BY <2>1, <2>2, <2>3, <2>4, <1>3, QuietStep
<1>24. ASSUME NEW c \in Conns, TickBlocked(c) PROVE Covered(d, k, x)'
  <2>1. Owed(d, k, x)
    BY <1>24, <1>2 DEF TickBlocked, Owed, Wanted, state, hist
  <2> QED  BY <1>24, <2>1, <1>3, StayStep DEF TickBlocked, regs
<1>25. ASSUME NEW c \in Conns, TickCloses(c) PROVE Covered(d, k, x)'
  <2>1. Owed(d, k, x)
    BY <1>25, <1>2 DEF TickCloses, Owed, Wanted, state, hist
  <2> QED  BY <1>25, <2>1, <1>3, StayStep DEF TickCloses, regs
<1>26. ASSUME NEW c \in Conns, TickStops(c) PROVE Covered(d, k, x)'
  <2>1. Owed(d, k, x)
    BY <1>26, <1>2 DEF TickStops, Owed, Wanted, state, hist
  <2> QED  BY <1>26, <2>1, <1>3, StayStep DEF TickStops, regs
<1>27. ASSUME Take PROVE Covered(d, k, x)'
  <2>1. Owed(d, k, x) /\ Covered(d, k, x) /\ hand' = hand
    BY <1>27, <1>3 DEF Take, Keep, Owed, Wanted, state, hist
  <2>2. ~Underway(d, k, x)
    BY <1>27, NotifyAssumption DEF Take, Underway, ProcInv
  <2>3. CASE Answering(d, k, x)
    BY <2>1, <2>3 DEF Covered, Answering
  <2>4. CASE Queued(x)
    <3>1. chan \in Seq(Events) /\ chan # <<>> /\ chan' = Tail(chan)
      BY <1>27 DEF Take, TypeOK
    <3>2. CASE Head(chan) = x
      BY <1>27, <3>2, <1>4 DEF Take, Covered, Underway, ProcType
    <3>3. CASE Head(chan) # x
      <4>1. \A j \in 1..Len(chan) : chan[j] = x => \E l \in 1..Len(chan') : chan'[l] = x
        BY <3>1, <3>3, TailIn
      <4> QED  BY <2>1, <2>4, <4>1 DEF Covered, Queued
    <3> QED  BY <3>2, <3>3
  <2> QED  BY <2>1, <2>2, <2>3, <2>4 DEF Covered
<1>28. ASSUME SeeShutdown PROVE Covered(d, k, x)'
  <2>1. Owed(d, k, x) /\ Covered(d, k, x)
    BY <1>28, <1>3 DEF SeeShutdown, Keep, Owed, Wanted, state, hist
  <2>2. hand' = hand /\ chan' = chan /\ maps' = maps
    BY <1>28 DEF SeeShutdown, Keep, regs
  <2>3. Underway(d, k, x) => Underway(d, k, x)'
    BY <1>28, <2>2, <1>4, NotifyAssumption DEF SeeShutdown, Underway, ProcInv, ProcType,
         NoEntries
  <2> QED  BY <2>1, <2>2, <2>3 DEF Covered, Queued, Answering
<1>29. ASSUME Exit PROVE Covered(d, k, x)'
  <2>1. Owed(d, k, x) /\ Covered(d, k, x)
    BY <1>29, <1>3 DEF Exit, Keep, Owed, Wanted, state, hist
  <2>2. hand' = hand /\ chan' = chan /\ maps' = maps
    BY <1>29 DEF Exit, Keep, regs
  <2>3. Underway(d, k, x) => Underway(d, k, x)'
    BY <1>29, <2>2, <1>4, NotifyAssumption DEF Exit, Underway, ProcInv, ProcType, NoEntries
  <2> QED  BY <2>1, <2>2, <2>3 DEF Covered, Queued, Answering
<1>30. ASSUME CopyConns PROVE Covered(d, k, x)'
  <2>1. PICK B \in SUBSET proc.conns :
           proc' = [proc EXCEPT !.conns = @ \ B,
                                !.found = [c \in Conns |-> IF c \in B /\ Admits(c)
                                                           THEN listeners[c] ELSE @[c]]]
    BY <1>30 DEF CopyConns
  <2>2. Owed(d, k, x) /\ Covered(d, k, x)
    BY <1>30, <1>3 DEF CopyConns, Keep, Owed, Wanted, state, hist
  <2>3. hand' = hand /\ chan' = chan /\ maps' = maps
    BY <1>30 DEF CopyConns, Keep, regs
  <2>4. /\ proc'.ev = proc.ev /\ proc'.conns = proc.conns \ B /\ proc'.c = proc.c
        /\ proc'.map = proc.map /\ proc'.ids = proc.ids /\ proc'.match = proc.match
        /\ proc'.id = proc.id
        /\ proc'.found[d] = IF d \in B /\ Admits(d) THEN listeners[d] ELSE proc.found[d]
    BY <2>1, <1>4 DEF ProcType
  <2>5. CASE Underway(d, k, x) /\ d \in B
    <3>1. listeners[d] # None /\ listeners[d].map = maps[d]
          /\ (listeners[d].auth \/ Answering(d, k, x))
      BY <2>2 DEF Owed, Wanted, RegInv, Listening, Answering
    <3>2. CASE Admits(d)
      BY <2>3, <2>4, <2>5, <3>1, <3>2 DEF Covered, Underway
    <3>3. CASE Answering(d, k, x)
      BY <2>3, <3>3 DEF Covered, Answering
    <3> QED  BY <3>1, <3>2, <3>3 DEF Admits
  <2>6. CASE Underway(d, k, x) /\ d \notin B
    BY <2>3, <2>4, <2>6 DEF Covered, Underway
  <2>7. CASE ~Underway(d, k, x)
    BY <2>2, <2>3, <2>7 DEF Covered, Queued, Answering
  <2> QED  BY <2>5, <2>6, <2>7
<1>31. ASSUME Visit PROVE Covered(d, k, x)'
  <2>1. PICK c \in Conns :
           /\ proc.found[c] # None
           /\ proc' = [proc EXCEPT !.pc = "subs", !.found[c] = None, !.c = c,
                                   !.map = proc.found[c].map, !.ids = SubIds]
    BY <1>31 DEF Visit
  <2>2. Owed(d, k, x) /\ Covered(d, k, x)
    BY <1>31, <1>3 DEF Visit, Keep, Owed, Wanted, state, hist
  <2>3. hand' = hand /\ chan' = chan /\ maps' = maps /\ proc.c = NoConn
    BY <1>31 DEF Visit, Keep, regs, ProcInv
  <2>4. /\ proc'.ev = proc.ev /\ proc'.conns = proc.conns /\ proc'.c = c
        /\ proc'.map = proc.found[c].map /\ proc'.ids = SubIds
        /\ (d # c => proc'.found[d] = proc.found[d])
    BY <2>1, <1>4 DEF ProcType
  <2>5. Underway(d, k, x) => Underway(d, k, x)'
    BY <2>3, <2>4, NotifyAssumption DEF Underway
  <2> QED  BY <2>2, <2>3, <2>5 DEF Covered, Queued, Answering
<1>32. ASSUME AllVisited PROVE Covered(d, k, x)'
  <2>1. Owed(d, k, x) /\ Covered(d, k, x)
    BY <1>32, <1>3 DEF AllVisited, Keep, Owed, Wanted, state, hist
  <2>2. hand' = hand /\ chan' = chan /\ maps' = maps
    BY <1>32 DEF AllVisited, Keep, regs
  <2>3. Underway(d, k, x) => Underway(d, k, x)'
    BY <1>32, <2>2, <1>4, NotifyAssumption DEF AllVisited, Underway, ProcInv, ProcType,
         NoEntries
  <2> QED  BY <2>1, <2>2, <2>3 DEF Covered, Queued, Answering
<1>33. ASSUME CopySubs PROVE Covered(d, k, x)'
  <2>1. PICK B \in SUBSET proc.ids :
           proc' = [proc EXCEPT !.ids = @ \ B,
                                !.match = @ \cup {id \in B : Matches(proc.c, id)}]
    BY <1>33 DEF CopySubs
  <2>2. Owed(d, k, x) /\ Covered(d, k, x)
    BY <1>33, <1>3 DEF CopySubs, Keep, Owed, Wanted, state, hist
  <2>3. hand' = hand /\ chan' = chan /\ maps' = maps
    BY <1>33 DEF CopySubs, Keep, regs
  <2>4. /\ proc'.ev = proc.ev /\ proc'.conns = proc.conns /\ proc'.c = proc.c
        /\ proc'.map = proc.map /\ proc'.ids = proc.ids \ B /\ proc'.id = proc.id
        /\ proc'.match = proc.match \cup {id \in B : Matches(proc.c, id)}
        /\ proc'.found = proc.found
    BY <2>1, <1>4 DEF ProcType
  <2>5. CASE Underway(d, k, x) /\ d = proc.c /\ k \in B /\ proc.map = maps[d]
    <3>1. Matches(d, k)
      BY <2>2, <2>5 DEF Owed, Wanted, RegInv, Listening, Matches, Underway
    <3> QED  BY <2>4, <2>5, <3>1 DEF Covered, Underway
  <2>6. CASE Underway(d, k, x) /\ ~(d = proc.c /\ k \in B /\ proc.map = maps[d])
    BY <2>3, <2>4, <2>6 DEF Covered, Underway
  <2>7. CASE ~Underway(d, k, x)
    BY <2>2, <2>3, <2>7 DEF Covered, Queued, Answering
  <2> QED  BY <2>5, <2>6, <2>7
<1>34. ASSUME VisitSub PROVE Covered(d, k, x)'
  <2>1. PICK id \in proc.match :
           proc' = [proc EXCEPT !.pc = "lock", !.match = @ \ {id}, !.id = id,
                                !.mu = MutexOf(proc.c)]
    BY <1>34 DEF VisitSub
  <2>2. Owed(d, k, x) /\ Covered(d, k, x)
    BY <1>34, <1>3 DEF VisitSub, Keep, Owed, Wanted, state, hist
  <2>3. hand' = hand /\ chan' = chan /\ maps' = maps /\ proc.id = NoId
    BY <1>34 DEF VisitSub, Keep, regs, ProcInv
  <2>4. /\ proc'.ev = proc.ev /\ proc'.conns = proc.conns /\ proc'.c = proc.c
        /\ proc'.map = proc.map /\ proc'.ids = proc.ids /\ proc'.id = id
        /\ proc'.match = proc.match \ {id} /\ proc'.found = proc.found
    BY <2>1, <1>4 DEF ProcType
  <2>5. Underway(d, k, x) => Underway(d, k, x)'
    BY <2>3, <2>4, NotifyAssumption DEF Underway
  <2> QED  BY <2>2, <2>3, <2>5 DEF Covered, Queued, Answering
<1>35. ASSUME ProcLock PROVE Covered(d, k, x)'
  <2>1. Owed(d, k, x) /\ Covered(d, k, x)
    BY <1>35, <1>3 DEF ProcLock, Keep, Owed, Wanted, state, hist
  <2>2. hand' = hand /\ chan' = chan /\ maps' = maps
    BY <1>35 DEF ProcLock, Keep, regs
  <2>3. Underway(d, k, x) => Underway(d, k, x)'
    BY <1>35, <2>2, <1>4, NotifyAssumption DEF ProcLock, Underway, ProcInv, ProcType, NoEntries
  <2> QED  BY <2>1, <2>2, <2>3 DEF Covered, Queued, Answering
<1>36. ASSUME ProcWritten PROVE Covered(d, k, x)'
  <2>1. proc.c \in Conns /\ proc.id \in SubIds /\ sent[d][k] \subseteq sent'[d][k]
    BY <1>36, <1>2, <1>4 DEF ProcWritten, ProcInv, ProcType
  <2>2. Owed(d, k, x) /\ Covered(d, k, x)
    BY <1>36, <2>1, <1>3 DEF ProcWritten, Keep, Owed, Wanted, state
  <2>3. hand' = hand /\ chan' = chan /\ maps' = maps
    BY <1>36 DEF ProcWritten, Keep, regs
  <2>4. /\ proc'.ev = proc.ev /\ proc'.conns = proc.conns /\ proc'.c = proc.c
        /\ proc'.map = proc.map /\ proc'.ids = proc.ids /\ proc'.match = proc.match
        /\ proc'.found = proc.found
    BY <1>36, <1>4 DEF ProcWritten, ProcType
  <2>5. ~(proc.ev = x /\ proc.c = d /\ proc.id = k)
    BY <1>36, <2>2, <1>2 DEF ProcWritten, Owed
  <2> QED  BY <2>2, <2>3, <2>4, <2>5 DEF Covered, Queued, Answering, Underway
<1>37. ASSUME SubsVisited PROVE Covered(d, k, x)'
  <2>1. Owed(d, k, x) /\ Covered(d, k, x)
    BY <1>37, <1>3 DEF SubsVisited, Keep, Owed, Wanted, state, hist
  <2>2. hand' = hand /\ chan' = chan /\ maps' = maps
    BY <1>37 DEF SubsVisited, Keep, regs
  <2>3. Underway(d, k, x) => Underway(d, k, x)'
    BY <1>37, <2>2, <1>4, NotifyAssumption DEF SubsVisited, Underway, ProcInv, ProcType,
         NoEntries
  <2> QED  BY <2>1, <2>2, <2>3 DEF Covered, Queued, Answering
<1>38. ASSUME NEW c \in Conns, Connect(c) PROVE Covered(d, k, x)'
  <2>1. Quiet(c)
    BY <1>38 DEF Connect, Unguarded, Answer, HandInv, Quiet
  <2>2. \A y \in Conns \ {c} : hand'[y] = hand[y]
    BY <1>38, <1>0 DEF Connect, Unguarded, Answer
  <2>3. Owed(d, k, x)
    BY <1>38, <1>1, <1>2 DEF Connect, Unguarded, Answer, NoSubs, Owed, Wanted, state, hist
  <2>4. chan' = chan /\ proc' = proc /\ maps' = maps
    BY <1>38 DEF Connect, regs
  <2> QED  BY <2>1, <2>2, <2>3, <2>4, <1>3, QuietStep
<1>39. ASSUME NEW c \in Conns, Disconnect(c) PROVE Covered(d, k, x)'
  <2>1. Owed(d, k, x)
    BY <1>39, <1>2 DEF Disconnect, Owed, Wanted, state, hist
  <2> QED  BY <1>39, <2>1, <1>3, StayStep DEF Disconnect, regs
<1>40. ASSUME NEW c \in Conns, Block(c) PROVE Covered(d, k, x)'
  <2>1. Owed(d, k, x)
    BY <1>40, <1>2 DEF Block, Owed, Wanted, state, hist
  <2> QED  BY <1>40, <2>1, <1>3, StayStep DEF Block, regs
<1>41. ASSUME NEW c \in Conns, PanicHandler(c) PROVE Covered(d, k, x)'
  <2>1. d # c
    BY <1>41, <1>2 DEF PanicHandler, Owed
  <2>2. Owed(d, k, x)
    BY <1>41, <2>1, <1>2 DEF PanicHandler, Owed, Wanted
  <2>3. hand[c].ev # x
    BY <1>41, NotifyAssumption DEF PanicHandler, Owed
  <2>4. \A y \in Conns \ {c} : hand'[y] = hand[y]
    BY <1>41, <1>0 DEF PanicHandler
  <2> QED  BY <1>41, <2>1, <2>2, <2>3, <2>4, <1>3 DEF PanicHandler, Covered, Queued, Underway,
       Answering, regs
<1>42. ASSUME SignalShutdown PROVE Covered(d, k, x)'
  <2>1. Owed(d, k, x)
    BY <1>42, <1>2 DEF SignalShutdown, Owed, Wanted, state, hist
  <2> QED  BY <1>42, <2>1, <1>3, StayStep DEF SignalShutdown, regs
<1>43. ASSUME PanicProcess PROVE Covered(d, k, x)'
  <2>1. Owed(d, k, x)
    BY <1>43, <1>2 DEF PanicProcess, Owed, Wanted, state, hist
  <2> QED  BY <1>43, <2>1, <1>3, StayStep DEF PanicProcess, regs
<1> QED
  BY <1>6, <1>7, <1>8, <1>9, <1>10, <1>11, <1>12, <1>13, <1>14, <1>15, <1>16, <1>17, <1>18,
       <1>19, <1>20, <1>21, <1>22, <1>23, <1>24, <1>25, <1>26, <1>27, <1>28, <1>29, <1>30,
       <1>31, <1>32, <1>33, <1>34, <1>35, <1>36, <1>37, <1>38, <1>39, <1>40, <1>41, <1>42,
       <1>43
  DEF Next, Message, Handle, Tick, Process, Environment

-----------------------------------------------------------------------------
(* The theorems *)

\* The invariant holds initially ...
LEMMA InvInit == Init => NotifyInv
<1> SUFFICES ASSUME Init PROVE NotifyInv  OBVIOUS
<1>1. TypeOK
  BY TypeInit
<1>2. HandInv
  BY DEF Init, HandInv, AtRest
<1>3. ProcInv
  BY DEF Init, ProcInv, Waiting
<1>4. RegInv
  BY DEF Init, RegInv, Listening, NoSubs
<1>5. NoGap
  BY DEF Init, NoGap, Owed
<1> QED  BY <1>1, <1>2, <1>3, <1>4, <1>5 DEF NotifyInv

\* ... and is kept by every step.
LEMMA InvNext == NotifyInv /\ [Next]_vars => NotifyInv'
<1> SUFFICES ASSUME NotifyInv, [Next]_vars PROVE NotifyInv'  OBVIOUS
<1>1. CASE Next
  BY <1>1, TypeStep, HandStep, ProcStep, RegStep, GapStep DEF NotifyInv
<1>2. CASE UNCHANGED vars
  <2> USE <1>2 DEF NotifyInv, vars, life, state, regs, hist
  <2>1. TypeOK'
    BY DEF TypeOK
  <2>2. HandInv' /\ ProcInv'
    BY DEF HandInv, ProcInv
  <2>3. RegInv'
    BY DEF RegInv, Listening
  <2>4. NoGap'
    BY DEF NoGap, Owed, Wanted, Queued, Underway, Answering
  <2> QED  BY <2>1, <2>2, <2>3, <2>4
<1> QED  BY <1>1, <1>2

\* The type of the state, the channel's capacity included, for any number of
\* connections, subscriptions and messages.
THEOREM TypeCorrect == Spec => []TypeOK
<1>1. NotifyInv => TypeOK
  BY DEF NotifyInv
<1> QED  BY <1>1, InvInit, InvNext, PTL DEF Spec

\* No gap between the answer of a REQ and its notifications: whatever the
\* interleaving, a stored event that an open subscription of a logged-in
\* client asks for was sent to it, or is on its way.
THEOREM NoGapHolds == Spec => []NoGap
<1>1. NotifyInv => NoGap
  BY DEF NotifyInv
<1> QED  BY <1>1, InvInit, InvNext, PTL DEF Spec
=============================================================================
