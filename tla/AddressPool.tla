---------------------------- MODULE AddressPool ----------------------------
(***************************************************************************)
(* The Bitcoin address pool of the subscription system: wallet sync fills  *)
(* the subscriber_addresses table, goroutines allocate rows to subscribers *)
(* and publish the address in the subscriber's kind 11888 event, and every *)
(* rewrite of that event copies the address out of an event read earlier.  *)
(* A payment is credited to whoever owns the address it was sent to.       *)
(*                                                                         *)
(* A name is the string a key is filed under: the code keeps hexadecimal   *)
(* and bech32 spellings apart in the table and in the "p" tag of events,   *)
(* and treats them as one user only where it normalises them.  Goroutines  *)
(* are volatile; the table and the event store survive a restart.          *)
(***************************************************************************)
EXTENDS Naturals, FiniteSets

CONSTANTS
    Names,      \* key strings
    Users,      \* the users behind them
    KeyOf,      \* the user a key string spells
    HexNames,   \* the hexadecimal spellings, the form auth.go passes on
    Addrs,      \* addresses the wallet generates
    Agents,     \* goroutines working on subscriptions
    Syncers,    \* workers of SaveWalletAddresses
    MinBuffer,  \* spare addresses a batch wants to see: 50 in the code
    NoName, NoAddr

ASSUME KeyAssumption  == KeyOf \in [Names -> Users] /\ HexNames \subseteq Names
ASSUME NoneAssumption == NoName \notin Names /\ NoAddr \notin Addrs

VARIABLES
    rows,       \* addresses in the subscriber_addresses table
    owner,      \* the npub column; a row is "allocated" iff it is set
    events,     \* stored kind 11888 events, down to the p and address tags
    mode,       \* allowed-users mode: "subscription", or a mode without payment
    job,        \* what each goroutine is doing
    sync        \* the address each sync worker found missing and will save

poolVars == <<rows, owner, events, mode, job, sync>>

Event  == [name : Names, addr : Addrs \cup {NoAddr}]
PCs    == {"idle", "enough", "pick", "alloc", "check", "drop", "store"}
Job    == [pc : PCs, name : Names \cup {NoName}, addr : Addrs \cup {NoAddr},
           batch : BOOLEAN, todo : SUBSET Names]
Idle   == [pc |-> "idle", name |-> NoName, addr |-> NoAddr, batch |-> FALSE, todo |-> {}]

Available == {a \in rows : owner[a] = NoName}
OwnedBy(n) == {a \in rows : owner[a] = n}

PoolTypeOK ==
    /\ rows \subseteq Addrs
    /\ owner \in [Addrs -> Names \cup {NoName}]
    /\ events \subseteq Event
    /\ mode \in {"subscription", "free"}
    /\ job \in [Agents -> Job]
    /\ sync \in [Syncers -> Addrs \cup {NoAddr}]

PoolInit ==
    /\ rows = {}
    /\ owner = [a \in Addrs |-> NoName]
    /\ events = {}
    /\ mode \in {"subscription", "free"}
    /\ job = [g \in Agents |-> Idle]
    /\ sync = [s \in Syncers |-> NoAddr]

-----------------------------------------------------------------------------
(* Wallet sync: five workers each check for the address, then save it.      *)

SyncCheck(s, a) ==
    /\ sync[s] = NoAddr
    /\ a \notin rows
    /\ sync' = [sync EXCEPT ![s] = a]
    /\ UNCHANGED <<rows, owner, events, mode, job>>

\* Mutant: the row is overwritten.
OwnersAfterSaveMut(a) == [owner EXCEPT ![a] = NoName]

\* INSERT ... ON CONFLICT (address) DO NOTHING: a row saved meanwhile by
\* another worker, and perhaps allocated since, is left as it is.
OwnersAfterSave(a) == IF a \in rows THEN owner ELSE [owner EXCEPT ![a] = NoName]

SyncSave(s) ==
    /\ sync[s] # NoAddr
    /\ rows' = rows \cup {sync[s]}
    /\ owner' = OwnersAfterSave(sync[s])
    /\ sync' = [sync EXCEPT ![s] = NoAddr]
    /\ UNCHANGED <<events, mode, job>>

-----------------------------------------------------------------------------
(* AllocateBitcoinAddress: one transaction under addressMutex.  A name that *)
(* has a row gets that row again; otherwise any available row (the code     *)
(* takes the lowest id).                                                    *)

\* Mutant: a name that has a row is given another.
CandidatesMut(n) == Available
\* Mutant: the status of the row is not checked.
CandidatesAnyMut(n) == IF OwnedBy(n) # {} THEN OwnedBy(n) ELSE rows
Candidates(n) == IF OwnedBy(n) # {} THEN OwnedBy(n) ELSE Available

\* What follows the allocation: the batch replaces the user's event, the
\* initialisation of a subscriber creates one unless there is one.
AfterAlloc(j, a) == [j EXCEPT !.addr = a, !.pc = IF j.batch THEN "drop" ELSE "check"]

\* "no available addresses": the batch moves on, the initialisation gives up.
Skip(j) == IF j.batch THEN [j EXCEPT !.pc = "pick", !.name = NoName, !.addr = NoAddr] ELSE Idle

Allocate(g) ==
    /\ job[g].pc = "alloc"
    /\ \/ \E a \in Candidates(job[g].name) :
             /\ owner' = [owner EXCEPT ![a] = job[g].name]
             /\ job' = [job EXCEPT ![g] = AfterAlloc(job[g], a)]
       \/ /\ Candidates(job[g].name) = {}
          /\ job' = [job EXCEPT ![g] = Skip(job[g])]
          /\ UNCHANGED owner
    /\ UNCHANGED <<rows, events, mode, sync>>

-----------------------------------------------------------------------------
(* InitializeSubscriber, run in the background for every NIP-42 login with  *)
(* the mode read at login.                                                  *)

LoginJob(n) == [Idle EXCEPT !.name = n,
                            !.pc = IF mode = "subscription" THEN "alloc" ELSE "check"]

Login(g, n) ==
    /\ job[g] = Idle
    /\ job' = [job EXCEPT ![g] = LoginJob(n)]
    /\ UNCHANGED <<rows, owner, events, mode, sync>>

\* createNIP88EventIfNotExists looks for the one spelling it was given.
HasEvent(n) == \E e \in events : e.name = n

CheckEvent(g) ==
    /\ job[g].pc = "check"
    /\ job' = [job EXCEPT ![g] = IF HasEvent(job[g].name) THEN Idle
                                 ELSE [job[g] EXCEPT !.pc = "store"]]
    /\ UNCHANGED <<rows, owner, events, mode, sync>>

-----------------------------------------------------------------------------
(* createOrUpdateNIP88Event: delete the events of the user under both       *)
(* spellings, then store the new one.                                       *)

SameUser(n) == {e \in events : KeyOf[e.name] = KeyOf[n]}

DropEvents(g) ==
    /\ job[g].pc = "drop"
    /\ events' = events \ SameUser(job[g].name)
    /\ job' = [job EXCEPT ![g].pc = "store"]
    /\ UNCHANGED <<rows, owner, mode, sync>>

StoreEvent(g) ==
    /\ job[g].pc = "store"
    /\ events' = events \cup {[name |-> job[g].name, addr |-> job[g].addr]}
    /\ job' = [job EXCEPT ![g] = Skip(job[g])]
    /\ UNCHANGED <<rows, owner, mode, sync>>

-----------------------------------------------------------------------------
(* The rewrites of an existing event.  Each keeps the address it read.      *)

Rewrite(n, a, pc) == [Idle EXCEPT !.name = n, !.addr = a, !.pc = pc]

\* UpdateStorageUsage, RefreshFreeTier, processSingleSubscriptionEvent: the
\* event is rebuilt for the spelling in its own p tag.
StartRefresh(g, e) ==
    /\ job[g] = Idle
    /\ job' = [job EXCEPT ![g] = Rewrite(e.name, e.addr, "drop")]
    /\ UNCHANGED <<rows, owner, events, mode, sync>>

\* CheckAndUpdateSubscriptionEvent stores its copy and deletes nothing.
StartReadBack(g, e) ==
    /\ job[g] = Idle
    /\ job' = [job EXCEPT ![g] = Rewrite(e.name, e.addr, "store")]
    /\ UNCHANGED <<rows, owner, events, mode, sync>>

\* A payment names its payer by the owner of the output address and rewrites
\* the event found under either spelling of that user's key.
Payer(a) == owner[a]

StartPayment(g, a, e) ==
    /\ job[g] = Idle
    /\ a \in rows /\ Payer(a) # NoName
    /\ e \in SameUser(Payer(a))
    /\ job' = [job EXCEPT ![g] = Rewrite(Payer(a), e.addr, "drop")]
    /\ UNCHANGED <<rows, owner, events, mode, sync>>

\* UpdateUserSubscriptionFromDatabase: an operator adds an allowed user, in
\* whichever spelling, and the event is rebuilt without an address.
StartAssignTier(g, n) ==
    /\ job[g] = Idle
    /\ mode = "free"
    /\ job' = [job EXCEPT ![g] = Rewrite(n, NoAddr, "drop")]
    /\ UNCHANGED <<rows, owner, events, mode, sync>>

\* In a mode that admits only some users the batch deletes the events of the
\* others, one by one (deleteSubscriptionEvent): anyone may be among them.
RemoveUnauthorized(e) ==
    /\ mode = "free"
    /\ events' = events \ {e}
    /\ UNCHANGED <<rows, owner, mode, job, sync>>

-----------------------------------------------------------------------------
(* AllocateBitcoinAddressesForExistingUsers, at startup and after a switch  *)
(* to subscription mode, on a snapshot of the events without an address.    *)

Unaddressed == {e.name : e \in {f \in events : f.addr = NoAddr}}

BatchJob(names) == [Idle EXCEPT !.batch = TRUE, !.pc = "enough", !.todo = names]

StartBatch(g) ==
    /\ job[g] = Idle
    /\ mode = "subscription"
    /\ Unaddressed # {}
    /\ job' = [job EXCEPT ![g] = BatchJob(Unaddressed)]
    /\ UNCHANGED <<rows, owner, events, mode, sync>>

Buffer(n) == IF n \div 5 < MinBuffer THEN MinBuffer ELSE n \div 5
Enough(j) == Cardinality(Available) >= Cardinality(j.todo) + Buffer(Cardinality(j.todo))

\* ensureSufficientAddresses: go on once enough rows are available, give up
\* after thirty tries.
BatchReady(g) ==
    /\ job[g].pc = "enough"
    /\ Enough(job[g])
    /\ job' = [job EXCEPT ![g].pc = "pick"]
    /\ UNCHANGED <<rows, owner, events, mode, sync>>

BatchTimeout(g) ==
    /\ job[g].pc = "enough"
    /\ ~Enough(job[g])
    /\ job' = [job EXCEPT ![g] = Idle]
    /\ UNCHANGED <<rows, owner, events, mode, sync>>

\* Mutant: the name stays on the list.
PickedMut(j, n) == [j EXCEPT !.pc = "alloc", !.name = n, !.addr = NoAddr]
Picked(j, n) == [j EXCEPT !.pc = "alloc", !.name = n, !.addr = NoAddr,
                           !.todo = j.todo \ {n}]

BatchPick(g) ==
    /\ job[g].pc = "pick"
    /\ \/ \E n \in job[g].todo : job' = [job EXCEPT ![g] = Picked(job[g], n)]
       \/ job[g].todo = {} /\ job' = [job EXCEPT ![g] = Idle]
    /\ UNCHANGED <<rows, owner, events, mode, sync>>

-----------------------------------------------------------------------------
(* The operator changes the mode; the process restarts.                     *)

ChangeMode(m) ==
    /\ m # mode
    /\ mode' = m
    /\ UNCHANGED <<rows, owner, events, job, sync>>

Restart ==
    /\ job' = [g \in Agents |-> Idle]
    /\ sync' = [s \in Syncers |-> NoAddr]
    /\ UNCHANGED <<rows, owner, events, mode>>

-----------------------------------------------------------------------------
AgentStep(g) ==
    \/ Allocate(g) \/ CheckEvent(g) \/ DropEvents(g) \/ StoreEvent(g)
    \/ BatchReady(g) \/ BatchTimeout(g) \/ BatchPick(g)

AgentStart(g) ==
    \/ \E n \in HexNames : Login(g, n)
    \/ \E e \in events : StartRefresh(g, e)
    \/ \E e \in events : StartReadBack(g, e)
    \/ \E a \in Addrs, e \in events : StartPayment(g, a, e)
    \/ \E n \in Names : StartAssignTier(g, n)
    \/ StartBatch(g)

PoolNext ==
    \/ \E s \in Syncers, a \in Addrs : SyncCheck(s, a)
    \/ \E s \in Syncers : SyncSave(s)
    \/ \E g \in Agents : AgentStep(g) \/ AgentStart(g)
    \/ \E e \in events : RemoveUnauthorized(e)
    \/ \E m \in {"subscription", "free"} : ChangeMode(m)
    \/ Restart

PoolSpec == PoolInit /\ [][PoolNext]_poolVars

\* A goroutine that has work takes its next step: each step is local database
\* work with a bounded number of retries.
PoolFairSpec == PoolSpec /\ \A g \in Agents : WF_poolVars(AgentStep(g))

-----------------------------------------------------------------------------
\* No name owns two rows, however logins, batches, syncs and restarts
\* interleave: AllocateBitcoinAddress returns the row a name already has.
Exclusive ==
    \A a, b \in rows : owner[a] = owner[b] /\ owner[a] # NoName => a = b

\* An address shown for a user belongs to that user, although every rewrite
\* copies it from an event that may have been replaced or deleted since.
Belongs(n, a) == a # NoAddr => a \in rows /\ owner[a] # NoName /\ KeyOf[owner[a]] = KeyOf[n]

\* A payment to the address in anyone's event is credited to the user the
\* event is about (payment routing, GetSubscriberByAddress).
PublishedOwned == \A e \in events : Belongs(e.name, e.addr)

\* The pool implements the abstract address book.
AnyOf(S) == CHOOSE a \in S : TRUE
HolderOf(n) == IF OwnedBy(n) = {} THEN NoAddr ELSE AnyOf(OwnedBy(n))
Book == INSTANCE AddressBook WITH known <- rows, holds <- [n \in Names |-> HolderOf(n)]
ImplementsBook == Book!Spec

\* Every job ends: a batch works its list off, a wait for addresses times out.
JobsEnd == \A g \in Agents : job[g].pc # "idle" ~> job[g].pc = "idle"
=============================================================================
