----------------------------- MODULE Moderation -----------------------------
(***************************************************************************)
(* Media moderation: a stored event with media waits in a pending queue,   *)
(* the worker loop hands it to a review goroutine, and an event that fails *)
(* is hidden by a separate "blocked" record, which its author may dispute  *)
(* through the ticket the relay issued.  An approved dispute or an admin   *)
(* lifts the record; a daily clean-up deletes what nobody disputed.        *)
(*                                                                         *)
(* The pending queue, blocked records, tickets, disputes and events are    *)
(* all rows of one Badger database, but every access is a transaction of   *)
(* its own: one step below is one such access.  The media service's answer *)
(* is a choice.  Every event below has media and one author.               *)
(***************************************************************************)
EXTENDS Integers, FiniteSets

CONSTANTS
    Events,             \* posts with media
    Disputes,           \* kind 19842 events
    Slots,              \* places of the review semaphore (w.Concurrency)
    Answers,            \* what the media service may answer
    EventBatch, DisputeBatch,
    Retention,          \* how long a blocked event is kept
    Relay, Nobody, Free, NoTicket,
    MaxPublishes, MaxSubmits, MaxUnblocks, MaxDeletes, MaxRestarts, MaxTime    \* bounds

ASSUME KeysApart ==
    /\ Events \cap Disputes = {} /\ Relay \notin Disputes
    /\ Nobody \notin Events \cup Disputes
ASSUME AnswersAssumption == Answers \subseteq {"pass", "block", "error"}
ASSUME BatchAssumption == EventBatch \in Nat \ {0} /\ DisputeBatch \in Nat \ {0}
ASSUME TimeAssumption == Retention \in Nat /\ MaxTime \in Nat

VARIABLES
    stored,         \* the posts in the event store
    pending,        \* pending_mod:<event>
    blocked,        \* blocked:<event>, or Free
    tickets,        \* kind 19841 events
    disputed,       \* kind 19842 events: the ticket each refers to
    withdrawn,      \* those of them that their author deleted again
    queue,          \* pending_dispute:<dispute>
    resolved,       \* kind 19843 events: what each dispute came to
    clock,
    publishing,     \* posts stored but not yet put in the pending queue
    loop,           \* the worker's select loop
    worker,         \* the review goroutines
    filing,         \* the kind 19842 handlers
    cleanup,        \* the daily clean-up goroutine
    admin,          \* an admin's request to delete a blocked event
    standing,       \* history: the last judgement of a post that still counts
    count           \* bounds

rows    == <<stored, pending, blocked, tickets, disputed, withdrawn, queue, resolved>>
actors  == <<publishing, loop, worker, filing, cleanup, admin>>
vars    == <<rows, clock, actors, standing, count>>

Time == 0..MaxTime
Block == [until : Nat, dispute : BOOLEAN]
Ticket == [event : Events, at : Time, by : Disputes \cup {Relay}]
Task == Events \cup Disputes
ASSUME NoValues == Free \notin Block /\ NoTicket \notin Ticket

WorkerStages == {"idle", "fetch", "judge", "mark", "ticket", "clear",
                 "recheck", "refetch", "rejudge", "approve", "reject", "unmark", "unticket"}
FilingStages == {"idle", "copy", "store", "get", "put", "enqueue"}

LoopState    == [found : SUBSET Task, todo : SUBSET Task, next : Task \cup {Nobody}]
WorkerState  == [stage : WorkerStages, on : Task \cup {Nobody}]
FilingState  == [stage : FilingStages, ticket : Ticket \cup {NoTicket}, seen : Block \cup {Free}]
CleanupState == [todo : SUBSET Events, stage : {"next", "tickets", "event"},
                 on : Events \cup {Nobody}]
AdminState   == [stage : {"idle", "unmark", "tickets"}, on : Events \cup {Nobody}]

Outcomes == {"no", "approved", "rejected"}
Judgements == {"new", "cleared", "failed", "exposed"}
Counts == [publishes : Nat, submits : Nat, unblocks : Nat, deletes : Nat, restarts : Nat]

TypeOK ==
    /\ stored \subseteq Events /\ pending \subseteq Events
    /\ blocked \in [Events -> Block \cup {Free}]
    /\ tickets \subseteq Ticket
    /\ disputed \in [Disputes -> Ticket \cup {NoTicket}]
    /\ withdrawn \subseteq Disputes /\ queue \subseteq Disputes
    /\ resolved \in [Disputes -> Outcomes]
    /\ clock \in Time
    /\ publishing \subseteq Events
    /\ loop \in LoopState
    /\ worker \in [Slots -> WorkerState]
    /\ filing \in [Disputes -> FilingState]
    /\ cleanup \in CleanupState
    /\ admin \in AdminState
    /\ standing \in [Events -> Judgements]
    /\ count \in Counts

NoTask   == [found |-> {}, todo |-> {}, next |-> Nobody]
NoReview == [stage |-> "idle", on |-> Nobody]
NoFiling == [stage |-> "idle", ticket |-> NoTicket, seen |-> Free]
NoPurge  == [todo |-> {}, stage |-> "next", on |-> Nobody]
NoAdmin  == [stage |-> "idle", on |-> Nobody]

Init ==
    /\ stored = {} /\ pending = {} /\ tickets = {} /\ withdrawn = {} /\ queue = {}
    /\ blocked = [e \in Events |-> Free]
    /\ disputed = [d \in Disputes |-> NoTicket]
    /\ resolved = [d \in Disputes |-> "no"]
    /\ clock = 0
    /\ publishing = {} /\ loop = NoTask /\ cleanup = NoPurge /\ admin = NoAdmin
    /\ worker = [s \in Slots |-> NoReview]
    /\ filing = [d \in Disputes |-> NoFiling]
    /\ standing = [e \in Events |-> "new"]
    /\ count = [publishes |-> 0, submits |-> 0, unblocks |-> 0, deletes |-> 0, restarts |-> 0]

Blocked(e) == blocked[e] # Free
EventOf(d) == disputed[d].event
TicketsOf(e) == {t \in tickets : t.event = e}
OnRecord(d) == disputed[d] # NoTicket /\ d \notin withdrawn
Least(a, b) == IF a < b THEN a ELSE b

\* With its record an event's failure is forgotten; sent again, it is a new post.
Forgotten(judgement) == IF judgement = "failed" THEN "new" ELSE judgement

-----------------------------------------------------------------------------
(* Authors *)

\* StoreEvent commits the event and its indexes in one transaction, and only
\* then queues it; a post may be sent again at any time.
Publish(e) ==
    /\ count.publishes < MaxPublishes
    /\ count' = [count EXCEPT !.publishes = @ + 1]
    /\ stored' = stored \cup {e}
    /\ publishing' = publishing \cup {e}
    /\ UNCHANGED <<pending, blocked, tickets, disputed, withdrawn, queue, resolved, clock, loop,
                   worker, filing, cleanup, admin, standing>>

Enqueue(e) ==
    /\ e \in publishing
    /\ publishing' = publishing \ {e}
    /\ pending' = pending \cup {e}
    /\ UNCHANGED <<stored, blocked, tickets, disputed, withdrawn, queue, resolved, clock, loop,
                   worker, filing, cleanup, admin, standing, count>>

\* As if a deletion cleaned up the blocked record too.
AuthorDeleteMut(e) ==
    /\ e \in stored
    /\ stored' = stored \ {e}
    /\ blocked' = [blocked EXCEPT ![e] = Free]
    /\ UNCHANGED <<pending, tickets, disputed, withdrawn, queue, resolved, clock, actors,
                   standing, count>>

\* A kind 5 request of the author deletes the event and nothing that hangs on it.
AuthorDelete(e) ==
    /\ e \in stored
    /\ stored' = stored \ {e}
    /\ UNCHANGED <<pending, blocked, tickets, disputed, withdrawn, queue, resolved, clock,
                   actors, standing, count>>

\* So does one that names a dispute: the kind 19842 event goes, and the ticket's
\* copy, the HasDispute flag, the queue's row, which holds all that the review
\* needs, and any resolution stay.
Withdraw(d) ==
    /\ OnRecord(d)
    /\ withdrawn' = withdrawn \cup {d}
    /\ UNCHANGED <<stored, pending, blocked, tickets, disputed, queue, resolved, clock, actors,
                   standing, count>>

-----------------------------------------------------------------------------
(* The worker's select loop *)

\* One tick of a queue's timer: read up to a batch of keys.
Poll(keys, batch) ==
    /\ loop = NoTask
    /\ \E found \in SUBSET keys :
           /\ Cardinality(found) = Least(batch, Cardinality(keys))
           /\ found # {}
           /\ loop' = [loop EXCEPT !.found = found]
    /\ UNCHANGED <<rows, clock, publishing, worker, filing, cleanup, admin, standing, count>>

PollEvents   == Poll(pending, EventBatch)
PollDisputes == Poll(queue, DisputeBatch)

\* Delete the key of one of them.
Drain(x) ==
    /\ x \in loop.found
    /\ loop' = [loop EXCEPT !.found = @ \ {x}, !.todo = @ \cup {x}]
    /\ pending' = pending \ {x}
    /\ queue' = queue \ {x}
    /\ UNCHANGED <<stored, blocked, tickets, disputed, withdrawn, resolved, clock, publishing,
                   worker, filing, cleanup, admin, standing, count>>

\* The next of the batch: an event already blocked is not reviewed again.
Consider(x) ==
    /\ loop.found = {} /\ loop.next = Nobody /\ x \in loop.todo
    /\ loop' = [loop EXCEPT !.todo = @ \ {x},
                            !.next = IF x \in Events /\ Blocked(x) THEN Nobody ELSE x]
    /\ UNCHANGED <<rows, clock, publishing, worker, filing, cleanup, admin, standing, count>>

\* A place of the semaphore is free: start the goroutine.
Launch(s) ==
    /\ loop.next # Nobody /\ worker[s] = NoReview
    /\ worker' = [worker EXCEPT ![s] =
                    [stage |-> IF loop.next \in Events THEN "fetch" ELSE "recheck",
                     on |-> loop.next]]
    /\ loop' = [loop EXCEPT !.next = Nobody]
    /\ UNCHANGED <<rows, clock, publishing, filing, cleanup, admin, standing, count>>

-----------------------------------------------------------------------------
(* processEvent *)

At(s, stage) == worker[s].stage = stage
Go(s, stage) == worker' = [worker EXCEPT ![s].stage = stage]
Done(s)      == worker' = [worker EXCEPT ![s] = NoReview]

Others == <<clock, publishing, loop, filing, cleanup, admin, count>>

\* As if the queue key were removed "in any case", the missing event's included.
FetchMut(s) ==
    /\ At(s, "fetch")
    /\ Go(s, IF worker[s].on \in stored THEN "judge" ELSE "clear")
    /\ UNCHANGED <<rows, standing, Others>>

Fetch(s) ==
    /\ At(s, "fetch")
    /\ IF worker[s].on \in stored THEN Go(s, "judge") ELSE Done(s)
    /\ UNCHANGED <<rows, standing, Others>>

\* Media the service cannot answer for is passed over.
Judge(s) ==
    /\ At(s, "judge")
    /\ \E answer \in Answers :
         /\ Go(s, IF answer = "block" THEN "mark" ELSE "clear")
         /\ standing' = IF answer = "pass" /\ ~Blocked(worker[s].on)
                        THEN [standing EXCEPT ![worker[s].on] = "cleared"] ELSE standing
    /\ UNCHANGED <<rows, Others>>

\* MarkEventBlockedWithDetails: first the record, kept for the retention period ...
FreshBlock == [until |-> clock + Retention, dispute |-> FALSE]
Mark(s) ==
    /\ At(s, "mark") /\ Go(s, "ticket")
    /\ blocked' = [blocked EXCEPT ![worker[s].on] = FreshBlock]
    /\ standing' = [standing EXCEPT ![worker[s].on] = "failed"]
    /\ UNCHANGED <<stored, pending, tickets, disputed, withdrawn, queue, resolved, Others>>

\* ... then the ticket, if the event is still there.
IssueTicket(s) ==
    /\ At(s, "ticket") /\ Go(s, "clear")
    /\ tickets' = IF worker[s].on \in stored
                  THEN tickets \cup {[event |-> worker[s].on, at |-> clock, by |-> Relay]}
                  ELSE tickets
    /\ UNCHANGED <<stored, pending, blocked, disputed, withdrawn, queue, resolved, standing,
                   Others>>

\* As if the semaphore's place were not given back.
ClearMut(s) ==
    /\ At(s, "clear")
    /\ pending' = pending \ {worker[s].on}
    /\ UNCHANGED <<stored, blocked, tickets, disputed, withdrawn, queue, resolved, worker,
                   standing, Others>>

Clear(s) ==
    /\ At(s, "clear") /\ Done(s)
    /\ pending' = pending \ {worker[s].on}
    /\ UNCHANGED <<stored, blocked, tickets, disputed, withdrawn, queue, resolved, standing,
                   Others>>

-----------------------------------------------------------------------------
(* processDispute and CreateResolutionEvent *)

Disputed(s) == EventOf(worker[s].on)

\* A dispute of an event that is not blocked, or not there, gets no resolution.
Recheck(s) ==
    /\ At(s, "recheck")
    /\ IF Blocked(Disputed(s)) THEN Go(s, "refetch") ELSE Done(s)
    /\ UNCHANGED <<rows, standing, Others>>

Refetch(s) ==
    /\ At(s, "refetch")
    /\ IF Disputed(s) \in stored THEN Go(s, "rejudge") ELSE Done(s)
    /\ UNCHANGED <<rows, standing, Others>>

\* Only an answer that some medium passes approves the dispute.
Rejudge(s) ==
    /\ At(s, "rejudge")
    /\ \E answer \in Answers : Go(s, IF answer = "pass" THEN "approve" ELSE "reject")
    /\ UNCHANGED <<rows, standing, Others>>

\* As if a rejection were not published.
ResolveMut(s) ==
    /\ \/ At(s, "approve") /\ Go(s, "unmark")
          /\ resolved' = [resolved EXCEPT ![worker[s].on] = "approved"]
       \/ At(s, "reject") /\ Done(s) /\ UNCHANGED resolved
    /\ UNCHANGED <<stored, pending, blocked, tickets, disputed, withdrawn, queue, standing,
                   Others>>

Resolve(s) ==
    /\ \/ At(s, "approve") /\ Go(s, "unmark")
          /\ resolved' = [resolved EXCEPT ![worker[s].on] = "approved"]
       \/ At(s, "reject") /\ Done(s)
          /\ resolved' = [resolved EXCEPT ![worker[s].on] = "rejected"]
    /\ UNCHANGED <<stored, pending, blocked, tickets, disputed, withdrawn, queue, standing,
                   Others>>

Unmark(s) ==
    /\ At(s, "unmark") /\ Go(s, "unticket")
    /\ blocked' = [blocked EXCEPT ![Disputed(s)] = Free]
    /\ standing' = [standing EXCEPT ![Disputed(s)] = "cleared"]
    /\ UNCHANGED <<stored, pending, tickets, disputed, withdrawn, queue, resolved, Others>>

\* The ticket the dispute names is deleted, and no other.
Settled(s) == {disputed[worker[s].on]}
Unticket(s) ==
    /\ At(s, "unticket") /\ Done(s)
    /\ tickets' = tickets \ Settled(s)
    /\ UNCHANGED <<stored, pending, blocked, disputed, withdrawn, queue, resolved, standing,
                   Others>>

Review(s) ==
    \/ Fetch(s) \/ Judge(s) \/ Mark(s) \/ IssueTicket(s) \/ Clear(s)
    \/ Recheck(s) \/ Refetch(s) \/ Rejudge(s) \/ Resolve(s) \/ Unmark(s) \/ Unticket(s)

-----------------------------------------------------------------------------
(* The kind 19842 handler *)

\* HasUserDisputedEvent looks for disputes of the newest ticket only; tickets
\* of one instant may come back in either order.
Newest(ts) == {t \in ts : \A u \in ts : u.at <= t.at}
MayHaveDisputed(e, yes) ==
    \/ TicketsOf(e) = {} /\ ~yes
    \/ \E t \in Newest(TicketsOf(e)) : yes = (\E d \in Disputes : OnRecord(d) /\ disputed[d] = t)

\* The ticket exists and its last "e" tag is a blocked event (an updated copy
\* ends with the dispute's id instead); whether the author is a subscriber is
\* a choice.  A dispute sent again names the same ticket.
Accepts(t) == t.by = Relay /\ Blocked(t.event)
Submit(d, t) ==
    /\ count.submits < MaxSubmits
    /\ filing[d] = NoFiling /\ disputed[d] \in {NoTicket, t}
    /\ Accepts(t)
    /\ \E hasDisputed, isPaid \in BOOLEAN :
           MayHaveDisputed(t.event, hasDisputed) /\ (hasDisputed => isPaid)
    /\ count' = [count EXCEPT !.submits = @ + 1]
    /\ filing' = [filing EXCEPT ![d] = [stage |-> "copy", ticket |-> t, seen |-> Free]]
    /\ UNCHANGED <<rows, clock, publishing, loop, worker, cleanup, admin, standing>>

Filing(d, from, to) == filing[d].stage = from /\ filing' = [filing EXCEPT ![d].stage = to]
FilingOthers == <<stored, pending, resolved, clock, publishing, loop, worker, cleanup, admin,
                  standing, count>>

\* The updated ticket, the dispute, the HasDispute flag (read, then written)
\* and the queue entry.
StoreCopyMut(d) ==     \* as if the dispute itself were not stored
    /\ Filing(d, "copy", "get")
    /\ tickets' = tickets \cup {[event |-> filing[d].ticket.event, at |-> clock, by |-> d]}
    /\ UNCHANGED <<blocked, disputed, withdrawn, queue, FilingOthers>>

StoreCopy(d) ==
    /\ Filing(d, "copy", "store")
    /\ tickets' = tickets \cup {[event |-> filing[d].ticket.event, at |-> clock, by |-> d]}
    /\ UNCHANGED <<blocked, disputed, withdrawn, queue, FilingOthers>>

StoreDispute(d) ==
    /\ Filing(d, "store", "get")
    /\ disputed' = [disputed EXCEPT ![d] = filing[d].ticket]
    /\ withdrawn' = withdrawn \ {d}
    /\ UNCHANGED <<blocked, tickets, queue, FilingOthers>>

GetBlock(d) ==
    LET seen == blocked[filing[d].ticket.event] IN
    /\ filing[d].stage = "get"
    /\ filing' = [filing EXCEPT ![d].stage = IF seen = Free THEN "enqueue" ELSE "put",
                                ![d].seen = seen]
    /\ UNCHANGED <<blocked, tickets, disputed, withdrawn, queue, FilingOthers>>

PutBlock(d) ==
    /\ Filing(d, "put", "enqueue")
    /\ blocked' = [blocked EXCEPT ![filing[d].ticket.event] =
                       [until |-> filing[d].seen.until, dispute |-> TRUE]]
    /\ UNCHANGED <<tickets, disputed, withdrawn, queue, FilingOthers>>

EnqueueDispute(d) ==
    /\ filing[d].stage = "enqueue" /\ filing' = [filing EXCEPT ![d] = NoFiling]
    /\ queue' = queue \cup {d}
    /\ UNCHANGED <<blocked, tickets, disputed, withdrawn, FilingOthers>>

File(d) ==
    StoreCopy(d) \/ StoreDispute(d) \/ GetBlock(d) \/ PutBlock(d) \/ EnqueueDispute(d)

-----------------------------------------------------------------------------
(* DeleteBlockedEventsOlderThan *)

\* One scan decides what is to go; what happens to the records later is not seen.
Expired(e) == Blocked(e) /\ ~blocked[e].dispute /\ clock > blocked[e].until
StartCleanup ==
    /\ cleanup = NoPurge
    /\ \E e \in Events : Expired(e)
    /\ cleanup' = [cleanup EXCEPT !.todo = {e \in Events : Expired(e)}]
    /\ UNCHANGED <<rows, clock, publishing, loop, worker, filing, admin, standing, count>>

CleanupOthers == <<pending, disputed, withdrawn, queue, resolved, clock, publishing, loop,
                   worker, filing, admin, count>>

\* A record that is gone by now is an error, and its event is left alone.
PurgeBlock(e) ==
    /\ cleanup.stage = "next" /\ e \in cleanup.todo
    /\ blocked' = [blocked EXCEPT ![e] = Free]
    /\ cleanup' = IF Blocked(e)
                  THEN [todo |-> cleanup.todo \ {e}, stage |-> "tickets", on |-> e]
                  ELSE [cleanup EXCEPT !.todo = @ \ {e}]
    /\ UNCHANGED <<stored, tickets, standing, CleanupOthers>>

PurgeTickets ==
    /\ cleanup.stage = "tickets"
    /\ tickets' = tickets \ TicketsOf(cleanup.on)
    /\ cleanup' = [cleanup EXCEPT !.stage = "event"]
    /\ UNCHANGED <<stored, blocked, standing, CleanupOthers>>

PurgeEvent ==
    /\ cleanup.stage = "event"
    /\ stored' = stored \ {cleanup.on}
    /\ standing' = [standing EXCEPT ![cleanup.on] = Forgotten(@)]
    /\ cleanup' = [cleanup EXCEPT !.stage = "next", !.on = Nobody]
    /\ UNCHANGED <<blocked, tickets, CleanupOthers>>

Purge == (\E e \in Events : PurgeBlock(e)) \/ PurgeTickets \/ PurgeEvent

-----------------------------------------------------------------------------
(* The admin's handlers *)

AdminOthers == <<pending, disputed, withdrawn, queue, resolved, clock, publishing, loop, worker,
                 filing, cleanup>>

UnblockEvent(e) ==
    /\ count.unblocks < MaxUnblocks /\ Blocked(e)
    /\ count' = [count EXCEPT !.unblocks = @ + 1]
    /\ blocked' = [blocked EXCEPT ![e] = Free]
    /\ standing' = [standing EXCEPT ![e] = "cleared"]
    /\ UNCHANGED <<stored, tickets, admin, AdminOthers>>

\* DeleteModeratedEvent: the event, then the record, then the tickets.
AdminDelete(e) ==
    /\ count.deletes < MaxDeletes /\ admin = NoAdmin
    /\ Blocked(e) /\ e \in stored
    /\ count' = [count EXCEPT !.deletes = @ + 1]
    /\ stored' = stored \ {e}
    /\ admin' = [stage |-> "unmark", on |-> e]
    /\ UNCHANGED <<blocked, tickets, standing, AdminOthers>>

AdminUnmark ==
    /\ admin.stage = "unmark"
    /\ blocked' = [blocked EXCEPT ![admin.on] = Free]
    /\ standing' = [standing EXCEPT ![admin.on] = Forgotten(@)]
    /\ admin' = [admin EXCEPT !.stage = "tickets"]
    /\ UNCHANGED <<stored, tickets, count, AdminOthers>>

AdminTickets ==
    /\ admin.stage = "tickets"
    /\ tickets' = tickets \ TicketsOf(admin.on)
    /\ admin' = NoAdmin
    /\ UNCHANGED <<stored, blocked, standing, count, AdminOthers>>

-----------------------------------------------------------------------------
\* The clock counts days: whatever goroutine or request is under way ends within
\* the day, so a review or a handler never spans the retention of its own event.
Settling == <<publishing, loop, cleanup, admin>> = <<{}, NoTask, NoPurge, NoAdmin>>
            /\ (\A s \in Slots : worker[s] = NoReview)
            /\ (\A d \in Disputes : filing[d] = NoFiling)
Tick ==
    /\ Settling
    /\ clock < MaxTime /\ clock' = clock + 1
    /\ UNCHANGED <<rows, actors, standing, count>>

\* What is in memory is gone; the database is as the last transaction left it.
\* An event whose clean-up was under way has lost its record and stays stored.
Exposed == [e \in Events |-> IF cleanup.on = e THEN "exposed" ELSE standing[e]]
Restart ==
    /\ count.restarts < MaxRestarts
    /\ count' = [count EXCEPT !.restarts = @ + 1]
    /\ publishing' = {} /\ loop' = NoTask /\ cleanup' = NoPurge /\ admin' = NoAdmin
    /\ worker' = [s \in Slots |-> NoReview]
    /\ filing' = [d \in Disputes |-> NoFiling]
    /\ standing' = Exposed
    /\ UNCHANGED <<rows, clock>>

Author ==
    \/ \E e \in Events : Publish(e) \/ Enqueue(e) \/ AuthorDelete(e)
    \/ \E d \in Disputes : Withdraw(d)
Loop   == PollEvents \/ PollDisputes \/ (\E x \in Task : Drain(x) \/ Consider(x))
          \/ (\E s \in Slots : Launch(s))
Client == \E d \in Disputes : (\E t \in tickets : Submit(d, t)) \/ File(d)
Admin  == (\E e \in Events : UnblockEvent(e) \/ AdminDelete(e)) \/ AdminUnmark \/ AdminTickets
Next ==
    \/ Author \/ Loop \/ (\E s \in Slots : Review(s)) \/ Client
    \/ StartCleanup \/ Purge \/ Admin \/ Tick \/ Restart

Spec == Init /\ [][Next]_vars

\* Goroutines that started run on; timers fire; nobody is made to post, to
\* dispute or to administer, and the media service answers (its client times
\* out).  The clean-up's timer fires daily.
Fairness ==
    /\ \A e \in Events : WF_vars(Enqueue(e))
    /\ WF_vars(PollEvents) /\ WF_vars(PollDisputes)
    /\ WF_vars(\E x \in Task : Drain(x)) /\ WF_vars(\E x \in Task : Consider(x))
    /\ WF_vars(\E s \in Slots : Launch(s))
    /\ \A s \in Slots : WF_vars(Review(s))
    /\ \A d \in Disputes : WF_vars(File(d))
    /\ WF_vars(StartCleanup) /\ WF_vars(Purge)
    /\ WF_vars(AdminUnmark) /\ WF_vars(AdminTickets)
FairSpec == Spec /\ Fairness

-----------------------------------------------------------------------------
(* Properties *)

InReview(e)   == \E s \in Slots : worker[s].on = e
InLoop(e)     == e \in loop.found \cup loop.todo \/ loop.next = e
Queued(e)     == e \in publishing \cup pending \/ InLoop(e)
BeingPurged(e) == cleanup.on = e
BeingDeleted(e) == BeingPurged(e) \/ admin.on = e

\* What a reader other than the author gets in strict mode: a stored event with
\* neither a blocked record nor a pending entry (the filter's two batch checks).
Served(e) == e \in stored /\ ~Blocked(e) /\ e \notin pending

\* An event that failed its review, and whose failure neither an approved
\* dispute nor an admin has lifted, keeps its blocked record as long as it is
\* stored, whatever is deleted and sent again meanwhile and wherever the relay
\* crashes; only the clean-up removes the record first, on its way to deleting
\* the event, and a crash right there is the one that exposes it.
FailedHidden ==
    \A e \in stored : standing[e] = "failed" => Blocked(e) \/ BeingPurged(e)

\* No event slips past review: one that is stored, not blocked, not queued, not
\* being reviewed and not on its way out has passed, or was put back by an
\* approved dispute or an admin.  The skip of blocked events, the deletion of
\* queue keys by two actors and re-sent posts all have to fit for this.
NothingUnreviewed ==
    \A e \in stored :
        standing[e] = "new" => Blocked(e) \/ Queued(e) \/ InReview(e) \/ BeingPurged(e)

\* Every queued, resolved or flagged dispute is on record, unless its own author
\* has deleted it since: a crash anywhere in the kind 19842 handler, and whatever
\* the reviews, the clean-up and the admin do, leaves no queue entry, resolution
\* or HasDispute flag that refers to a dispute nobody can look up.  (The author's
\* kind 5 request does: it removes the dispute alone.)
Traceable(d) == OnRecord(d) \/ d \in withdrawn
DisputesOnRecord ==
    /\ \A d \in Disputes : d \in queue \/ resolved[d] # "no" => Traceable(d)
    /\ \A e \in Events : Blocked(e) => (blocked[e].dispute =>
           \E d \in Disputes : Traceable(d) /\ EventOf(d) = e)

\* A queued review runs to its end: the event leaves the queue, the loop and
\* the goroutines, if nothing crashes.
ReviewsEnd == \A e \in Events : e \in pending ~> ~(e \in pending \/ InLoop(e) \/ InReview(e))

\* A dispute the relay took is answered, unless there is nothing left to decide.
Decided(d) ==
    /\ disputed[d] # NoTicket
    /\ resolved[d] # "no" \/ ~Blocked(EventOf(d)) \/ EventOf(d) \notin stored
DisputesAnswered == \A d \in Disputes : d \in queue ~> Decided(d)

(* Statements of the documents and comments *)

\* docs/moderation_modes.md: in strict mode events with media "are not queryable
\* by regular users while they are pending moderation".
PendingHidden == \A e \in Events : InReview(e) /\ standing[e] = "new" => ~Served(e)

\* docs/moderation_dispute_system.md: "Every user gets one free dispute per
\* blocked event"; a later one needs a subscription.
FreeOnce ==
    \A t \in tickets :
        Accepts(t) /\ MayHaveDisputed(t.event, FALSE) =>
            \A d \in Disputes : OnRecord(d) => disputed[d] # t
=============================================================================
