------------------------------- MODULE Notify -------------------------------
(***************************************************************************)
(* Live subscriptions.  Each WebSocket connection has a goroutine that     *)
(* reads its messages and handles them one after the other, and a ticker   *)
(* goroutine that closes it when its user is blocked.  Accepted events go  *)
(* into a bounded channel; one notification processor takes them out and   *)
(* writes them to every connection with a matching subscription.  They     *)
(* share the maps listeners and connWriteMu, which are concurrent maps: a  *)
(* Range over one copies some entries at a time, and visits the copies in  *)
(* any order, while the map changes.                                       *)
(*                                                                         *)
(* A handler's answer to one message is one write here.  A filter is the   *)
(* set of events it matches.  An event of Events may be sent repeatedly.   *)
(* Maps and mutexes of one connection are told apart by a number, for a    *)
(* goroutine may hold one that is no longer in use; a new one gets a       *)
(* number that no goroutine holds.                                         *)
(***************************************************************************)
EXTENDS Integers, Sequences

CONSTANTS
    Conns, SubIds, Events, Filters,
    NoFilter, NoConn, NoEvent, NoId,
    QueueSize,              \* capacity of notificationChan
    MaxAuthAttempts,        \* failed logins before the rate limit
    Budget, Sends,          \* bound: how many messages a client sends, and which
    MayLeave, MayBeBlocked  \* bound: clients that leave, users that get blocked

ASSUME NotifyAssumption ==
    /\ Filters \subseteq SUBSET Events /\ NoFilter \notin Filters
    /\ NoConn \notin Conns /\ NoEvent \notin Events /\ NoId \notin SubIds
    /\ QueueSize \in Nat /\ MaxAuthAttempts \in Nat \ {0} /\ Budget \in [Conns -> Nat]
    /\ Sends \in [Conns -> SUBSET {"REQ", "COUNT", "CLOSE", "EVENT", "AUTH"}]

VARIABLES
    alive,          \* the process runs
    shutdown,       \* SignalShutdown was called
    conn,           \* life of a connection: new, open, ended
    broken,         \* its socket is closed, by the client or the ticker
    authed,         \* connectionState.authenticated
    attempts,       \* connectionState.authAttempts
    blocked,        \* the user of the connection is in the blocked list
    ticker,         \* the connection's ticker goroutine
    hand,           \* the connection's handler goroutine
    listeners,      \* the connection's entry in listeners: authenticated, map number
    subs,           \* its newest subscription map
    maps,           \* number of that map
    connWriteMu,    \* number of the mutex in connWriteMu, 0 for none
    chan,           \* notificationChan
    proc,           \* the notification processor
    stored,         \* events in the store
    want,           \* history: filter of each REQ opened after the login
    sent,           \* history: events sent to a subscription since it was opened
    dropped,        \* history: events whose notification was given up
    used            \* bound: messages read from a connection

life  == <<alive, shutdown>>
state == <<conn, broken, authed, attempts, blocked, ticker>>
regs  == <<listeners, subs, maps>>
hist  == <<want, sent, dropped>>
vars  == <<life, state, hand, regs, connWriteMu, chan, proc, stored, hist, used>>

None     == [auth |-> FALSE, map |-> 0]       \* no entry: maps count from 1
NoSubs   == [id \in SubIds |-> NoFilter]
Nothing  == [id \in SubIds |-> {}]
AtRest   == [pc |-> "loop", then |-> "loop", id |-> NoId, ev |-> NoEvent, ans |-> {}, mu |-> 0]
NoEntries == [c \in Conns |-> None]
Waiting  == [pc |-> "wait", drain |-> FALSE, ev |-> NoEvent, conns |-> {}, found |-> NoEntries,
             c |-> NoConn, map |-> 0, ids |-> {}, match |-> {}, id |-> NoId, mu |-> 0]

Init ==
    /\ alive = TRUE /\ shutdown = FALSE
    /\ conn = [c \in Conns |-> "new"] /\ broken = [c \in Conns |-> FALSE]
    /\ authed = [c \in Conns |-> FALSE] /\ attempts = [c \in Conns |-> 0]
    /\ blocked = [c \in Conns |-> FALSE] /\ ticker = [c \in Conns |-> "off"]
    /\ hand = [c \in Conns |-> AtRest]
    /\ listeners = [c \in Conns |-> None]
    /\ subs = [c \in Conns |-> NoSubs] /\ maps = [c \in Conns |-> 0]
    /\ connWriteMu = [c \in Conns |-> 0]
    /\ chan = <<>> /\ proc = Waiting /\ stored = {}
    /\ want = [c \in Conns |-> NoSubs] /\ sent = [c \in Conns |-> Nothing] /\ dropped = {}
    /\ used = [c \in Conns |-> 0]

-----------------------------------------------------------------------------
(* The write mutex of a connection *)

\* getConnWriteMutex: the mutex in the map, or a new one put there.
NewMutex(c) == IF proc.c = c /\ proc.mu = 1 THEN 2 ELSE 1
MutexOf(c)  == IF connWriteMu[c] = 0 THEN NewMutex(c) ELSE connWriteMu[c]
GetMutex(c) == connWriteMu' = [connWriteMu EXCEPT ![c] = MutexOf(c)]

HandlerWrites(c) == hand[c].pc = "write"
ProcWrites(c)    == proc.pc = "write" /\ proc.c = c
\* The processor takes a number before it holds the mutex, a handler does not.
HandlerHolds(c, mu) == hand[c].mu = mu
ProcHolds(c, mu)    == ProcWrites(c) /\ proc.mu = mu

-----------------------------------------------------------------------------
(* The handler goroutine of a connection *)

\* A guarded answer, then the next step; a write that bypasses the mutex.
Answer(c, then)    == hand' = [hand EXCEPT ![c] = [AtRest EXCEPT !.pc = "lock", !.then = then]]
Unguarded(c, then) == hand' = [hand EXCEPT ![c] = [AtRest EXCEPT !.pc = "write", !.then = then]]

\* A new connection is challenged; during a shutdown it is sent away.
Connect(c) ==
    /\ conn[c] = "new"
    /\ conn' = [conn EXCEPT ![c] = "open"]
    /\ IF shutdown
       THEN Unguarded(c, "bye") /\ UNCHANGED ticker
       ELSE Answer(c, "loop") /\ ticker' = [ticker EXCEPT ![c] = "run"]
    /\ UNCHANGED <<life, broken, authed, attempts, blocked, regs, connWriteMu, chan, proc, stored, hist, used>>

\* The loop looks for a shutdown before it waits for the next message.
ToRead(c) ==
    /\ conn[c] = "open" /\ hand[c].pc = "loop" /\ ~shutdown
    /\ hand' = [hand EXCEPT ![c].pc = "read"]
    /\ UNCHANGED <<life, state, regs, connWriteMu, chan, proc, stored, hist, used>>
\* The second look, in processWebSocketMessage, ends without a message.
StopReading(c) ==
    /\ conn[c] = "open" /\ hand[c].pc = "loop" /\ shutdown
    /\ \/ Unguarded(c, "bye")
       \/ hand' = [hand EXCEPT ![c].pc = "bye"]
    /\ UNCHANGED <<life, state, regs, connWriteMu, chan, proc, stored, hist, used>>
ReadFails(c) ==
    /\ hand[c].pc = "read" /\ broken[c]
    /\ hand' = [hand EXCEPT ![c].pc = "bye"]
    /\ UNCHANGED <<life, state, regs, connWriteMu, chan, proc, stored, hist, used>>

\* One more message arrives.
Read(c, label) ==
    /\ hand[c].pc = "read" /\ ~broken[c] /\ used[c] < Budget[c] /\ label \in Sends[c]
    /\ used' = [used EXCEPT ![c] = @ + 1]

\* setListener: the connection's entry, or a new one that is not authenticated.
NewMap(c) == IF proc.found[c].map = 1 \/ (proc.c = c /\ proc.map = 1) THEN 2 ELSE 1
Entry(c)  == IF listeners[c] = None THEN [auth |-> FALSE, map |-> NewMap(c)] ELSE listeners[c]
SetListener(c, id, f) ==
    /\ listeners' = [listeners EXCEPT ![c] = Entry(c)]
    /\ maps' = [maps EXCEPT ![c] = Entry(c).map]
    /\ subs' = [subs EXCEPT ![c] =
                   [IF listeners[c] = None THEN NoSubs ELSE @ EXCEPT ![id] = f]]

\* handleReqMessage registers, takes over the login, and queries the store.
Req(c, id, f) ==
    /\ Read(c, "REQ") /\ SetListener(c, id, f)
    /\ hand' = [hand EXCEPT ![c] = [AtRest EXCEPT !.pc = "sync", !.id = id]]
    /\ want' = [want EXCEPT ![c][id] = IF authed[c] THEN f ELSE NoFilter]
    /\ sent' = [sent EXCEPT ![c][id] = {}]
    /\ UNCHANGED <<life, state, connWriteMu, chan, proc, stored, dropped>>
\* A mistake NoGap excludes: a login the listener missed is never taken over.
SyncMut(c) ==
    /\ hand[c].pc = "sync"
    /\ hand' = [hand EXCEPT ![c].pc = "query"]
    /\ UNCHANGED <<life, state, regs, connWriteMu, chan, proc, stored, hist, used>>
Sync(c) ==
    /\ hand[c].pc = "sync"
    /\ hand' = [hand EXCEPT ![c].pc = "query"]
    /\ listeners' = [listeners EXCEPT ![c].auth = @ \/ authed[c]]
    /\ UNCHANGED <<life, state, subs, maps, connWriteMu, chan, proc, stored, hist, used>>
Query(c) ==
    /\ hand[c].pc = "query"
    /\ hand' = [hand EXCEPT ![c].pc = "lock", ![c].then = "loop",
                            ![c].ans = stored \cap subs[c][hand[c].id]]
    /\ UNCHANGED <<life, state, regs, connWriteMu, chan, proc, stored, hist, used>>

\* handleCountMessage registers a listener, too; it never takes over the login.
Count(c, id, f) ==
    /\ Read(c, "COUNT") /\ SetListener(c, id, f) /\ Answer(c, "loop")
    /\ want' = [want EXCEPT ![c][id] = NoFilter]
    /\ UNCHANGED <<life, state, connWriteMu, chan, proc, stored, sent, dropped>>

\* removeListenerId: the last subscription takes the entry and the mutex with it.
Close(c, id) ==
    /\ Read(c, "CLOSE") /\ Answer(c, "loop")
    /\ LET left == [subs[c] EXCEPT ![id] = NoFilter]
       IN  IF listeners[c] = None THEN UNCHANGED <<subs, listeners, connWriteMu>>
           ELSE /\ subs' = [subs EXCEPT ![c] = left]
                /\ IF left = NoSubs
                   THEN /\ listeners' = [listeners EXCEPT ![c] = None]
                        /\ connWriteMu' = [connWriteMu EXCEPT ![c] = 0]
                   ELSE UNCHANGED <<listeners, connWriteMu>>
    /\ want' = [want EXCEPT ![c][id] = NoFilter]
    /\ sent' = [sent EXCEPT ![c][id] = {}]
    /\ UNCHANGED <<life, state, maps, chan, proc, stored, dropped>>

\* AUTH: an attempt that is refused, one that succeeds, and the notices for a
\* connection that is logged in or has tried too often (a minute resets it).
Auth(c) ==
    /\ Read(c, "AUTH") /\ ~authed[c]
    /\ attempts' = [attempts EXCEPT ![c] = IF @ < MaxAuthAttempts THEN @ + 1 ELSE 1]
    /\ Answer(c, "loop") \/ Answer(c, "auth")
    /\ UNCHANGED <<life, conn, broken, authed, blocked, ticker, regs, connWriteMu, chan, proc, stored, hist>>
AuthNotice(c) ==
    /\ Read(c, "AUTH") /\ (authed[c] \/ attempts[c] >= MaxAuthAttempts)
    /\ Unguarded(c, "loop")
    /\ UNCHANGED <<life, state, regs, connWriteMu, chan, proc, stored, hist>>
\* After the OK is written: the connection's state, and AuthenticateConnection.
Authenticated(c) ==
    /\ hand[c].pc = "auth"
    /\ hand' = [hand EXCEPT ![c] = AtRest]
    /\ authed' = [authed EXCEPT ![c] = TRUE]
    /\ listeners' = [listeners EXCEPT ![c] = IF @ = None THEN @ ELSE [@ EXCEPT !.auth = TRUE]]
    /\ UNCHANGED <<life, conn, broken, attempts, blocked, ticker, subs, maps, connWriteMu, chan, proc,
                   stored, hist, used>>

\* An event that is refused before its handler runs is only answered.
Refuse(c) ==
    /\ Read(c, "EVENT") /\ Answer(c, "loop")
    /\ UNCHANGED <<life, state, regs, connWriteMu, chan, proc, stored, hist>>
\* handleEventWithHandler: the handler stores the event or not, and answers;
\* then the subscribers are notified, whatever the handler did.
Kept(e, ok) == IF ok THEN stored \cup {e} ELSE stored
Publish(c, e, ok) ==
    /\ Read(c, "EVENT")
    /\ stored' = Kept(e, ok)
    /\ hand' = [hand EXCEPT ![c] = [AtRest EXCEPT !.pc = "lock", !.then = "notify", !.ev = e]]
    /\ UNCHANGED <<life, state, regs, connWriteMu, chan, proc, hist>>
Room == Len(chan) < QueueSize
NotifyListeners(c) ==
    /\ hand[c].pc = "notify"
    /\ hand' = [hand EXCEPT ![c] = AtRest]
    /\ IF Room
       THEN chan' = Append(chan, hand[c].ev) /\ UNCHANGED dropped
       ELSE dropped' = dropped \cup {hand[c].ev} /\ UNCHANGED chan
    /\ UNCHANGED <<life, state, regs, connWriteMu, proc, stored, want, sent, used>>

\* terminateIfBlocked looks at most once a minute, so it may pass a message on.
Terminate(c) ==
    /\ \E label \in {"REQ", "COUNT", "CLOSE", "EVENT"} : Read(c, label)
    /\ authed[c] /\ blocked[c]
    /\ Unguarded(c, "bye")
    /\ UNCHANGED <<life, state, regs, connWriteMu, chan, proc, stored, hist>>

\* sendWebSocketMessage.
Lock(c) ==
    /\ hand[c].pc = "lock"
    /\ ~ProcHolds(c, MutexOf(c))
    /\ GetMutex(c)
    /\ hand' = [hand EXCEPT ![c].pc = "write", ![c].mu = MutexOf(c)]
    /\ UNCHANGED <<life, state, regs, chan, proc, stored, hist, used>>
\* A mistake Delivered excludes: the mutex is not unlocked after the write.
ReleasedMut(h) == IF h.then = "loop" THEN [AtRest EXCEPT !.mu = h.mu] ELSE [h EXCEPT !.pc = h.then]
Released(h) == IF h.then = "loop" THEN AtRest ELSE [h EXCEPT !.pc = h.then, !.mu = 0]
Written(c) ==
    /\ hand[c].pc = "write"
    /\ hand' = [hand EXCEPT ![c] = Released(@)]
    /\ sent' = IF hand[c].id = NoId \/ broken[c] THEN sent
               ELSE [sent EXCEPT ![c][hand[c].id] = @ \cup hand[c].ans]
    /\ UNCHANGED <<life, state, regs, connWriteMu, chan, proc, stored, want, dropped, used>>

\* The deferred calls: the ticker is told, removeListener.
End(c) ==
    /\ hand[c].pc = "bye"
    /\ conn' = [conn EXCEPT ![c] = "ended"]
    /\ broken' = [broken EXCEPT ![c] = TRUE]
    /\ ticker' = [ticker EXCEPT ![c] = IF @ = "run" THEN "off" ELSE @]
    /\ hand' = [hand EXCEPT ![c] = AtRest]
    /\ listeners' = [listeners EXCEPT ![c] = None]
    /\ connWriteMu' = [connWriteMu EXCEPT ![c] = 0]
    /\ want' = [want EXCEPT ![c] = NoSubs]
    /\ UNCHANGED <<life, authed, attempts, blocked, subs, maps, chan, proc, stored, sent,
                   dropped, used>>

-----------------------------------------------------------------------------
(* The ticker goroutine of a connection *)

TickBlocked(c) ==
    /\ ticker[c] = "run" /\ ~shutdown /\ authed[c] /\ blocked[c]
    /\ ticker' = [ticker EXCEPT ![c] = "write"]
    /\ UNCHANGED <<life, conn, broken, authed, attempts, blocked, hand, regs, connWriteMu, chan, proc,
                   stored, hist, used>>
\* A mistake BlockedGoes excludes: the ticker does not close the socket.
TickClosesMut(c) ==
    /\ ticker[c] = "write"
    /\ ticker' = [ticker EXCEPT ![c] = "off"]
    /\ UNCHANGED <<life, conn, broken, authed, attempts, blocked, hand, regs, connWriteMu, chan,
                   proc, stored, hist, used>>
TickCloses(c) ==
    /\ ticker[c] = "write"
    /\ ticker' = [ticker EXCEPT ![c] = "off"]
    /\ broken' = [broken EXCEPT ![c] = TRUE]
    /\ UNCHANGED <<life, conn, authed, attempts, blocked, hand, regs, connWriteMu, chan, proc, stored,
                   hist, used>>
TickStops(c) ==
    /\ ticker[c] = "run" /\ shutdown
    /\ ticker' = [ticker EXCEPT ![c] = "off"]
    /\ UNCHANGED <<life, conn, broken, authed, attempts, blocked, hand, regs, connWriteMu, chan, proc,
                   stored, hist, used>>

-----------------------------------------------------------------------------
(* The notification processor *)

Keep == <<life, state, hand, regs, stored, want, dropped, used>>

Take ==
    /\ proc.pc = "wait" /\ chan # <<>>
    /\ chan' = Tail(chan)
    /\ proc' = [proc EXCEPT !.pc = "conns", !.ev = Head(chan), !.conns = Conns]
    /\ UNCHANGED <<Keep, connWriteMu, sent>>
\* A mistake ProcessorExits excludes: the signal is seen only with an event at hand.
SeeShutdownMut ==
    /\ proc.pc = "wait" /\ shutdown /\ ~proc.drain /\ chan # <<>>
    /\ proc' = [proc EXCEPT !.drain = TRUE]
    /\ UNCHANGED <<Keep, connWriteMu, chan, sent>>
\* After the shutdown signal it empties the channel and exits.
SeeShutdown ==
    /\ proc.pc = "wait" /\ shutdown /\ ~proc.drain
    /\ proc' = [proc EXCEPT !.drain = TRUE]
    /\ UNCHANGED <<Keep, connWriteMu, chan, sent>>
Exit ==
    /\ proc.pc = "wait" /\ proc.drain /\ chan = <<>>
    /\ proc' = [proc EXCEPT !.pc = "exited"]
    /\ UNCHANGED <<Keep, connWriteMu, chan, sent>>

\* Range over listeners copies entries before it visits them, those of a bucket
\* or, when the map is being resized, all that are left.  The callback skips the
\* connections that are not authenticated.
Admits(c) == listeners[c] # None /\ listeners[c].auth
CopyConns ==
    /\ proc.ev # NoEvent
    /\ \E B \in (SUBSET proc.conns) \ {{}} :
          proc' = [proc EXCEPT !.conns = @ \ B,
                               !.found = [c \in Conns |-> IF c \in B /\ Admits(c)
                                                          THEN listeners[c] ELSE @[c]]]
    /\ UNCHANGED <<Keep, connWriteMu, chan, sent>>
Visit ==
    /\ proc.pc = "conns"
    /\ \E c \in Conns :
          /\ proc.found[c] # None
          /\ proc' = [proc EXCEPT !.pc = "subs", !.found[c] = None, !.c = c,
                                  !.map = proc.found[c].map, !.ids = SubIds]
    /\ UNCHANGED <<Keep, connWriteMu, chan, sent>>
AllVisited ==
    /\ proc.pc = "conns" /\ proc.conns = {} /\ proc.found = NoEntries
    /\ proc' = [proc EXCEPT !.pc = "wait", !.ev = NoEvent]
    /\ UNCHANGED <<Keep, connWriteMu, chan, sent>>

\* Range over the subscriptions of the map that was found there.
Matches(c, id) == proc.map = maps[c] /\ subs[c][id] # NoFilter /\ proc.ev \in subs[c][id]
CopySubs ==
    /\ proc.c # NoConn
    /\ \E B \in (SUBSET proc.ids) \ {{}} :
          proc' = [proc EXCEPT !.ids = @ \ B, !.match = @ \cup {id \in B : Matches(proc.c, id)}]
    /\ UNCHANGED <<Keep, connWriteMu, chan, sent>>
VisitSub ==
    /\ proc.pc = "subs"
    /\ \E id \in proc.match :
          proc' = [proc EXCEPT !.pc = "lock", !.match = @ \ {id}, !.id = id,
                               !.mu = MutexOf(proc.c)]
    /\ GetMutex(proc.c)
    /\ UNCHANGED <<Keep, chan, sent>>
ProcLock ==
    /\ proc.pc = "lock"
    /\ ~HandlerHolds(proc.c, proc.mu)
    /\ proc' = [proc EXCEPT !.pc = "write"]
    /\ UNCHANGED <<Keep, connWriteMu, chan, sent>>
\* An error of the write is logged, and the next subscription follows.
ProcWritten ==
    /\ proc.pc = "write"
    /\ proc' = [proc EXCEPT !.pc = "subs", !.id = NoId, !.mu = 0]
    /\ sent' = IF broken[proc.c] THEN sent
               ELSE [sent EXCEPT ![proc.c][proc.id] = @ \cup {proc.ev}]
    /\ UNCHANGED <<Keep, connWriteMu, chan>>
SubsVisited ==
    /\ proc.pc = "subs" /\ proc.ids = {} /\ proc.match = {}
    /\ proc' = [proc EXCEPT !.pc = "conns", !.c = NoConn, !.map = 0]
    /\ UNCHANGED <<Keep, connWriteMu, chan, sent>>

-----------------------------------------------------------------------------
(* The environment *)

Disconnect(c) ==
    /\ c \in MayLeave /\ conn[c] = "open" /\ ~broken[c]
    /\ broken' = [broken EXCEPT ![c] = TRUE]
    /\ UNCHANGED <<life, conn, authed, attempts, blocked, ticker, hand, regs, connWriteMu, chan, proc,
                   stored, hist, used>>
Block(c) ==
    /\ c \in MayBeBlocked /\ ~blocked[c]
    /\ blocked' = [blocked EXCEPT ![c] = TRUE]
    /\ UNCHANGED <<life, conn, broken, authed, attempts, ticker, hand, regs, connWriteMu, chan, proc,
                   stored, hist, used>>
SignalShutdown ==
    /\ ~shutdown /\ shutdown' = TRUE
    /\ UNCHANGED <<alive, state, hand, regs, connWriteMu, chan, proc, stored, hist, used>>

\* The WebSocket library may notice two writers and panic: in a handler that
\* ends the connection, in the processor or a ticker the process.
Overlap(c) ==
    \/ HandlerWrites(c) /\ (ProcWrites(c) \/ ticker[c] = "write")
    \/ ProcWrites(c) /\ ticker[c] = "write"
PanicProcess ==
    /\ \E c \in Conns : Overlap(c)
    /\ alive' = FALSE
    /\ UNCHANGED <<shutdown, state, hand, regs, connWriteMu, chan, proc, stored, hist, used>>
PanicHandler(c) ==
    /\ Overlap(c) /\ HandlerWrites(c)
    /\ hand' = [hand EXCEPT ![c] = [AtRest EXCEPT !.pc = "bye"]]
    /\ broken' = [broken EXCEPT ![c] = TRUE]
    /\ dropped' = dropped \cup ({hand[c].ev} \ {NoEvent})
    /\ UNCHANGED <<life, conn, authed, attempts, blocked, ticker, regs, connWriteMu, chan, proc, stored,
                   want, sent, used>>

-----------------------------------------------------------------------------

Message(c) ==
    \/ \E id \in SubIds, f \in Filters : Req(c, id, f) \/ Count(c, id, f)
    \/ \E id \in SubIds : Close(c, id)
    \/ \E e \in Events, ok \in BOOLEAN : Publish(c, e, ok)
    \/ Auth(c) \/ AuthNotice(c) \/ Refuse(c) \/ Terminate(c)

Handle(c) ==
    \/ ToRead(c) \/ StopReading(c) \/ ReadFails(c) \/ Sync(c) \/ Query(c) \/ Authenticated(c)
    \/ NotifyListeners(c) \/ Lock(c) \/ Written(c) \/ End(c)

Tick(c) == TickBlocked(c) \/ TickCloses(c) \/ TickStops(c)

Process ==
    \/ Take \/ SeeShutdown \/ Exit \/ CopyConns \/ Visit \/ AllVisited
    \/ CopySubs \/ VisitSub \/ ProcLock \/ ProcWritten \/ SubsVisited

Environment ==
    \/ \E c \in Conns : Connect(c) \/ Disconnect(c) \/ Block(c) \/ PanicHandler(c)
    \/ SignalShutdown \/ PanicProcess

Next ==
    /\ alive
    /\ \/ \E c \in Conns : Message(c) \/ Handle(c) \/ Tick(c)
       \/ Process \/ Environment

Spec == Init /\ [][Next]_vars

\* Every goroutine goes on while it can; a write ends, for the client reads.
FairSpec ==
    /\ Spec
    /\ \A c \in Conns : WF_vars(alive /\ Handle(c)) /\ WF_vars(alive /\ Tick(c))
    /\ WF_vars(alive /\ Process)

-----------------------------------------------------------------------------
(* Properties *)

Pcs == {"loop", "read", "sync", "query", "auth", "notify", "lock", "write", "bye"}
HandType == [pc : Pcs, then : Pcs, id : SubIds \cup {NoId}, ev : Events \cup {NoEvent},
             ans : SUBSET Events, mu : {0, 1, 2}]
Entries  == [auth : BOOLEAN, map : {0, 1, 2}]
ProcType == [pc : {"wait", "conns", "subs", "lock", "write", "exited"}, drain : BOOLEAN,
             ev : Events \cup {NoEvent}, conns : SUBSET Conns, found : [Conns -> Entries],
             c : Conns \cup {NoConn}, map : {0, 1, 2}, ids : SUBSET SubIds,
             match : SUBSET SubIds, id : SubIds \cup {NoId}, mu : {0, 1, 2}]
Wishes   == [SubIds -> Filters \cup {NoFilter}]

\* The state's type: listeners, write mutexes and the goroutines of server.go
\* and listeners.go; the channel never holds more than it was made for.
TypeOK ==
    /\ alive \in BOOLEAN /\ shutdown \in BOOLEAN
    /\ conn \in [Conns -> {"new", "open", "ended"}] /\ broken \in [Conns -> BOOLEAN]
    /\ authed \in [Conns -> BOOLEAN] /\ attempts \in [Conns -> 0..MaxAuthAttempts]
    /\ blocked \in [Conns -> BOOLEAN] /\ ticker \in [Conns -> {"off", "run", "write"}]
    /\ hand \in [Conns -> HandType]
    /\ listeners \in [Conns -> Entries]
    /\ subs \in [Conns -> Wishes] /\ maps \in [Conns -> {0, 1, 2}]
    /\ connWriteMu \in [Conns -> {0, 1, 2}]
    /\ chan \in Seq(Events) /\ Len(chan) <= QueueSize
    /\ proc \in ProcType /\ stored \subseteq Events
    /\ want \in [Conns -> Wishes] /\ sent \in [Conns -> [SubIds -> SUBSET Events]]
    /\ dropped \subseteq Events /\ used \in [Conns -> Nat]

\* Where an accepted event can be before a subscription has it: in a handler
\* that has not queued it, in the channel, or in the processor's hands with
\* the connection, the copy of its entry or the subscription still to come.
Queued(e) == (\E c \in Conns : hand[c].ev = e) \/ (\E i \in 1..Len(chan) : chan[i] = e)
Underway(c, id, e) ==
    /\ proc.ev = e
    /\ \/ c \in proc.conns
       \/ proc.found[c] # None /\ proc.found[c].map = maps[c]
       \/ /\ proc.c = c
          /\ \/ proc.map = maps[c] /\ id \in proc.ids
             \/ id \in proc.match \/ proc.id = id
Answering(c, id, e) ==
    /\ hand[c].id = id
    /\ hand[c].pc \in {"sync", "query"} \/ e \in hand[c].ans
Wanted(c, id, e) == want[c][id] # NoFilter /\ e \in want[c][id]
Owed(c, id, e) == Wanted(c, id, e) /\ e \in stored /\ ~broken[c] /\ e \notin sent[c][id] \cup dropped

\* No gap between the answer of a REQ and its notifications: an event in the
\* store that an open subscription of a logged-in client asks for was sent to
\* it or will be, however REQ, CLOSE, COUNT and login interleave with the
\* processor (request.go:26-37, event.go:92-98, listeners.go:113-170).
NoGap ==
    \A c \in Conns, id \in SubIds, e \in Events :
        Owed(c, id, e) => Queued(e) \/ Underway(c, id, e) \/ Answering(c, id, e)

\* What is owed is sent, unless the server stops: neither the processor nor a
\* handler waits for ever on the other's mutex (listeners.go:45-95).
Delivered ==
    \A c \in Conns, id \in SubIds, e \in Events :
        Owed(c, id, e) ~> ~Owed(c, id, e) \/ shutdown \/ ~alive

\* A logged-in user who is blocked loses the connection, even if the client
\* sends nothing more (server.go:184-221).
BlockedGoes ==
    \A c \in Conns : conn[c] = "open" /\ authed[c] /\ blocked[c]
                         ~> conn[c] = "ended" \/ shutdown \/ ~alive

\* After the shutdown signal the processor empties the channel and ends
\* (listeners.go:54-63).
ProcessorExits == shutdown ~> proc.pc = "exited" \/ ~alive

\* listeners.go:21: "Per-connection write mutexes to prevent concurrent
\* websocket writes between the notification processor goroutine and
\* connection handler goroutines."
\* Two writers that hold a mutex of one connection are meant.
WriteExclusive == \A c \in Conns : ~(HandlerWrites(c) /\ hand[c].mu # 0 /\ ProcWrites(c))

\* event.go:92: "Store the event first, then notify. This ensures subscribers
\* who re-query after receiving the notification will always find the event."
NotifiedIsStored == \A c \in Conns, id \in SubIds : sent[c][id] \subseteq stored
=============================================================================
