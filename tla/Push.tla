-------------------------------- MODULE Push --------------------------------
(***************************************************************************)
(* Push notifications.  The goroutine of a connection hands every event it *)
(* has handled to the push service, which finds the devices of the people  *)
(* it concerns and puts one task per device into a bounded queue.  Workers *)
(* take tasks out and send them; a task that fails comes back after a      *)
(* delay, from a goroutine of its own.  An administrator who changes the   *)
(* settings has the service stopped and another one put in its place.      *)
(*                                                                         *)
(* An event is known by its id, its kind, author, the people its p tags    *)
(* name and the event its e tag names.  A connection handles the sequence  *)
(* Script[c]; a gift wrap is there twice in a row, for its handler calls   *)
(* the service itself.  The text of a notification is left out, and with   *)
(* it the cache of author names.                                           *)
(***************************************************************************)
EXTENDS Integers, Sequences, FiniteSets, FiniteSetsExt

CONSTANTS
    Users, NoUser,
    Events, KindOf, AuthorOf, Mentions, RefOf,  \* RefOf[e]: an event, or NoEvent
    NoEvent,
    Devices, OwnerOf, TokenOf,                  \* one account on one phone
    Conns, Script,
    Requests,           \* calls of the device handlers: [kind, dev]
    Workers,            \* workers of one service
    QueueSize, RetryAttempts,
    MaxIDs,             \* ids kept before the service forgets them, 10000 in the code
    MaxServices,        \* bound: services made, the first and the reloads
    NoTask

ASSUME PushAssumption ==
    /\ NoUser \notin Users /\ NoEvent \notin Events
    /\ AuthorOf \in [Events -> Users] /\ Mentions \in [Events -> SUBSET Users]
    /\ RefOf \in [Events -> Events \cup {NoEvent}]
    /\ OwnerOf \in [Devices -> Users] /\ DOMAIN TokenOf = Devices
    /\ Script \in [Conns -> Seq(Events)]
    /\ Requests \subseteq [kind : {"register", "unregister"}, dev : Devices]
    /\ QueueSize \in Nat /\ RetryAttempts \in Nat /\ MaxIDs \in Nat /\ MaxServices \in Nat \ {0}

VARIABLES
    alive,      \* the process runs
    global,     \* globalPushService, 0 for nil
    admin,      \* who holds serviceMutex to stop or replace the service
    svc,        \* the services made so far and still referred to
    worker,     \* the workers of each service
    retries,    \* goroutines that will put a task back into its service's queue
    call,       \* the call of ProcessEvent a connection is in
    stored,     \* events in the store
    rows,       \* the device table
    nextRow,    \* its next primary key
    req,        \* the calls of the device handlers
    log,        \* the notification log
    sends       \* history: notifications handed to Apple or Google

table == <<rows, nextRow, req>>
vars  == <<alive, global, admin, svc, worker, retries, call, stored, table, log, sends>>

Services == 1..MaxServices
Unmade   == [running |-> FALSE, cancelled |-> FALSE, closed |-> FALSE,
             queue |-> <<>>, processed |-> {}]
AtRest   == [pc |-> "idle", task |-> NoTask, ok |-> FALSE]
NoCall   == [pc |-> "idle", svc |-> 0, pos |-> 1, left |-> {}, todo |-> {}]

Init ==
    /\ alive = TRUE /\ global = 1 /\ admin = "idle"
    /\ svc = [s \in Services |-> [Unmade EXCEPT !.running = (s = 1)]]
    /\ worker = [s \in Services |-> [w \in Workers |-> AtRest]]
    /\ retries = {} /\ call = [c \in Conns |-> NoCall]
    /\ stored \in SUBSET {e \in Events : \E x \in Events : RefOf[x] = e}
    /\ rows = [d \in Devices |-> {[id |-> 0, on |-> TRUE]}] /\ nextRow = 1
    /\ req = [r \in Requests |-> [pc |-> "new", id |-> 0]]
    /\ log = {} /\ sends = {}

-----------------------------------------------------------------------------
(* Whom an event concerns *)

\* shouldNotify: a reaction "-" is kind "unlike" here.
ShouldNotify(e) == KindOf[e] \in {"note", "audio", "audiorepost", "repost", "like", "wrap"}

\* getAuthorOfRefEvent: nobody, when the event is not stored.
RefAuthor(e) == {AuthorOf[r] : r \in {RefOf[e]} \cap stored}

\* getNotificationRecipients
Recipients(e) ==
    CASE KindOf[e] \in {"note", "audio", "repost", "audiorepost"} -> Mentions[e] \cup RefAuthor(e)
      [] KindOf[e] = "like" -> RefAuthor(e)
      [] KindOf[e] = "wrap" -> Mentions[e]
      [] OTHER -> {}

\* GetPushDevicesByPubkey
ActiveRows(u) == UNION {{[dev |-> d, row |-> r.id] : r \in {x \in rows[d] : x.on}} :
                           d \in {x \in Devices : OwnerOf[x] = u}}

-----------------------------------------------------------------------------
(* ProcessEvent, called by the goroutine of a connection *)

EventAt(c) == Script[c][call[c].pos]
EndCall(c) == call' = [call EXCEPT ![c] = [NoCall EXCEPT !.pos = call[c].pos + 1]]
\* The connection's goroutine recovers from a panic and ends the connection.
LoseConn(c) == call' = [call EXCEPT ![c] = [NoCall EXCEPT !.pos = Len(Script[c]) + 1]]

\* GetGlobalPushService waits for whoever stops or replaces the service.
GetService(c) ==
    /\ alive /\ call[c].pc = "idle" /\ call[c].pos <= Len(Script[c]) /\ admin = "idle"
    /\ IF global = 0 THEN EndCall(c)
       ELSE call' = [call EXCEPT ![c].pc = "check", ![c].svc = global]
    /\ UNCHANGED <<alive, global, admin, svc, worker, retries, stored, table, log, sends>>

KnownMut(s, e) == FALSE
Known(s, e)    == e \in svc[s].processed

\* isRunning and processedIDs are read under no lock that Mark also holds.
Check(c) ==
    /\ alive /\ call[c].pc = "check"
    /\ LET s == call[c].svc IN
       IF ~svc[s].running \/ Known(s, EventAt(c)) THEN EndCall(c)
       ELSE call' = [call EXCEPT ![c].pc = "mark"]
    /\ UNCHANGED <<alive, global, admin, svc, worker, retries, stored, table, log, sends>>

\* Past MaxIDs ids only the newest is kept.
Remember(ids, e) == IF Cardinality(ids \cup {e}) > MaxIDs THEN {e} ELSE ids \cup {e}

Mark(c) ==
    LET e == EventAt(c) IN
    /\ alive /\ call[c].pc = "mark"
    /\ svc' = [svc EXCEPT ![call[c].svc].processed = Remember(@, e)]
    /\ IF ShouldNotify(e)
       THEN call' = [call EXCEPT ![c].pc = "users", ![c].left = Recipients(e) \ {AuthorOf[e]}]
       ELSE EndCall(c)
    /\ UNCHANGED <<alive, global, admin, worker, retries, stored, table, log, sends>>

NextUser(c) ==
    /\ alive /\ call[c].pc = "users"
    /\ \/ call[c].left = {} /\ EndCall(c)
       \/ \E u \in call[c].left :
             call' = [call EXCEPT ![c].left = @ \ {u}, ![c].todo = ActiveRows(u),
                                  ![c].pc = IF ActiveRows(u) = {} THEN "users" ELSE "send"]
    /\ UNCHANGED <<alive, global, admin, svc, worker, retries, stored, table, log, sends>>

\* A send case of a select is ready when there is room, and when the queue is
\* closed: choosing it then panics.  With no case ready the default is taken.
Room(s)  == ~svc[s].closed /\ Len(svc[s].queue) < QueueSize
Full(s)  == ~svc[s].cancelled /\ ~svc[s].closed /\ ~Room(s)
Put(s, t) == svc' = [svc EXCEPT ![s].queue = Append(@, t)]

NewTask(c, d) == [by |-> c, pos |-> call[c].pos, ev |-> EventAt(c), dev |-> d.dev, row |-> d.row,
                  att |-> 0, svc |-> call[c].svc]
Queued(c, d)  == call' = [call EXCEPT ![c].todo = @ \ {d},
                                     ![c].pc = IF call[c].todo = {d} THEN "users" ELSE "send"]

Enqueue(c) ==
    LET s == call[c].svc IN
    /\ alive /\ call[c].pc = "send"
    /\ \E d \in call[c].todo :
          \/ Room(s) /\ Put(s, NewTask(c, d)) /\ Queued(c, d)
          \/ svc[s].cancelled /\ EndCall(c) /\ UNCHANGED svc
          \/ svc[s].closed /\ LoseConn(c) /\ UNCHANGED svc
          \/ Full(s) /\ Queued(c, d) /\ UNCHANGED svc
    /\ UNCHANGED <<alive, global, admin, worker, retries, stored, table, log, sends>>

-----------------------------------------------------------------------------
(* The workers *)

\* The attempt is counted and logged, then Apple or Google accepts it, or not,
\* or cannot be reached.
Send(s, w) ==
    /\ alive /\ worker[s][w].pc = "idle" /\ svc[s].queue # <<>>
    /\ LET t == [Head(svc[s].queue) EXCEPT !.att = @ + 1] IN
       \E ok \in BOOLEAN :
          /\ worker' = [worker EXCEPT ![s][w] = [pc |-> "record", task |-> t, ok |-> ok]]
          /\ log' = log \cup {[task |-> t, delivered |-> FALSE]}
          /\ sends' = sends \cup {[task |-> t, ok |-> ok]}
    /\ svc' = [svc EXCEPT ![s].queue = Tail(@)]
    /\ UNCHANGED <<alive, global, admin, retries, call, stored, table>>

\* UpdatePushDeviceStatus names the phone, not the account.
SwitchOff(tok) == [d \in Devices |-> IF TokenOf[d] = tok THEN {[r EXCEPT !.on = FALSE] : r \in rows[d]}
                                     ELSE rows[d]]

AgainEarlyMut(t) == t.att + 1 < RetryAttempts
Again(t) == t.att < RetryAttempts

Record(s, w) ==
    LET t == worker[s][w].task IN
    /\ alive /\ worker[s][w].pc = "record"
    /\ worker' = [worker EXCEPT ![s][w] = AtRest]
    /\ IF worker[s][w].ok
       THEN /\ log' = {IF l.task = t THEN [l EXCEPT !.delivered = TRUE] ELSE l : l \in log}
            /\ UNCHANGED <<retries, rows>>
       ELSE /\ UNCHANGED log
            /\ IF Again(t) THEN retries' = retries \cup {t} /\ UNCHANGED rows
               ELSE rows' = SwitchOff(TokenOf[t.dev]) /\ UNCHANGED retries
    /\ UNCHANGED <<alive, global, admin, svc, call, stored, nextRow, req, sends>>

\* The range over the queue ends when it is closed and empty.
EndedEarlyMut(s) == svc[s].cancelled
Ended(s) == svc[s].closed /\ svc[s].queue = <<>>

Exit(s, w) ==
    /\ alive /\ worker[s][w].pc = "idle" /\ Ended(s)
    /\ worker' = [worker EXCEPT ![s][w].pc = "exit"]
    /\ UNCHANGED <<alive, global, admin, svc, retries, call, stored, table, log, sends>>

\* The delay is over.  A panic in this goroutine ends the process.
Retry(t) ==
    /\ alive /\ t \in retries /\ retries' = retries \ {t}
    /\ \/ Room(t.svc) /\ Put(t.svc, t) /\ UNCHANGED alive
       \/ (svc[t.svc].cancelled \/ Full(t.svc)) /\ UNCHANGED <<svc, alive>>
       \/ svc[t.svc].closed /\ alive' = FALSE /\ UNCHANGED svc
    /\ UNCHANGED <<global, admin, worker, call, stored, table, log, sends>>

-----------------------------------------------------------------------------
(* Stop and reload, under serviceMutex: a stop leaves no service, a reload *)
(* the next one, or none when the settings say so or are wrong.           *)

BeginStop ==
    /\ alive /\ admin = "idle" /\ global # 0
    /\ admin' = "cancel"
    /\ svc' = [svc EXCEPT ![global].cancelled = TRUE]
    /\ UNCHANGED <<alive, global, worker, retries, call, stored, table, log, sends>>

CloseQueue ==
    /\ alive /\ admin = "cancel"
    /\ admin' = "wait" /\ svc' = [svc EXCEPT ![global].closed = TRUE]
    /\ UNCHANGED <<alive, global, worker, retries, call, stored, table, log, sends>>

\* NewPushService and Start.
Unused       == {s \in Services : svc[s] = Unmade}
Replace      == global' \in {0} \cup (IF Unused = {} THEN {} ELSE {Min(Unused)})
Made(ss, s)  == IF s = 0 THEN ss ELSE [ss EXCEPT ![s].running = TRUE]

StoppedEarlyMut == TRUE
Stopped == \A w \in Workers : worker[global][w].pc = "exit"
Finish ==
    /\ alive /\ admin = "wait" /\ Stopped
    /\ admin' = "idle"
    /\ Replace
    /\ svc' = Made([svc EXCEPT ![global].running = FALSE], global')
    /\ UNCHANGED <<alive, worker, retries, call, stored, table, log, sends>>

\* A reload when there is no service.
Renew ==
    /\ alive /\ admin = "idle" /\ global = 0 /\ Replace
    /\ svc' = Made(svc, global')
    /\ UNCHANGED <<alive, admin, worker, retries, call, stored, table, log, sends>>

-----------------------------------------------------------------------------
(* The device handlers *)

\* RegisterPushDevice looks for the row ...
FindRow(r) ==
    /\ alive /\ r.kind = "register" /\ req[r].pc = "new"
    /\ req' = [req EXCEPT ![r] = IF rows[r.dev] = {} THEN [pc |-> "create", id |-> 0]
                                 ELSE [pc |-> "save", id |-> Min({x.id : x \in rows[r.dev]})]]
    /\ UNCHANGED <<alive, global, admin, svc, worker, retries, call, stored, rows, nextRow, log, sends>>

\* ... and saves it, which inserts it again if it has gone, or creates one.
SaveRow(r) ==
    LET id == IF req[r].pc = "create" THEN nextRow ELSE req[r].id IN
    /\ alive /\ req[r].pc \in {"create", "save"}
    /\ rows' = [rows EXCEPT ![r.dev] = {x \in @ : x.id # id} \cup {[id |-> id, on |-> TRUE]}]
    /\ nextRow' = IF req[r].pc = "create" THEN nextRow + 1 ELSE nextRow
    /\ req' = [req EXCEPT ![r].pc = "done"]
    /\ UNCHANGED <<alive, global, admin, svc, worker, retries, call, stored, log, sends>>

Unregister(r) ==
    /\ alive /\ r.kind = "unregister" /\ req[r].pc = "new"
    /\ rows' = [rows EXCEPT ![r.dev] = {}]
    /\ req' = [req EXCEPT ![r].pc = "done"]
    /\ UNCHANGED <<alive, global, admin, svc, worker, retries, call, stored, nextRow, log, sends>>

-----------------------------------------------------------------------------
CallStep(c) == GetService(c) \/ Check(c) \/ Mark(c) \/ NextUser(c) \/ Enqueue(c)
WorkStep(s, w) == Send(s, w) \/ Record(s, w) \/ Exit(s, w)
RetryStep == \E t \in retries : Retry(t)
AdminStep == CloseQueue \/ Finish

Next ==
    \/ \E c \in Conns : CallStep(c)
    \/ \E s \in Services, w \in Workers : WorkStep(s, w)
    \/ RetryStep
    \/ BeginStop \/ AdminStep \/ Renew
    \/ \E r \in Requests : FindRow(r) \/ SaveRow(r) \/ Unregister(r)

Spec == Init /\ [][Next]_vars

\* Every goroutine goes on; the clients of Apple and Google have timeouts, a
\* delay ends.
FairSpec ==
    /\ Spec /\ WF_vars(AdminStep) /\ WF_vars(RetryStep)
    /\ \A s \in Services, w \in Workers : WF_vars(WorkStep(s, w))

-----------------------------------------------------------------------------
Tasks == [by : Conns, pos : Nat, ev : Events, dev : Devices, row : Nat, att : Nat, svc : Services]

TypeOK ==
    /\ alive \in BOOLEAN /\ global \in 0..MaxServices
    /\ admin \in {"idle", "cancel", "wait"}
    /\ svc \in [Services -> [running : BOOLEAN, cancelled : BOOLEAN, closed : BOOLEAN,
                             queue : Seq(Tasks), processed : SUBSET Events]]
    /\ worker \in [Services -> [Workers -> [pc : {"idle", "record", "exit"},
                                            task : Tasks \cup {NoTask}, ok : BOOLEAN]]]
    /\ retries \subseteq Tasks
    /\ call \in [Conns -> [pc : {"idle", "check", "mark", "users", "send"}, svc : 0..MaxServices,
                           pos : Nat, left : SUBSET Users, todo : SUBSET [dev : Devices, row : Nat]]]
    /\ stored \subseteq Events /\ \A s \in Services : Len(svc[s].queue) <= QueueSize
    /\ rows \in [Devices -> SUBSET [id : Nat, on : BOOLEAN]] /\ nextRow \in Nat
    /\ req \in [Requests -> [pc : {"new", "create", "save", "done"}, id : Nat]]
    /\ log \subseteq [task : Tasks, delivered : BOOLEAN]
    /\ sends \subseteq [task : Tasks, ok : BOOLEAN]

\* A device gets a notification of one event once from one service, however
\* often its connection hands the event over and however many attempts it takes
\* (the connections handle different events; see NeverTwice).
Once ==
    \A x, y \in sends :
        /\ x.ok /\ y.ok /\ x.task.svc = y.task.svc /\ x.task.ev = y.task.ev
        /\ x.task.dev = y.task.dev /\ x.task.row = y.task.row
        => x = y

\* A device that is switched off has had a notification fail in every one of
\* the configured attempts.
OffAfterAll ==
    \A d \in Devices : \A r \in rows[d] : ~r.on =>
        \E x \in sends :
            /\ TokenOf[x.task.dev] = TokenOf[d] /\ x.task.att >= RetryAttempts
            /\ \A a \in 1..x.task.att : [task |-> [x.task EXCEPT !.att = a], ok |-> FALSE] \in sends

\* When Stop has returned, nothing waits in the queue of that service and none
\* of its workers is in the middle of a task: the database can be closed.
Drained ==
    \A s \in Services : svc[s].closed /\ ~svc[s].running =>
        svc[s].queue = <<>> /\ \A w \in Workers : worker[s][w].pc = "exit"

InFlight(c, d) ==
    \/ \E t \in retries : t.by = c /\ t.dev = d
    \/ \E s \in Services : \E i \in DOMAIN svc[s].queue : svc[s].queue[i].by = c /\ svc[s].queue[i].dev = d
    \/ \E s \in Services, w \in Workers : worker[s][w].pc = "record"
                                         /\ worker[s][w].task.by = c /\ worker[s][w].task.dev = d

\* Every task is sent or given up, and stopping a service ends, however full its
\* queue is.
TasksEnd ==
    /\ \A c \in Conns, d \in Devices : InFlight(c, d) ~> (~InFlight(c, d) \/ ~alive)
    /\ admin # "idle" ~> (admin = "idle" \/ ~alive)

\* processedIDs is there "to prevent duplicates" (service.go:31).
NeverTwice == Once

\* A retry whose service has been stopped gives up (worker.go:128, "Service is
\* shutting down"); the process goes on.
RetryGivesUp == alive
=============================================================================
