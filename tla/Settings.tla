------------------------------- MODULE Settings -------------------------------
(***************************************************************************)
(* The access settings of the relay in the four places that hold them:     *)
(* config.yaml, what viper made of it and the values set over that, the    *)
(* cached configuration, and the settings the access control runs with.    *)
(* The panel changes them with a request for the section or for one key;   *)
(* an operator edits the file; the relay restarts.                         *)
(*                                                                         *)
(* A request gives some of the fields.  Values are in their normal form.   *)
(***************************************************************************)
EXTENDS Naturals

CONSTANTS
    Plans,              \* [file, req, edits]: config.yaml at the start, what comes
    MaxFailures,        \* bound: writes that fail
    MaxRestarts         \* bound

VARIABLES
    file,               \* config.yaml, Empty when it is cut off
    base,               \* viper's reading of it
    over,               \* viper's overrides: a part of the fields
    conf,               \* cachedConfig
    enforced,           \* the settings of AccessControl
    mutex,              \* writeMutex: a request, or None
    timer,              \* debounceTimer is set
    plan,
    job,                \* requests
    edits,              \* edits of the file still to come
    want,               \* history: what the saved requests add up to
    clean,              \* history: requests were whole, one after the other, and saved
    cut,                \* history: viper read a file that was cut off
    failures, restarts

settingsVars == <<file, base, over, conf, enforced, mutex, timer, plan, job, edits, want, clean, cut, failures, restarts>>

Fields   == {"mode", "read", "write"}
None     == 0
Empty    == [f \in {} |-> ""]

\* What viper gives for a field that no source has: it is given no defaults when
\* there is a config.yaml, and there is one at every start but the very first.
Blank    == [f \in Fields |-> ""]

\* Values of some of the fields.
Partial(x) == DOMAIN x \subseteq Fields /\ x = [f \in DOMAIN x |-> x[f]]

\* f, and what it lacks from g: how viper lays its sources over one another.
Over(f, g) == [x \in DOMAIN f \cup DOMAIN g |-> IF x \in DOMAIN f THEN f[x] ELSE g[x]]

ASSUME SettingsAssumption ==
    /\ MaxFailures \in Nat /\ MaxRestarts \in Nat
    /\ \A p \in Plans : /\ Partial(p.file) /\ None \notin DOMAIN p.req
                        /\ \A e \in p.edits : Partial(e)
                        /\ \A j \in DOMAIN p.req : Partial(p.req[j].set)

Requests == DOMAIN plan.req
Set(j)   == plan.req[j].set
Panel(j) == plan.req[j].how = "section"

-----------------------------------------------------------------------------
\* ValidateSettings: what each mode admits, and what it is set to otherwise.
Valid(s) ==
    LET pick(ok, other) == IF s.read \in ok THEN s.read ELSE other
        as(r, w)        == [mode |-> s.mode, read |-> r, write |-> w]
    IN CASE s.mode = "only-me"      -> as(pick({"only-me", "all_users", "allowed_users"}, "only-me"), "only-me")
         [] s.mode = "invite-only"  -> as(pick({"all_users", "allowed_users"}, "allowed_users"), "allowed_users")
         [] s.mode = "public"       -> as("all_users", "all_users")
         [] s.mode = "subscription" -> as(pick({"all_users", "paid_users"}, "paid_users"), "paid_users")
         [] OTHER                   -> [mode |-> "only-me", read |-> "only-me", write |-> "only-me"]

\* The request alone, not what it leaves as it is.
Given(j) == [f \in Fields |-> IF f \in DOMAIN Set(j) THEN Set(j)[f] ELSE ""]

\* viper.Get: an override, the file, or nothing.
ReadMut(o, b) == Over(b, Blank)
Read(o, b)    == Over(o, Over(b, Blank))
Changed(j)    == {f \in DOMAIN Set(j) : Set(j)[f] # Read(over, base)[f]}

SettingsInit ==
    /\ plan \in Plans
    /\ file = plan.file /\ base = plan.file /\ over = Empty
    /\ conf = Over(plan.file, Blank) /\ enforced = conf
    /\ mutex = None /\ timer = FALSE /\ edits = plan.edits
    /\ job = [j \in DOMAIN plan.req |-> [pc |-> "new", diff |-> {}, old |-> Empty]]
    /\ want = conf /\ clean = (enforced = Valid(enforced)) /\ cut = FALSE /\ failures = 0 /\ restarts = 0

Pcs == {"new", "lock", "open", "fill", "apply", "done", "refused", "failed", "lost"}
Goto(j, pc) == job' = [job EXCEPT ![j].pc = pc]
WriteFails == failures < MaxFailures /\ failures' = failures + 1
Busy  == \E j \in Requests : job[j].pc \notin {"new", "done", "refused", "failed", "lost"}

-----------------------------------------------------------------------------
\* A switch to subscriptions needs the wallet; other requests are not looked at.
BeginRequest(j) ==
    /\ job[j].pc = "new"
    /\ \/ Goto(j, "lock")
       \/ /\ Panel(j) /\ "mode" \in DOMAIN Set(j) /\ Set(j)["mode"] = "subscription"
          /\ conf.mode # "subscription" /\ Goto(j, "refused")
    /\ clean' = (clean /\ ~Busy /\ Panel(j) /\ DOMAIN Set(j) = Fields)
    /\ UNCHANGED <<file, base, over, conf, enforced, mutex, timer, plan, edits, want, cut, failures, restarts>>

\* UpdateMultipleSections sets what changed, then writes it.  The section has
\* the time of the request among its fields: there it always writes.
Lock(j) ==
    /\ job[j].pc = "lock" /\ mutex = None
    /\ over' = Over([f \in Changed(j) |-> Set(j)[f]], over)
    /\ IF Changed(j) = {} /\ ~Panel(j)
       THEN Goto(j, "done") /\ want' = Over(Set(j), want) /\ UNCHANGED mutex
       ELSE /\ job' = [job EXCEPT ![j] = [pc |-> "open", diff |-> Changed(j), old |-> Empty]]
            /\ mutex' = j /\ UNCHANGED want
    /\ UNCHANGED <<file, base, conf, enforced, timer, plan, edits, clean, cut, failures, restarts>>

Fails(j) == Goto(j, "failed") /\ mutex' = None /\ WriteFails /\ clean' = FALSE

\* safeWriteKeys reads the file, cuts it off and writes all of it again; an
\* empty file is refused.
Open(j) ==
    /\ job[j].pc = "open"
    /\ \/ /\ file # Empty /\ file' = Empty
          /\ job' = [job EXCEPT ![j] = [pc |-> "fill", diff |-> job[j].diff, old |-> file]]
          /\ UNCHANGED <<mutex, clean, failures>>
       \/ /\ file = Empty /\ Goto(j, "failed") /\ mutex' = None /\ clean' = FALSE
          /\ UNCHANGED <<file, failures>>
       \/ Fails(j) /\ UNCHANGED file
    /\ UNCHANGED <<base, over, conf, enforced, timer, plan, edits, want, cut, restarts>>

Fill(j) ==
    /\ job[j].pc = "fill"
    /\ \/ /\ file' = Over([f \in job[j].diff |-> Set(j)[f]], job[j].old)
          /\ conf' = Read(over, base) /\ mutex' = None
          /\ want' = Over(Set(j), want) /\ Goto(j, IF Panel(j) THEN "apply" ELSE "done")
          /\ UNCHANGED <<clean, failures>>
       \/ Fails(j) /\ UNCHANGED <<file, conf, want>>
    /\ UNCHANGED <<base, over, enforced, timer, plan, edits, cut, restarts>>

\* UpdateAccessControlSettings, after the mutex is free.
AppliedMut(j) == Given(j)
Applied(j)    == Valid(Given(j))
Apply(j) ==
    /\ job[j].pc = "apply" /\ Goto(j, "done") /\ enforced' = Applied(j)
    /\ UNCHANGED <<file, base, over, conf, mutex, timer, plan, edits, want, clean, cut, failures, restarts>>

-----------------------------------------------------------------------------
\* The operator's editor, which writes the whole file.
Edit ==
    /\ \E e \in edits : file' = e /\ edits' = edits \ {e}
    /\ ~\E j \in Requests : job[j].pc = "fill"
    /\ clean' = FALSE
    /\ UNCHANGED <<base, over, conf, enforced, mutex, timer, plan, job, want, cut, failures, restarts>>

\* viper reads the file when it changes, and the cache follows after a while.
Watch ==
    /\ base # file /\ base' = file /\ timer' = TRUE /\ cut' = (cut \/ file = Empty)
    /\ UNCHANGED <<file, over, conf, enforced, mutex, plan, job, edits, want, clean, failures, restarts>>

Reload ==
    /\ timer /\ mutex = None /\ timer' = FALSE /\ conf' = Read(over, base)
    /\ UNCHANGED <<file, base, over, enforced, mutex, plan, job, edits, want, clean, cut, failures, restarts>>

\* The relay stops, or crashes, and starts again: InitConfig and
\* InitializeAccessControl take the file as it is.
Restart ==
    /\ restarts < MaxRestarts /\ restarts' = restarts + 1
    /\ over' = Empty /\ base' = file /\ conf' = Over(file, Blank) /\ enforced' = conf'
    /\ mutex' = None /\ timer' = FALSE
    /\ job' = [j \in Requests |-> IF job[j].pc \in {"new", "done", "refused", "failed"} THEN job[j]
                                  ELSE [job[j] EXCEPT !.pc = "lost"]]
    /\ clean' = (clean /\ ~Busy /\ enforced' = Valid(enforced'))
    /\ UNCHANGED <<file, plan, edits, want, cut, failures>>

Request(j) == BeginRequest(j) \/ Lock(j) \/ Open(j) \/ Fill(j) \/ Apply(j)
SettingsNext == (\E j \in Requests : Request(j)) \/ Edit \/ Watch \/ Reload \/ Restart
SettingsSpec == SettingsInit /\ [][SettingsNext]_settingsVars

-----------------------------------------------------------------------------
SettingsTypeOK ==
    /\ plan \in Plans /\ Partial(file) /\ Partial(base) /\ Partial(over)
    /\ DOMAIN conf = Fields /\ DOMAIN enforced = Fields /\ DOMAIN want = Fields
    /\ job = [j \in Requests |-> [pc |-> job[j].pc, diff |-> job[j].diff, old |-> job[j].old]]
    /\ \A j \in Requests : job[j].pc \in Pcs /\ job[j].diff \subseteq DOMAIN Set(j) /\ Partial(job[j].old)
    /\ mutex \in Requests \cup {None} /\ timer \in BOOLEAN /\ clean \in BOOLEAN /\ cut \in BOOLEAN
    /\ edits \subseteq plan.edits /\ failures \in 0..MaxFailures /\ restarts \in 0..MaxRestarts

\* What requests were answered is what the file says, field by field, however
\* they overlapped and however late the file is noticed, until a write fails,
\* the file is edited, or it is read while it is written.
Kept == failures = 0 /\ edits = plan.edits /\ ~cut /\ file # Empty => Over(file, Blank) = want

\* While requests give the whole section and come one after the other, the
\* configuration is what the file says between them, noticed or not, and the
\* relay admits what it says, made consistent.
LiveFollows == clean /\ ~cut /\ ~Busy => conf = Over(file, Blank) /\ enforced = Valid(conf)

-----------------------------------------------------------------------------
\* What comments say and the code does not do.
\* Invalid combinations are corrected, so a restart changes nothing.
RestartAgrees == [][clean /\ ~Busy /\ restarts' # restarts => enforced' = enforced]_settingsVars
\* What a request leaves out stays as it is.
Untouched == [][enforced' # enforced /\ restarts' = restarts =>
                  \E j \in Requests : job'[j] # job[j] /\ ("mode" \in DOMAIN Set(j) \/ enforced'.mode = enforced.mode)]_settingsVars
\* When whole requests have been answered with success, in whatever order their
\* steps fell, the relay runs with what was saved last.
Whole == \A j \in Requests : Panel(j) /\ DOMAIN Set(j) = Fields
AppliesLast ==
    Whole /\ (\A j \in Requests : job[j].pc = "done") /\ edits = plan.edits /\ ~cut /\ restarts = 0
        => enforced = Valid(conf)
\* A request that is answered with success is saved.
Saved == edits = plan.edits /\ ~cut /\ file # Empty => Over(file, Blank) = want
\* A file is not read while it is written.
NeverPartial == restarts = 0 /\ edits = plan.edits =>
    \A f \in Fields : conf[f] \in {plan.file[f]} \cup {Given(j)[f] : j \in Requests}
\* Writing some keys does not lose the others.
NeverCut == file = Empty => \E j \in Requests : job[j].pc = "fill"
=============================================================================
