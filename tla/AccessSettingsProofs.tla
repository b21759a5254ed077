------------------------ MODULE AccessSettingsProofs ------------------------
(***************************************************************************)
(* Theorems of Access and of Settings.  Of Access, for any users, checks,  *)
(* settings and times: an answer is at most TTL late, whatever the panel   *)
(* changes while it is computed and remembered.  Of Settings, for any      *)
(* plans of requests and edits and any number of failing writes and        *)
(* restarts: what viper reads need not be what the file says, but its      *)
(* overrides make up the difference, which is why a request that compares  *)
(* itself with viper writes all it has to.                                 *)
(***************************************************************************)
EXTENDS Access, Settings, TLAPS

-----------------------------------------------------------------------------
(* Access *)

\* What holds now.
held == {x \in Facts \X Users : Holds(x[1], x[2])}

\* A fact held, or failed, at some moment of tick t or later.
Since(f, u, t)    == <<f, u>> \in held \/ yes[f][u] > t
SinceNot(f, u, t) == <<f, u>> \notin held \/ no[f][u] > t

Right(mode) == IF mode = "write" THEN "writer" ELSE "row"

\* Why an answer is right, from facts since tick t.
Admits(perm, mode, u, t) ==
    \/ Since("owner", u, t)
    \/ perm # "only-me" /\ Since(Right(mode), u, t) /\ (perm = "paid_users" => Since("paid", u, t))
Refuses(perm, mode, u, t) ==
    \/ faults > 0
    \/ /\ SinceNot("owner", u, t)
       /\ perm = "only-me" \/ SinceNot(Right(mode), u, t) \/ (perm = "paid_users" /\ SinceNot("paid", u, t))
Reason(ok, perm, mode, u, t) ==
    /\ ok = TRUE => Admits(perm, mode, u, t)
    /\ ok = FALSE => Refuses(perm, mode, u, t)

\* What a check r has found out in tick n, step by step; an answer may rest on
\* a tick that is less than TTL ago.
Found(r, n) ==
    /\ r.pc = "row" => r.perm # "only-me" /\ (faults > 0 \/ SinceNot("owner", r.who, n))
    /\ r.pc = "paid" => /\ r.perm = "paid_users" /\ Since(Right(r.mode), r.who, n)
                        /\ faults > 0 \/ SinceNot("owner", r.who, n)
    /\ r.pc = "store" => Reason(r.ok, r.perm, r.mode, r.who, n)
    /\ r.pc = "done" /\ r.perm # "all_users" =>
          \E t \in Nat : t <= n /\ t + TTL > n /\ Reason(r.ok, r.perm, r.mode, r.who, t)
Asked(c) == Found(check[c], now)

\* What is remembered and fresh was right when it was entered.
Sound(e, k, n) ==
    n < e.until => \E t \in Nat : t <= n /\ t + TTL = e.until /\ Reason(e.ok, k[1], k[2], k[3], t)
Remembered(k) == Sound(cache[k], k, now)

AccessInv ==
    /\ TypeOK
    /\ \A c \in Checks : Asked(c)
    /\ \A k \in DOMAIN cache : Remembered(k)

-----------------------------------------------------------------------------
(* Types *)

LEMMA MarkType ==
    ASSUME TypeOK, Mark
    PROVE  yes' \in Dates /\ no' \in Dates
BY DEF TypeOK, Mark, Dates, Still

\* A step of a call.
LEMMA ToType ==
    ASSUME TypeOK, NEW c \in Checks, check[c] # Idle, NEW pc \in {"owner", "row", "paid", "store", "done"},
           NEW ok \in BOOLEAN, To(c, pc, ok)
    PROVE  /\ check' \in [Checks -> {Idle} \cup Call]
           /\ check[c] \in Call /\ check'[c] = [check[c] EXCEPT !.pc = pc, !.ok = ok]
           /\ \A d \in Checks \ {c} : check'[d] = check[d]
<1>1. check[c] \in Call
  BY DEF TypeOK
<1>2. check' = [check EXCEPT ![c] = [check[c] EXCEPT !.pc = pc, !.ok = ok]]
  BY <1>1 DEF TypeOK, To
<1>3. [check[c] EXCEPT !.pc = pc, !.ok = ok] \in Call
  BY <1>1 DEF Call
<1> QED
  BY <1>1, <1>2, <1>3 DEF TypeOK

LEMMA Asking ==
    ASSUME TypeOK, NEW c \in Checks, check[c].pc # "idle"
    PROVE  check[c] \in Call /\ check[c] # Idle
BY DEF TypeOK, Idle

\* A call that begins.
LEMMA BeginType ==
    ASSUME TypeOK, NEW c \in Checks, Begin(c)
    PROVE  \E mode \in Modes, u \in Users :
              /\ check' \in [Checks -> {Idle} \cup Call] /\ check'[c] \in Call
              /\ \A d \in Checks \ {c} : check'[d] = check[d]
              /\ check'[c].perm = live[mode] /\ check'[c].mode = mode /\ check'[c].who = u
              /\ \/ check'[c].pc = "done" /\ live[mode] = "all_users"
                 \/ /\ check'[c].pc = "done" /\ Fresh(<<live[mode], mode, u>>)
                    /\ check'[c].ok = cache[<<live[mode], mode, u>>].ok
                 \/ check'[c].pc = "owner"
<1> DEFINE as(pc, ok, mode, u) == [pc |-> pc, perm |-> live[mode], mode |-> mode, who |-> u, ok |-> ok]
<1>1. PICK mode \in Modes, u \in Users :
         check' = [check EXCEPT ![c] = IF live[mode] = "all_users" THEN as("done", TRUE, mode, u)
                                       ELSE IF Fresh(<<live[mode], mode, u>>)
                                            THEN as("done", cache[<<live[mode], mode, u>>].ok, mode, u)
                                       ELSE as("owner", FALSE, mode, u)]
  BY DEF Begin
<1>2. live[mode] \in Levels
  BY AccessAssumption DEF TypeOK, Modes
<1>3. Fresh(<<live[mode], mode, u>>) => cache[<<live[mode], mode, u>>].ok \in BOOLEAN
  BY DEF TypeOK, Fresh
<1>4. \A pc \in {"done", "owner"}, ok \in BOOLEAN : as(pc, ok, mode, u) \in Call
  BY <1>2 DEF Call
<1>5. check \in [Checks -> {Idle} \cup Call]
  BY DEF TypeOK
<1>6. CASE live[mode] = "all_users"
  <2>1. check' = [check EXCEPT ![c] = as("done", TRUE, mode, u)] /\ as("done", TRUE, mode, u) \in Call
    BY <1>1, <1>4, <1>6
  <2> QED
    BY <1>5, <1>6, <2>1
<1>7. CASE live[mode] # "all_users" /\ Fresh(<<live[mode], mode, u>>)
  <2> DEFINE ok == cache[<<live[mode], mode, u>>].ok
  <2>1. check' = [check EXCEPT ![c] = as("done", ok, mode, u)] /\ as("done", ok, mode, u) \in Call
    BY <1>1, <1>3, <1>4, <1>7
  <2> QED
    BY <1>5, <1>7, <2>1
<1>8. CASE live[mode] # "all_users" /\ ~Fresh(<<live[mode], mode, u>>)
  <2>1. check' = [check EXCEPT ![c] = as("owner", FALSE, mode, u)] /\ as("owner", FALSE, mode, u) \in Call
    BY <1>1, <1>4, <1>8
  <2> QED
    BY <1>5, <2>1
<1> QED
  BY <1>6, <1>7, <1>8

LEMMA TypeNext ==
    ASSUME TypeOK, [Next]_vars
    PROVE  TypeOK'
<1> USE AccessAssumption
<1>f. /\ Fault => faults' \in 0..MaxFaults
      /\ Move => moves' \in 0..MaxMoves
  BY DEF TypeOK, Fault, Move
<1>Begin. ASSUME NEW c \in Checks, Begin(c) PROVE TypeOK'
  <2>1. check' \in [Checks -> {Idle} \cup Call]
    BY <1>Begin, BeginType
  <2> QED
    BY <1>Begin, <2>1 DEF Begin, TypeOK, data
<1>AskOwner. ASSUME NEW c \in Checks, AskOwner(c) PROVE TypeOK'
  <2>1. check[c] # Idle /\ Owner(check[c].who) \in BOOLEAN
    BY <1>AskOwner, Asking DEF AskOwner, Owner
  <2>2. check' \in [Checks -> {Idle} \cup Call]
    BY <1>AskOwner, <2>1, ToType DEF AskOwner
  <2> QED
    BY <1>AskOwner, <1>f, <2>2 DEF AskOwner, TypeOK, data
<1>AskRow. ASSUME NEW c \in Checks, AskRow(c) PROVE TypeOK'
  <2> DEFINE ok == rows[check[c].who] \in Row(check[c].mode)
  <2>1. check[c] # Idle /\ ok \in BOOLEAN
    BY <1>AskRow, Asking DEF AskRow
  <2>a. \/ To(c, IF ok /\ check[c].perm = "paid_users" THEN "paid" ELSE "store", ok)
        \/ To(c, "store", FALSE)
    BY <1>AskRow DEF AskRow
  <2> HIDE DEF ok
  <2>2. check' \in [Checks -> {Idle} \cup Call]
    BY <2>a, <2>1, ToType
  <2> QED
    BY <1>AskRow, <1>f, <2>2 DEF AskRow, TypeOK, data
<1>AskPaid. ASSUME NEW c \in Checks, AskPaid(c) PROVE TypeOK'
  <2>1. check[c] # Idle /\ Holds("paid", check[c].who) \in BOOLEAN
    BY <1>AskPaid, Asking DEF AskPaid, Holds, TypeOK
  <2>2. check' \in [Checks -> {Idle} \cup Call]
    BY <1>AskPaid, <2>1, ToType DEF AskPaid
  <2> QED
    BY <1>AskPaid, <1>f, <2>2 DEF AskPaid, TypeOK, data
<1>Remember. ASSUME NEW c \in Checks, Remember(c) PROVE TypeOK'
  <2>1. check[c] # Idle /\ check[c] \in Call
    BY <1>Remember, Asking DEF Remember
  <2>2. check[c].ok \in BOOLEAN /\ Key(c) \in Levels \X Modes \X Users
    BY <2>1 DEF Call, Key
  <2>3. check' \in [Checks -> {Idle} \cup Call]
    BY <1>Remember, <2>1, <2>2, ToType DEF Remember
  <2>4. [ok |-> check[c].ok, until |-> now + TTL] \in [ok : BOOLEAN, until : 0..(now + TTL)]
    BY <2>2 DEF TypeOK
  <2>5. \A k \in DOMAIN cache' : /\ k \in Levels \X Modes \X Users
                                 /\ cache'[k] \in [ok : BOOLEAN, until : 0..(now + TTL)]
    BY <1>Remember, <2>2, <2>4 DEF Remember, TypeOK
  <2> QED
    BY <1>Remember, <2>3, <2>5 DEF Remember, TypeOK, data
<1>Allow. CASE Allow
  BY <1>Allow, <1>f, MarkType DEF Allow, TypeOK
<1>Pay. CASE Pay
  <2>1. MaxTime + TTL \in Nat
    OBVIOUS
  <2> QED
    BY <1>Pay, <1>f, <2>1, MarkType DEF Pay, TypeOK
<1>Unset. ASSUME NEW s \in Setters, Unset(s) PROVE TypeOK'
  BY <1>Unset, <1>f, MarkType DEF Unset, TypeOK
<1>SetOwner. ASSUME NEW s \in Setters, SetOwner(s) PROVE TypeOK'
  <2>1. setter[s].who \in Users
    BY <1>SetOwner DEF SetOwner, TypeOK, Idle
  <2> QED
    BY <1>SetOwner, <2>1, MarkType DEF SetOwner, TypeOK
<1>RemoveOwner. CASE RemoveOwner
  BY <1>RemoveOwner, <1>f, MarkType DEF RemoveOwner, TypeOK
<1>Save. CASE Save
  <2>1. PICK s \in Settings : change' = [pc |-> "level", s |-> s] /\ priced' = s.priced
    BY <1>Save DEF Save
  <2>2. priced' \in BOOLEAN /\ change' \in [pc : {"level"}, s : Settings]
    BY <2>1
  <2> QED
    BY <1>Save, <1>f, <2>2, MarkType DEF Save, TypeOK
<1>Level. CASE Level
  <2>1. change.s \in Settings
    BY <1>Level DEF Level, TypeOK, Idle
  <2> QED
    BY <1>Level, <2>1 DEF Level, TypeOK
<1>Sweep. CASE Sweep
  BY <1>Sweep DEF Sweep, TypeOK
<1>Tick. CASE Tick
  <2>1. now' \in Nat /\ \A n \in 0..(now + TTL) : n \in 0..(now' + TTL)
    BY <1>Tick DEF Tick, TypeOK
  <2>2. \A k \in DOMAIN cache : /\ k \in Levels \X Modes \X Users
                               /\ cache[k] \in [ok : BOOLEAN, until : 0..(now' + TTL)]
    BY <2>1 DEF TypeOK
  <2> QED
    BY <1>Tick, <2>1, <2>2, MarkType DEF Tick, TypeOK, data
<1>Stutter. CASE UNCHANGED vars
  BY <1>Stutter DEF vars, TypeOK
<1> QED
  BY <1>Begin, <1>AskOwner, <1>AskRow, <1>AskPaid, <1>Remember, <1>Allow, <1>Pay, <1>Unset, <1>SetOwner,
     <1>RemoveOwner, <1>Save, <1>Level, <1>Sweep, <1>Tick, <1>Stutter DEF Next

-----------------------------------------------------------------------------
(* Time and change *)

\* The history keeps, for facts of all ticks that still matter, that they held
\* or failed.
Steady ==
    \A f \in Facts, u \in Users, t \in Nat :
       t <= now /\ t + TTL > now =>
          /\ <<f, u>> \in held \/ yes[f][u] > t => <<f, u>> \in held' \/ yes'[f][u] > t
          /\ <<f, u>> \notin held \/ no[f][u] > t => <<f, u>> \notin held' \/ no'[f][u] > t

LEMMA MarkKeeps ==
    ASSUME TypeOK, Mark
    PROVE  Steady
<1> SUFFICES ASSUME NEW f \in Facts, NEW u \in Users, NEW t \in Nat, t <= now, t + TTL > now
             PROVE  /\ <<f, u>> \in held \/ yes[f][u] > t => <<f, u>> \in held' \/ yes'[f][u] > t
                    /\ <<f, u>> \notin held \/ no[f][u] > t => <<f, u>> \notin held' \/ no'[f][u] > t
  BY DEF Steady
<1>1. <<f, u>> \in held <=> Holds(f, u)
  BY DEF held
<1>2. now \in Nat /\ TTL \in Nat /\ yes[f][u] \in Nat /\ no[f][u] \in Nat
  BY AccessAssumption DEF TypeOK, Dates
<1>3. /\ Holds(f, u) => yes'[f][u] = now + 1 /\ no'[f][u] = Still(no[f][u])
      /\ ~Holds(f, u) => no'[f][u] = now + 1 /\ yes'[f][u] = Still(yes[f][u])
  BY DEF Mark
<1>4. \A n \in Nat : n > t => Still(n) = n
  <2> SUFFICES ASSUME NEW n \in Nat, n > t PROVE n + TTL > now + 1
    BY DEF Still, Lately
  <2> QED
    BY <1>2
<1>5. now + 1 > t
  BY <1>2
<1>6. CASE Holds(f, u)
  BY <1>1, <1>2, <1>3, <1>4, <1>5, <1>6
<1>7. CASE ~Holds(f, u)
  BY <1>1, <1>2, <1>3, <1>4, <1>5, <1>7
<1> QED
  BY <1>6, <1>7

LEMMA QuietKeeps ==
    ASSUME UNCHANGED <<now, rows, paid, owners, priced, yes, no>>
    PROVE  Steady
<1>1. held' = held
  BY DEF held, Holds, Owner
<1> QED
  BY <1>1 DEF Steady

LEMMA Keeps ==
    ASSUME TypeOK, [Next]_vars
    PROVE  Steady /\ (faults > 0 => faults' > 0)
<1>f. Fault => (faults > 0 => faults' > 0)
  BY DEF TypeOK, Fault
<1>Begin. ASSUME NEW c \in Checks, Begin(c) PROVE Steady /\ (faults > 0 => faults' > 0)
  BY <1>Begin, QuietKeeps DEF Begin, data
<1>AskOwner. ASSUME NEW c \in Checks, AskOwner(c) PROVE Steady /\ (faults > 0 => faults' > 0)
  BY <1>AskOwner, QuietKeeps, <1>f DEF AskOwner, data
<1>AskRow. ASSUME NEW c \in Checks, AskRow(c) PROVE Steady /\ (faults > 0 => faults' > 0)
  BY <1>AskRow, QuietKeeps, <1>f DEF AskRow, data
<1>AskPaid. ASSUME NEW c \in Checks, AskPaid(c) PROVE Steady /\ (faults > 0 => faults' > 0)
  BY <1>AskPaid, QuietKeeps, <1>f DEF AskPaid, data
<1>Remember. ASSUME NEW c \in Checks, Remember(c) PROVE Steady /\ (faults > 0 => faults' > 0)
  BY <1>Remember, QuietKeeps DEF Remember, data
<1>Allow. CASE Allow
  BY <1>Allow, MarkKeeps DEF Allow
<1>Pay. CASE Pay
  BY <1>Pay, MarkKeeps DEF Pay
<1>Unset. ASSUME NEW s \in Setters, Unset(s) PROVE Steady /\ (faults > 0 => faults' > 0)
  BY <1>Unset, MarkKeeps DEF Unset
<1>SetOwner. ASSUME NEW s \in Setters, SetOwner(s) PROVE Steady /\ (faults > 0 => faults' > 0)
  BY <1>SetOwner, MarkKeeps DEF SetOwner
<1>RemoveOwner. CASE RemoveOwner
  BY <1>RemoveOwner, MarkKeeps DEF RemoveOwner
<1>Save. CASE Save
  BY <1>Save, MarkKeeps DEF Save
<1>Level. CASE Level
  BY <1>Level, QuietKeeps DEF Level
<1>Sweep. CASE Sweep
  BY <1>Sweep, QuietKeeps DEF Sweep
<1>Tick. CASE Tick
  BY <1>Tick, MarkKeeps DEF Tick, data
<1>Stutter. CASE UNCHANGED vars
  BY <1>Stutter, QuietKeeps DEF vars
<1> QED
  BY <1>Begin, <1>AskOwner, <1>AskRow, <1>AskPaid, <1>Remember, <1>Allow, <1>Pay, <1>Unset, <1>SetOwner,
     <1>RemoveOwner, <1>Save, <1>Level, <1>Sweep, <1>Tick, <1>Stutter DEF Next

\* A reason stays one.
LEMMA ReasonStays ==
    ASSUME Steady, faults > 0 => faults' > 0, NEW ok, NEW perm, NEW mode \in Modes, NEW u \in Users,
           NEW t \in Nat, t <= now, t + TTL > now, Reason(ok, perm, mode, u, t)
    PROVE  Reason(ok, perm, mode, u, t)'
<1>1. Right(mode) \in Facts /\ "owner" \in Facts /\ "paid" \in Facts
  BY DEF Right, Facts
<1>2. \A f \in Facts : Since(f, u, t) => Since(f, u, t)'
  BY DEF Steady, Since
<1>3. \A f \in Facts : SinceNot(f, u, t) => SinceNot(f, u, t)'
  BY DEF Steady, SinceNot
<1>4. Admits(perm, mode, u, t) => Admits(perm, mode, u, t)'
  BY <1>1, <1>2 DEF Admits
<1>5. Refuses(perm, mode, u, t) => Refuses(perm, mode, u, t)'
  BY <1>1, <1>3 DEF Refuses
<1> QED
  BY <1>4, <1>5 DEF Reason

LEMMA FoundStays ==
    ASSUME TypeOK, Steady, faults > 0 => faults' > 0, NEW r \in Call, NEW n, n = now, Found(r, n)
    PROVE  Found(r, n)'
<1>1. n \in Nat /\ n <= now /\ n + TTL > now /\ r.who \in Users /\ r.mode \in Modes
  BY AccessAssumption DEF TypeOK, Call
<1>2. Right(r.mode) \in Facts /\ "owner" \in Facts
  BY DEF Right, Facts
<1>3. \A f \in Facts : Since(f, r.who, n) => Since(f, r.who, n)'
  BY <1>1 DEF Steady, Since
<1>4. \A f \in Facts : SinceNot(f, r.who, n) => SinceNot(f, r.who, n)'
  BY <1>1 DEF Steady, SinceNot
<1>5. \A t \in Nat : t <= n /\ t + TTL > n /\ Reason(r.ok, r.perm, r.mode, r.who, t)
                        => Reason(r.ok, r.perm, r.mode, r.who, t)'
  BY <1>1, ReasonStays
<1> QED
  BY <1>1, <1>2, <1>3, <1>4, <1>5 DEF Found

\* A check that does not move, while time stands still, keeps what it knows.
LEMMA AskedRests ==
    ASSUME AccessInv, Steady, faults > 0 => faults' > 0, now' = now, NEW c \in Checks, check'[c] = check[c]
    PROVE  Asked(c)'
<1>1. CASE check[c] = Idle
  BY <1>1 DEF Asked, Found, Idle
<1>2. CASE check[c] # Idle
  <2>1. check[c] \in Call /\ Found(check[c], now)
    BY <1>2 DEF AccessInv, TypeOK, Asked
  <2>2. PICK r \in Call, n \in {now} : r = check[c] /\ n = now
    BY <2>1
  <2>3. Found(r, n)'
    BY <2>1, <2>2, FoundStays DEF AccessInv
  <2>4. check'[c] = r /\ now' = n
    BY <2>2
  <2> QED
    BY <2>3, <2>4 DEF Asked, Found, Reason, Admits, Refuses, Since, SinceNot, Right
<1> QED
  BY <1>1, <1>2

-----------------------------------------------------------------------------
(* The steps of a check *)

Quiet == UNCHANGED <<now, rows, paid, owners, priced, yes, no>>

\* When only the check moves, what it found is what it found now, ...
LEMMA FoundNow ==
    ASSUME Quiet, faults' = faults, NEW c \in Checks, NEW r, check'[c] = r, Found(r, now)
    PROVE  Asked(c)'
<1>1. held' = held
  BY DEF Quiet, held, Holds, Owner
<1>2. now' = now /\ yes' = yes /\ no' = no
  BY DEF Quiet
<1> QED
  BY <1>1, <1>2 DEF Asked, Found, Reason, Admits, Refuses, Since, SinceNot, Right

\* ... or nothing, if its query failed.
LEMMA FoundNothing ==
    ASSUME faults' > 0, NEW c \in Checks, NEW r, check'[c] = r,
           (r.pc = "row" /\ r.perm # "only-me") \/ (r.pc = "store" /\ r.ok = FALSE)
    PROVE  Asked(c)'
BY DEF Asked, Found, Reason, Refuses

LEMMA FaultCounts ==
    ASSUME TypeOK, Fault
    PROVE  faults' > 0
BY AccessAssumption DEF TypeOK, Fault

LEMMA RecordFields ==
    ASSUME NEW r \in Call, NEW pc, NEW ok
    PROVE  LET next == [r EXCEPT !.pc = pc, !.ok = ok]
           IN next.pc = pc /\ next.ok = ok /\ next.perm = r.perm /\ next.mode = r.mode /\ next.who = r.who
BY DEF Call

\* Membership in held is what the queries return.
LEMMA HeldIs ==
    ASSUME NEW u \in Users, NEW mode \in Modes
    PROVE  /\ <<"owner", u>> \in held <=> Owner(u)
           /\ <<Right(mode), u>> \in held <=> rows[u] \in Row(mode)
           /\ <<"paid", u>> \in held <=> Holds("paid", u)
<1>1. \A f \in Facts : <<f, u>> \in held <=> Holds(f, u)
  BY DEF held
<1>2. Right(mode) \in Facts /\ "owner" \in Facts /\ "paid" \in Facts
  BY DEF Right, Facts
<1>3. Holds("owner", u) <=> Owner(u)
  BY DEF Holds
<1>4. CASE mode = "write"
  BY <1>1, <1>2, <1>3, <1>4 DEF Holds, Right, Row
<1>5. CASE mode = "read"
  BY <1>1, <1>2, <1>3, <1>5 DEF Holds, Right, Row
<1> QED
  BY <1>4, <1>5 DEF Modes

LEMMA AskedMoves ==
    ASSUME AccessInv, NEW c \in Checks, Begin(c) \/ AskOwner(c) \/ AskRow(c) \/ AskPaid(c) \/ Remember(c)
    PROVE  Asked(c)' /\ \A d \in Checks \ {c} : check'[d] = check[d]
<1>1. TypeOK /\ Found(check[c], now) /\ now \in Nat /\ now <= now /\ now + TTL > now
  BY AccessAssumption DEF AccessInv, Asked, TypeOK
<1>2. check[c].pc # "idle" => check[c] \in Call /\ check[c] # Idle
  BY <1>1, Asking
<1>Begin. CASE Begin(c)
  <2>1. PICK mode \in Modes, u \in Users :
              /\ check'[c] \in Call
              /\ \A d \in Checks \ {c} : check'[d] = check[d]
              /\ check'[c].perm = live[mode] /\ check'[c].mode = mode /\ check'[c].who = u
              /\ \/ check'[c].pc = "done" /\ live[mode] = "all_users"
                 \/ /\ check'[c].pc = "done" /\ Fresh(<<live[mode], mode, u>>)
                    /\ check'[c].ok = cache[<<live[mode], mode, u>>].ok
                 \/ check'[c].pc = "owner"
    BY <1>Begin, <1>1, BeginType
  <2>2. Quiet /\ faults' = faults
    BY <1>Begin DEF Begin, Quiet, data
  <2>3. PICK r \in Call : r = check'[c]
    BY <2>1
  <2>4. Found(r, now)
    <3>1. CASE Fresh(<<live[mode], mode, u>>) /\ r.pc = "done" /\ r.ok = cache[<<live[mode], mode, u>>].ok
      <4> DEFINE k == <<live[mode], mode, u>>
      <4>1. k \in DOMAIN cache /\ now < cache[k].until
        BY <3>1 DEF Fresh
      <4>2. PICK t \in Nat : t <= now /\ t + TTL = cache[k].until /\ Reason(cache[k].ok, k[1], k[2], k[3], t)
        BY <4>1 DEF AccessInv, Remembered, Sound
      <4>3. Reason(r.ok, r.perm, r.mode, r.who, t)
        BY <2>1, <2>3, <3>1, <4>2
      <4> QED
        BY <3>1, <4>1, <4>2, <4>3 DEF Found
    <3>2. CASE r.pc = "owner" \/ (r.pc = "done" /\ r.perm = "all_users")
      BY <3>2 DEF Found
    <3> QED
      BY <2>1, <2>3, <3>1, <3>2
  <2> QED
    BY <2>1, <2>2, <2>3, <2>4, FoundNow
<1>AskOwner. CASE AskOwner(c)
  <2>1. PICK r \in Call : r = check[c] /\ r # Idle
    BY <1>AskOwner, <1>2 DEF AskOwner
  <2>2. Quiet /\ r.who \in Users /\ r.ok \in BOOLEAN
    BY <1>AskOwner, <2>1 DEF AskOwner, Quiet, data, Call
  <2> DEFINE next == IF r.perm = "only-me" THEN "store" ELSE "row"
  <2>3. CASE To(c, IF Owner(r.who) THEN "store" ELSE next, Owner(r.who)) /\ UNCHANGED faults
    <3>1. Owner(r.who) \in BOOLEAN /\ (<<"owner", r.who>> \in held <=> Owner(r.who))
      BY <2>2, HeldIs DEF Owner, Modes
    <3>2. PICK ok \in BOOLEAN, pc \in {"store", "row"} : ok = Owner(r.who) /\ pc = IF ok THEN "store" ELSE next
      BY <3>1
    <3>3. To(c, pc, ok)
      BY <2>3, <3>2
    <3>4. check'[c] = [r EXCEPT !.pc = pc, !.ok = ok] /\ \A d \in Checks \ {c} : check'[d] = check[d]
      BY <1>1, <2>1, <3>3, ToType
    <3>5. Found([r EXCEPT !.pc = pc, !.ok = ok], now)
      BY <3>1, <3>2, RecordFields DEF Found, Reason, Admits, Refuses, Since, SinceNot
    <3> QED
      BY <2>2, <2>3, <3>4, <3>5, FoundNow
  <2>4. CASE Fault /\ To(c, next, FALSE)
    <3>1. check'[c] = [r EXCEPT !.pc = next, !.ok = FALSE] /\ \A d \in Checks \ {c} : check'[d] = check[d]
      BY <1>1, <2>1, <2>4, ToType
    <3>2. (check'[c].pc = "row" /\ check'[c].perm # "only-me") \/ (check'[c].pc = "store" /\ check'[c].ok = FALSE)
      BY <3>1, RecordFields
    <3> QED
      BY <1>1, <2>4, <3>1, <3>2, FaultCounts, FoundNothing
  <2> QED
    BY <1>AskOwner, <2>1, <2>3, <2>4 DEF AskOwner
<1>AskRow. CASE AskRow(c)
  <2>1. PICK r \in Call : r = check[c] /\ r # Idle /\ r.pc = "row"
    BY <1>AskRow, <1>2 DEF AskRow
  <2>2. Quiet /\ r.who \in Users /\ r.mode \in Modes
    BY <1>AskRow, <2>1 DEF AskRow, Quiet, data, Call
  <2> DEFINE listed == rows[r.who] \in Row(r.mode)
  <2>3. CASE To(c, IF listed /\ r.perm = "paid_users" THEN "paid" ELSE "store", listed) /\ UNCHANGED faults
    <3>1. <<Right(r.mode), r.who>> \in held <=> listed
      BY <2>2, HeldIs
    <3>a. listed \in BOOLEAN
      OBVIOUS
    <3> HIDE DEF listed
    <3>2. PICK ok \in BOOLEAN, pc \in {"paid", "store"} :
             ok = listed /\ pc = IF ok /\ r.perm = "paid_users" THEN "paid" ELSE "store"
      BY <3>a
    <3>3. To(c, pc, ok)
      BY <2>3, <3>2
    <3>4. check'[c] = [r EXCEPT !.pc = pc, !.ok = ok] /\ \A d \in Checks \ {c} : check'[d] = check[d]
      BY <1>1, <2>1, <3>3, ToType
    <3>5. r.perm # "only-me" /\ (faults > 0 \/ SinceNot("owner", r.who, now))
      BY <1>1, <2>1 DEF Found
    <3>6. Found([r EXCEPT !.pc = pc, !.ok = ok], now)
      BY <3>1, <3>2, <3>5, RecordFields DEF Found, Reason, Admits, Refuses, Since, SinceNot
    <3> QED
      BY <2>2, <2>3, <3>4, <3>6, FoundNow
  <2>4. CASE Fault /\ To(c, "store", FALSE)
    <3>1. check'[c] = [r EXCEPT !.pc = "store", !.ok = FALSE] /\ \A d \in Checks \ {c} : check'[d] = check[d]
      BY <1>1, <2>1, <2>4, ToType
    <3>2. check'[c].pc = "store" /\ check'[c].ok = FALSE
      BY <3>1, RecordFields
    <3> QED
      BY <1>1, <2>4, <3>1, <3>2, FaultCounts, FoundNothing
  <2> QED
    BY <1>AskRow, <2>1, <2>3, <2>4 DEF AskRow
<1>AskPaid. CASE AskPaid(c)
  <2>1. PICK r \in Call : r = check[c] /\ r # Idle /\ r.pc = "paid"
    BY <1>AskPaid, <1>2 DEF AskPaid
  <2>2. Quiet /\ r.who \in Users /\ r.mode \in Modes
    BY <1>AskPaid, <2>1 DEF AskPaid, Quiet, data, Call
  <2>3. CASE To(c, "store", Holds("paid", r.who)) /\ UNCHANGED faults
    <3>1. Holds("paid", r.who) \in BOOLEAN /\ (<<"paid", r.who>> \in held <=> Holds("paid", r.who))
      BY <2>2, HeldIs DEF Holds
    <3>2. PICK ok \in BOOLEAN : ok = Holds("paid", r.who)
      BY <3>1
    <3>3. To(c, "store", ok)
      BY <2>3, <3>2
    <3>4. check'[c] = [r EXCEPT !.pc = "store", !.ok = ok] /\ \A d \in Checks \ {c} : check'[d] = check[d]
      BY <1>1, <2>1, <3>3, ToType
    <3>5. /\ r.perm = "paid_users" /\ Since(Right(r.mode), r.who, now)
          /\ faults > 0 \/ SinceNot("owner", r.who, now)
      BY <1>1, <2>1 DEF Found
    <3>6. Found([r EXCEPT !.pc = "store", !.ok = ok], now)
      BY <3>1, <3>2, <3>5, RecordFields DEF Found, Reason, Admits, Refuses, Since, SinceNot
    <3> QED
      BY <2>2, <2>3, <3>4, <3>6, FoundNow
  <2>4. CASE Fault /\ To(c, "store", FALSE)
    <3>1. check'[c] = [r EXCEPT !.pc = "store", !.ok = FALSE] /\ \A d \in Checks \ {c} : check'[d] = check[d]
      BY <1>1, <2>1, <2>4, ToType
    <3>2. check'[c].pc = "store" /\ check'[c].ok = FALSE
      BY <3>1, RecordFields
    <3> QED
      BY <1>1, <2>4, <3>1, <3>2, FaultCounts, FoundNothing
  <2> QED
    BY <1>AskPaid, <2>1, <2>3, <2>4 DEF AskPaid
<1>Remember. CASE Remember(c)
  <2>1. PICK r \in Call : r = check[c] /\ r # Idle /\ r.pc = "store"
    BY <1>Remember, <1>2 DEF Remember
  <2>2. Quiet /\ faults' = faults /\ r.ok \in BOOLEAN
    BY <1>Remember, <2>1 DEF Remember, Quiet, data, Call
  <2>3. check'[c] = [r EXCEPT !.pc = "done", !.ok = r.ok] /\ \A d \in Checks \ {c} : check'[d] = check[d]
    BY <1>1, <1>Remember, <2>1, <2>2, ToType DEF Remember
  <2>4. Reason(r.ok, r.perm, r.mode, r.who, now)
    BY <1>1, <2>1 DEF Found
  <2>5. Found([r EXCEPT !.pc = "done", !.ok = r.ok], now)
    BY <1>1, <2>4, RecordFields DEF Found
  <2> QED
    BY <2>2, <2>3, <2>5, FoundNow
<1> QED
  BY <1>Begin, <1>AskOwner, <1>AskRow, <1>AskPaid, <1>Remember

-----------------------------------------------------------------------------
(* What is remembered *)

LEMMA SoundStays ==
    ASSUME TypeOK, Steady, faults > 0 => faults' > 0, NEW e, e.until \in Nat, NEW k \in Levels \X Modes \X Users,
           NEW n, n = now, Sound(e, k, n), NEW m \in Nat, n <= m
    PROVE  m < e.until => \E t \in Nat : t <= m /\ t + TTL = e.until /\ Reason(e.ok, k[1], k[2], k[3], t)'
<1> SUFFICES ASSUME m < e.until
             PROVE  \E t \in Nat : t <= m /\ t + TTL = e.until /\ Reason(e.ok, k[1], k[2], k[3], t)'
  OBVIOUS
<1>1. n \in Nat /\ n < e.until /\ k[2] \in Modes /\ k[3] \in Users
  BY DEF TypeOK
<1>2. PICK t \in Nat : t <= n /\ t + TTL = e.until /\ Reason(e.ok, k[1], k[2], k[3], t)
  BY <1>1 DEF Sound
<1>3. t <= m /\ t + TTL > n
  BY <1>1, <1>2, AccessAssumption
<1>4. Reason(e.ok, k[1], k[2], k[3], t)'
  BY <1>1, <1>2, <1>3, ReasonStays
<1> QED
  BY <1>2, <1>3, <1>4

\* Entries that stay, stay right.
LEMMA RememberedRests ==
    ASSUME AccessInv, Steady, faults > 0 => faults' > 0, now' \in Nat, now <= now',
           NEW k \in DOMAIN cache, cache'[k] = cache[k]
    PROVE  Remembered(k)'
<1>1. TypeOK /\ k \in Levels \X Modes \X Users /\ cache[k].until \in Nat /\ Sound(cache[k], k, now)
  BY AccessAssumption DEF AccessInv, TypeOK, Remembered
<1>2. PICK e \in {cache[k]}, n \in {now}, m \in {now'} : e = cache[k] /\ n = now /\ m = now'
  OBVIOUS
<1>3. m < e.until => \E t \in Nat : t <= m /\ t + TTL = e.until /\ Reason(e.ok, k[1], k[2], k[3], t)'
  BY <1>1, <1>2, SoundStays
<1>4. cache'[k] = e /\ now' = m
  BY <1>2
<1> QED
  BY <1>3, <1>4 DEF Remembered, Sound, Reason, Admits, Refuses, Since, SinceNot, Right

LEMMA RememberedNext ==
    ASSUME AccessInv, [Next]_vars, Steady, faults > 0 => faults' > 0
    PROVE  \A k \in DOMAIN cache' : Remembered(k)'
<1>t. TypeOK
  BY DEF AccessInv
<1>n. now' \in Nat /\ now <= now'
  <2>1. now' = now \/ now' = now + 1
    BY DEF Next, vars, data, Begin, AskOwner, AskRow, AskPaid, Remember, Allow, Pay, Unset, SetOwner, RemoveOwner,
           Save, Level, Sweep, Tick
  <2> QED
    BY <1>t, <2>1 DEF TypeOK
<1>1. CASE cache' = cache
  BY <1>1, <1>n, RememberedRests
<1>2. CASE Sweep
  BY <1>2 DEF Sweep
<1>3. ASSUME NEW c \in Checks, Remember(c), NEW k \in DOMAIN cache' PROVE Remembered(k)'
  <2>1. CASE k # Key(c)
    BY <1>3, <1>n, <2>1, RememberedRests DEF Remember
  <2>2. CASE k = Key(c)
    <3>1. check[c] \in Call /\ check[c].pc = "store"
      BY <1>t, <1>3, Asking DEF Remember
    <3>2. PICK r \in Call, n \in Nat : r = check[c] /\ n = now
      BY <1>t, <3>1 DEF TypeOK
    <3>3. Reason(r.ok, r.perm, r.mode, r.who, n)
      BY <3>1, <3>2 DEF AccessInv, Asked, Found
    <3>4. k = <<r.perm, r.mode, r.who>> /\ cache'[k] = [ok |-> r.ok, until |-> n + TTL] /\ now' = n
      BY <1>3, <2>2, <3>2 DEF Remember, Key
    <3>5. held' = held /\ yes' = yes /\ no' = no /\ faults' = faults
      BY <1>3 DEF Remember, data, held, Holds, Owner
    <3>6. Reason(r.ok, r.perm, r.mode, r.who, n)'
      BY <3>3, <3>5 DEF Reason, Admits, Refuses, Since, SinceNot
    <3>7. n <= n /\ n + TTL = cache'[k].until /\ cache'[k].ok = r.ok
      BY <3>4
    <3> QED
      BY <3>2, <3>4, <3>6, <3>7 DEF Remembered, Sound, Reason, Admits, Refuses, Since, SinceNot, Right
  <2> QED
    BY <2>1, <2>2
<1>4. cache' = cache \/ Sweep \/ \E c \in Checks : Remember(c)
  BY DEF Next, vars, data, Begin, AskOwner, AskRow, AskPaid, Allow, Pay, Unset, SetOwner, RemoveOwner, Save, Level, Tick
<1> QED
  BY <1>1, <1>2, <1>3, <1>4

-----------------------------------------------------------------------------
(* The theorems *)

LEMMA InitHolds == Init => AccessInv
<1> SUFFICES ASSUME Init PROVE AccessInv
  OBVIOUS
<1>1. PICK s \in Start : live = s.settings /\ priced = s.settings.priced /\ rows = s.rows /\ paid = s.paid
  BY DEF Init
<1>2. s.settings \in Settings /\ s.settings.priced \in BOOLEAN /\ s.rows \in [Users -> Rows] /\ s.paid \in [Users -> Nat]
  BY AccessAssumption
<1>3. now \in Nat /\ moves \in 0..MaxMoves /\ faults \in 0..MaxFaults
  BY AccessAssumption DEF Init
<1>4. TypeOK
  BY <1>1, <1>2, <1>3 DEF Init, TypeOK, Dates
<1>5. \A c \in Checks : Asked(c)
  BY DEF Init, Asked, Found, Idle
<1>6. \A k \in DOMAIN cache : Remembered(k)
  BY DEF Init
<1> QED
  BY <1>4, <1>5, <1>6 DEF AccessInv

LEMMA AskedNext ==
    ASSUME AccessInv, [Next]_vars, Steady, faults > 0 => faults' > 0, NEW c \in Checks
    PROVE  Asked(c)'
<1>1. ASSUME NEW d \in Checks, Begin(d) \/ AskOwner(d) \/ AskRow(d) \/ AskPaid(d) \/ Remember(d)
      PROVE  Asked(c)'
  <2>1. now' = now
    BY <1>1 DEF Begin, AskOwner, AskRow, AskPaid, Remember
  <2>2. CASE c = d
    BY <1>1, <2>2, AskedMoves
  <2>3. CASE c # d
    BY <1>1, <2>1, <2>3, AskedMoves, AskedRests
  <2> QED
    BY <2>2, <2>3
<1>2. CASE Tick
  <2>1. check'[c] = Idle
    BY <1>2 DEF Tick
  <2> QED
    BY <2>1 DEF Asked, Found, Idle
<1>3. CASE now' = now /\ check' = check
  BY <1>3, AskedRests
<1>4. Allow \/ Pay \/ (\E s \in Setters : Unset(s) \/ SetOwner(s)) \/ RemoveOwner \/ Save \/ Level \/ Sweep \/ UNCHANGED vars
         => now' = now /\ check' = check
  BY DEF Allow, Pay, Unset, SetOwner, RemoveOwner, Save, Level, Sweep, vars
<1> QED
  BY <1>1, <1>2, <1>3, <1>4 DEF Next

LEMMA NextHolds == AccessInv /\ [Next]_vars => AccessInv'
<1> SUFFICES ASSUME AccessInv, [Next]_vars PROVE AccessInv'
  OBVIOUS
<1>1. TypeOK /\ TypeOK' /\ Steady /\ (faults > 0 => faults' > 0)
  BY TypeNext, Keeps DEF AccessInv
<1>2. \A c \in Checks : Asked(c)'
  BY <1>1, AskedNext
<1>3. \A k \in DOMAIN cache' : Remembered(k)'
  BY <1>1, RememberedNext
<1> QED
  BY <1>1, <1>2, <1>3 DEF AccessInv

LEMMA AlwaysIInv == Spec => []AccessInv
BY InitHolds, NextHolds, PTL DEF Spec

\* The variables of access_control.go and of the tables it asks keep their types,
\* and nothing is remembered for longer than TTL.
THEOREM TypeCorrect == Spec => []TypeOK
<1>1. AccessInv => TypeOK
  BY DEF AccessInv
<1> QED
  BY <1>1, AlwaysIInv, PTL

\* IsAllowed never answers by what is further back than accessCacheTTL: although
\* it asks in separate queries and nothing is forgotten when users, owners or
\* subscriptions change, each fact an answer rests on was so within TTL.
THEOREM AnswersTimely == Spec => []Timely
<1>1. AccessInv => Timely
  <2> SUFFICES ASSUME AccessInv, NEW c \in Checks, check[c].pc = "done", check[c].perm # "all_users"
               PROVE  LET only == check[c].perm = "only-me"
                          pays == check[c].perm = "paid_users"
                      IN IF check[c].ok THEN Was("owner", c) \/ (~only /\ Was(Entry(c), c) /\ (pays => Was("paid", c)))
                         ELSE \/ faults > 0
                              \/ WasNot("owner", c) /\ (only \/ WasNot(Entry(c), c) \/ (pays /\ WasNot("paid", c)))
    BY DEF Timely
  <2>1. check[c] \in Call /\ now \in Nat /\ TTL \in Nat
    BY Asking, AccessAssumption DEF AccessInv, TypeOK
  <2>2. check[c].who \in Users /\ check[c].mode \in Modes /\ check[c].ok \in BOOLEAN
    BY <2>1 DEF Call
  <2>3. PICK t \in Nat : t <= now /\ t + TTL > now
                         /\ Reason(check[c].ok, check[c].perm, check[c].mode, check[c].who, t)
    BY DEF AccessInv, Asked, Found
  <2>4. ASSUME NEW f \in Facts
        PROVE  /\ Since(f, check[c].who, t) => Was(f, c)
               /\ SinceNot(f, check[c].who, t) => WasNot(f, c)
    <3>1. <<f, check[c].who>> \in held <=> Holds(f, check[c].who)
      BY <2>2 DEF held
    <3>2. yes[f][check[c].who] \in Nat /\ no[f][check[c].who] \in Nat
      BY <2>2 DEF AccessInv, TypeOK, Dates
    <3>3. \A n \in Nat : n > t => Lately(n)
      BY <2>1, <2>3 DEF Lately
    <3> QED
      BY <3>1, <3>2, <3>3 DEF Since, SinceNot, Was, WasNot
  <2>5. Entry(c) = Right(check[c].mode) /\ Entry(c) \in Facts /\ "owner" \in Facts /\ "paid" \in Facts
    BY DEF Entry, Right, Facts
  <2>6. CASE check[c].ok = TRUE
    BY <2>3, <2>4, <2>5, <2>6 DEF Reason, Admits
  <2>7. CASE check[c].ok = FALSE
    BY <2>3, <2>4, <2>5, <2>7 DEF Reason, Refuses
  <2> QED
    BY <2>2, <2>6, <2>7
<1> QED
  BY <1>1, AlwaysIInv, PTL

-----------------------------------------------------------------------------
(* Settings *)

\* Nothing has happened that Kept excuses.
Undisturbed == failures = 0 /\ edits = plan.edits /\ ~cut /\ (file # Empty \/ clean)

\* The mutex belongs to the request between Lock and the end of Fill.
Writing(j) == job[j].pc \in {"open", "fill"}
Holding ==
    /\ \A j \in Requests : Writing(j) <=> mutex = j
    /\ clean => failures = 0 /\ edits = plan.edits

\* The answer of j to be: Set(j), and what was there.
Merged(j) == Over(Set(j), want)
Part(j)   == [f \in job[j].diff |-> Set(j)[f]]

\* Viper reads what the request in progress asks for, and so will the file.
Prepared(j, text) ==
    /\ job[j].diff \subseteq DOMAIN over
    /\ Read(over, base) = Merged(j)
    /\ Over(Over(Part(j), text), Blank) = Merged(j)

Told ==
    /\ Undisturbed /\ mutex = None => Over(file, Blank) = want /\ Read(over, base) = want
    /\ \A j \in Requests :
          /\ Undisturbed /\ job[j].pc = "open" => Over(file, Blank) = want /\ Prepared(j, file)
          /\ job[j].pc = "fill" => file = Empty
          /\ failures = 0 /\ edits = plan.edits /\ ~cut /\ job[j].pc = "fill" => Prepared(j, job[j].old)

\* One request at a time, for the whole section: it alone may not have been
\* applied yet.
Ended == {"new", "done", "refused", "failed", "lost"}
InTurn ==
    clean => /\ \A j, k \in Requests : job[j].pc \notin Ended /\ job[k].pc \notin Ended => j = k
             /\ \A j \in Requests : job[j].pc \notin Ended => Panel(j) /\ DOMAIN Set(j) = Fields
             /\ ~cut => /\ conf = want
                        /\ \A j \in Requests : job[j].pc = "apply" => want = Given(j)
                        /\ (\A j \in Requests : job[j].pc # "apply") => enforced = Valid(want)

IInv == SettingsTypeOK /\ Holding /\ Told /\ InTurn

-----------------------------------------------------------------------------
(* Layers of values *)

LEMMA OverPartial ==
    ASSUME NEW f, NEW g, Partial(f), Partial(g)
    PROVE  Partial(Over(f, g))
BY DEF Partial, Over

LEMMA OverFull ==
    ASSUME NEW f, NEW g, DOMAIN f \subseteq Fields, DOMAIN g = Fields
    PROVE  /\ DOMAIN Over(f, g) = Fields
           /\ \A x \in Fields : Over(f, g)[x] = IF x \in DOMAIN f THEN f[x] ELSE g[x]
BY DEF Over

LEMMA OverEmpty ==
    ASSUME NEW g, g = [x \in DOMAIN g |-> g[x]]
    PROVE  Over(Empty, g) = g
BY DEF Over, Empty

LEMMA OverNothing ==
    ASSUME NEW f, NEW g
    PROVE  Over(Empty, Over(f, g)) = Over(f, g)
<1>1. Over(f, g) = [x \in DOMAIN Over(f, g) |-> Over(f, g)[x]]
  BY DEF Over
<1> QED
  BY <1>1, OverEmpty

LEMMA OverAgain ==
    ASSUME NEW f, NEW g, NEW h
    PROVE  Over(f, Over(g, h)) = Over(Over(f, g), h)
BY DEF Over

LEMMA EmptyPartial == Partial(Empty)
BY DEF Partial, Empty

\* What a plan is made of.
LEMMA PlanType ==
    ASSUME SettingsTypeOK
    PROVE  /\ Partial(plan.file) /\ None \notin Requests
           /\ \A e \in plan.edits : Partial(e)
           /\ \A j \in Requests : Partial(Set(j))
           /\ Partial(Blank) /\ DOMAIN Blank = Fields
<1>1. plan \in Plans
  BY DEF SettingsTypeOK
<1>2. Partial(plan.file) /\ None \notin Requests
  BY <1>1, SettingsAssumption DEF Requests
<1>3. \A e \in plan.edits : Partial(e)
  BY <1>1, SettingsAssumption
<1>4. \A j \in Requests : Partial(Set(j))
  <2>1. ASSUME NEW j \in DOMAIN plan.req PROVE Partial(plan.req[j].set)
    BY <1>1, SettingsAssumption
  <2> QED
    BY <2>1 DEF Requests, Set
<1>5. Partial(Blank) /\ DOMAIN Blank = Fields
  BY DEF Blank, Partial
<1> QED
  BY <1>2, <1>3, <1>4, <1>5

LEMMA ReadFull ==
    ASSUME SettingsTypeOK
    PROVE  DOMAIN Read(over, base) = Fields /\ DOMAIN Over(file, Blank) = Fields
<1>1. DOMAIN over \subseteq Fields /\ DOMAIN base \subseteq Fields /\ DOMAIN file \subseteq Fields
  BY DEF SettingsTypeOK, Partial
<1>2. DOMAIN Over(base, Blank) = Fields /\ DOMAIN Over(file, Blank) = Fields
  BY <1>1, PlanType, OverFull
<1> QED
  BY <1>1, <1>2, OverFull DEF Read

-----------------------------------------------------------------------------
(* Types *)

LEMMA JobType ==
    ASSUME SettingsTypeOK, NEW j \in Requests, NEW r, plan' = plan,
           r.pc \in Pcs, r.diff \subseteq DOMAIN Set(j), Partial(r.old),
           r = [pc |-> r.pc, diff |-> r.diff, old |-> r.old], job' = [job EXCEPT ![j] = r]
    PROVE  /\ (job = [k \in Requests |-> [pc |-> job[k].pc, diff |-> job[k].diff, old |-> job[k].old]])'
           /\ (\A k \in Requests : job[k].pc \in Pcs /\ job[k].diff \subseteq DOMAIN Set(k) /\ Partial(job[k].old))'
           /\ job'[j] = r /\ \A k \in Requests \ {j} : job'[k] = job[k]
<1>1. job'[j] = r /\ \A k \in Requests \ {j} : job'[k] = job[k]
  BY DEF SettingsTypeOK
<1>2. DOMAIN job' = Requests' /\ job' = [k \in Requests |-> job'[k]]
  BY DEF SettingsTypeOK, Requests
<1>3. \A k \in Requests : job'[k] = [pc |-> job'[k].pc, diff |-> job'[k].diff, old |-> job'[k].old]
  BY <1>1 DEF SettingsTypeOK
<1>4. \A k \in Requests : job'[k].pc \in Pcs /\ job'[k].diff \subseteq DOMAIN Set(k) /\ Partial(job'[k].old)
  BY <1>1 DEF SettingsTypeOK
<1> QED
  BY <1>1, <1>2, <1>3, <1>4 DEF Requests, Set, Partial

LEMMA GotoType ==
    ASSUME SettingsTypeOK, NEW j \in Requests, NEW pc \in Pcs, Goto(j, pc), plan' = plan
    PROVE  /\ (job = [k \in Requests |-> [pc |-> job[k].pc, diff |-> job[k].diff, old |-> job[k].old]])'
           /\ (\A k \in Requests : job[k].pc \in Pcs /\ job[k].diff \subseteq DOMAIN Set(k) /\ Partial(job[k].old))'
           /\ job'[j].pc = pc /\ job'[j].diff = job[j].diff /\ job'[j].old = job[j].old
           /\ \A k \in Requests \ {j} : job'[k] = job[k]
<1> DEFINE r == [job[j] EXCEPT !.pc = pc]
<1>1. r.pc = pc /\ r.diff = job[j].diff /\ r.old = job[j].old /\ r = [pc |-> r.pc, diff |-> r.diff, old |-> r.old]
  BY DEF SettingsTypeOK
<1>2. job' = [job EXCEPT ![j] = r]
  BY DEF Goto
<1>3. Partial(job[j].old) /\ job[j].diff \subseteq DOMAIN Set(j)
  BY DEF SettingsTypeOK
<1> HIDE DEF r
<1> QED
  BY <1>1, <1>2, <1>3, JobType

-----------------------------------------------------------------------------
(* Requests *)

LEMMA BeginInv ==
    ASSUME IInv, NEW j \in Requests, BeginRequest(j)
    PROVE  IInv'
<1>1. PICK pc \in {"lock", "refused"} : Goto(j, pc)
  BY DEF BeginRequest
<1>2. plan' = plan /\ Requests' = Requests /\ pc \in Pcs
  BY DEF BeginRequest, Requests, Pcs
<1>3. SettingsTypeOK
  BY DEF IInv
<1>4. SettingsTypeOK'
  BY <1>1, <1>2, <1>3, GotoType DEF BeginRequest, SettingsTypeOK, Partial
<1>5. /\ job[j].pc = "new" /\ job'[j].pc = pc
      /\ \A k \in Requests \ {j} : job'[k] = job[k]
  BY <1>1, <1>2, <1>3, GotoType DEF BeginRequest
<1>6. clean' => clean /\ Panel(j) /\ DOMAIN Set(j) = Fields /\ \A k \in Requests : job[k].pc \in Ended
  BY <1>3 DEF BeginRequest, Busy, Ended, SettingsTypeOK
<1>7. Holding'
  BY <1>1, <1>2, <1>5, <1>6 DEF IInv, Holding, Writing, BeginRequest
<1>8. /\ Undisturbed' => Undisturbed
      /\ \A k \in Requests : /\ job'[k].pc \in {"open", "fill"} => k # j /\ job'[k] = job[k]
                             /\ job'[k].pc \in {"open", "fill"} => (Prepared(k, file)' <=> Prepared(k, file))
                             /\ job'[k].pc \in {"open", "fill"} => (Prepared(k, job[k].old)' <=> Prepared(k, job[k].old))
  BY <1>1, <1>2, <1>5, <1>6 DEF Undisturbed, BeginRequest, Prepared, Merged, Part, Set, Read
<1>9. Told'
  BY <1>2, <1>5, <1>8 DEF IInv, Told, BeginRequest, Read
<1>10. InTurn'
  <2>1. ASSUME clean' PROVE clean /\ \A k \in Requests \ {j} : job'[k].pc \in Ended
    BY <1>5, <1>6, <2>1
  <2>2. pc # "apply" /\ \A k \in Requests : job[k].pc \in Ended => job[k].pc # "apply"
    BY DEF Ended
  <2>3. ASSUME clean', ~cut PROVE conf = want /\ enforced = Valid(want)
    BY <1>6, <2>2, <2>3 DEF IInv, InTurn
  <2>4. ASSUME clean' PROVE \A k \in Requests : job'[k].pc # "apply"
    BY <1>5, <2>1, <2>2, <2>4
  <2> QED
    BY <1>2, <1>6, <2>1, <2>3, <2>4 DEF InTurn, BeginRequest, Panel, Set
<1> QED
  BY <1>4, <1>7, <1>9, <1>10 DEF IInv

\* The file holds all that viper reads: what the request adds goes to both.
LEMMA LockLayers ==
    ASSUME IInv, NEW j \in Requests, Lock(j), Undisturbed,
           NEW part, part = [f \in Changed(j) |-> Set(j)[f]]
    PROVE  /\ Read(over', base) = Merged(j)
           /\ Over(Over(part, file), Blank) = Merged(j)
           /\ Over(file, Blank) = want /\ Read(over, base) = want
<1>1. SettingsTypeOK
  BY DEF IInv
<1>2. Over(file, Blank) = want /\ Read(over, base) = want
  BY DEF IInv, Told, Lock
<1>3. Read(over', base) = Over(part, want)
  BY <1>2, OverAgain DEF Lock, Read
<1>4. Over(Over(part, file), Blank) = Over(part, want)
  BY <1>2, OverAgain
<1>5. DOMAIN Set(j) \subseteq Fields /\ DOMAIN want = Fields
  BY <1>1, PlanType DEF SettingsTypeOK, Partial
<1>6. Over(part, want) = Over(Set(j), want)
  <2>1. DOMAIN part = {f \in DOMAIN Set(j) : Set(j)[f] # want[f]}
    BY <1>2 DEF Changed
  <2>2. \A f \in DOMAIN part : part[f] = Set(j)[f]
    OBVIOUS
  <2> QED
    BY <1>5, <2>1, <2>2 DEF Over
<1> QED
  BY <1>2, <1>3, <1>4, <1>6 DEF Merged

LEMMA LockInv ==
    ASSUME IInv, NEW j \in Requests, Lock(j)
    PROVE  IInv'
<1> DEFINE part == [f \in Changed(j) |-> Set(j)[f]]
<1>1. SettingsTypeOK /\ Changed(j) \subseteq DOMAIN Set(j) /\ Partial(part) /\ DOMAIN part = Changed(j)
  BY PlanType DEF IInv, Changed, Partial
<1>2. /\ plan' = plan /\ Requests' = Requests /\ file' = file /\ base' = base /\ conf' = conf /\ enforced' = enforced
      /\ edits' = edits /\ clean' = clean /\ cut' = cut /\ failures' = failures /\ restarts' = restarts /\ timer' = timer
      /\ mutex = None /\ job[j].pc = "lock" /\ over' = Over(part, over)
  BY DEF Lock, Requests
<1>3. Partial(over')
  BY <1>1, <1>2, OverPartial DEF SettingsTypeOK
<1>4. Undisturbed' <=> Undisturbed
  BY <1>2 DEF Undisturbed
<1>5. \A k \in Requests : ~Writing(k)
  BY <1>1, <1>2, PlanType DEF IInv, Holding
<1> HIDE DEF part
<1>6. CASE Changed(j) = {} /\ ~Panel(j) /\ Goto(j, "done") /\ want' = Over(Set(j), want) /\ UNCHANGED mutex
  <2>1. /\ job'[j].pc = "done" /\ \A k \in Requests \ {j} : job'[k] = job[k]
        /\ SettingsTypeOK'
    <3>1. DOMAIN want' = Fields
      BY <1>1, <1>6, PlanType, OverFull DEF SettingsTypeOK, Partial
    <3> QED
      BY <1>1, <1>2, <1>3, <1>6, <3>1, GotoType DEF SettingsTypeOK, Pcs
  <2>2. Holding'
    BY <1>2, <1>5, <1>6, <2>1 DEF IInv, Holding, Writing
  <2>3. Told'
    <3>1. \A k \in Requests : job'[k].pc \notin {"open", "fill"}
      BY <1>5, <2>1 DEF Writing
    <3>2. ASSUME Undisturbed PROVE Over(file, Blank) = want' /\ Read(over', base) = want'
      <4>1. part = Empty
        BY <1>6 DEF part, Empty
      <4>2. Over(Over(part, file), Blank) = Over(file, Blank)
        BY <1>1, <4>1, OverEmpty DEF SettingsTypeOK, Partial
      <4> QED
        BY <1>6, <3>2, <4>2, LockLayers DEF Merged, part
    <3> QED
      BY <1>2, <1>4, <3>1, <3>2 DEF Told, Read
  <2>4. InTurn'
    BY <1>2, <1>6, <2>1 DEF IInv, InTurn, Ended, Panel
  <2> QED
    BY <2>1, <2>2, <2>3, <2>4 DEF IInv
<1>7. CASE /\ job' = [job EXCEPT ![j] = [pc |-> "open", diff |-> Changed(j), old |-> Empty]]
           /\ mutex' = j /\ UNCHANGED want
  <2>1. /\ job'[j].pc = "open" /\ job'[j].diff = Changed(j) /\ \A k \in Requests \ {j} : job'[k] = job[k]
        /\ SettingsTypeOK'
    <3> DEFINE r == [pc |-> "open", diff |-> Changed(j), old |-> Empty]
    <3>1. /\ r.pc = "open" /\ r.diff = Changed(j) /\ r.old = Empty /\ r = [pc |-> r.pc, diff |-> r.diff, old |-> r.old]
          /\ job' = [job EXCEPT ![j] = r]
      BY <1>7
    <3> HIDE DEF r
    <3>2. "open" \in Pcs /\ Partial(r.old) /\ r.diff \subseteq DOMAIN Set(j)
      BY <1>1, <3>1, EmptyPartial DEF Pcs
    <3>3. /\ (job = [k \in Requests |-> [pc |-> job[k].pc, diff |-> job[k].diff, old |-> job[k].old]])'
          /\ (\A k \in Requests : job[k].pc \in Pcs /\ job[k].diff \subseteq DOMAIN Set(k) /\ Partial(job[k].old))'
          /\ job'[j] = r /\ \A k \in Requests \ {j} : job'[k] = job[k]
      BY <1>1, <1>2, <3>1, <3>2, JobType
    <3> QED
      BY <1>1, <1>2, <1>3, <1>7, <3>1, <3>3 DEF SettingsTypeOK
  <2>2. Holding'
    BY <1>2, <1>5, <1>7, <2>1, PlanType, <1>1 DEF IInv, Holding, Writing
  <2>3. Told'
    <3>1. \A k \in Requests : job'[k].pc \in {"open", "fill"} => k = j
      BY <1>5, <2>1 DEF Writing
    <3>2. ASSUME Undisturbed PROVE Over(file, Blank) = want /\ Prepared(j, file)'
      <4>1. Part(j)' = part /\ Merged(j)' = Merged(j)
        BY <1>2, <1>7, <2>1 DEF Part, part, Merged, Set
      <4>2. job'[j].diff \subseteq DOMAIN over'
        BY <1>1, <1>2, <2>1 DEF Over
      <4> QED
        BY <1>2, <3>2, <4>1, <4>2, LockLayers DEF Prepared, Read, part
    <3> QED
      BY <1>2, <1>4, <1>7, <2>1, <3>1, <3>2, PlanType, <1>1 DEF Told, Undisturbed
  <2>4. InTurn'
    <3>1. \A k \in Requests : (job'[k].pc \in Ended <=> job[k].pc \in Ended) /\ (job'[k].pc = "apply" <=> job[k].pc = "apply")
      BY <1>2, <2>1 DEF Ended
    <3>2. \A k \in Requests : Panel(k)' = Panel(k) /\ Set(k)' = Set(k) /\ Given(k)' = Given(k)
      BY <1>2 DEF Panel, Set, Given
    <3> QED
      BY <1>2, <1>7, <3>1, <3>2 DEF IInv, InTurn
  <2> QED
    BY <2>1, <2>2, <2>3, <2>4 DEF IInv
<1> QED
  BY <1>6, <1>7 DEF Lock

\* A write that fails, or a file that is cut off: Kept promises nothing any more.
LEMMA FailedInv ==
    ASSUME IInv, NEW j \in Requests, Writing(j), Goto(j, "failed"), mutex' = None, clean' = FALSE,
           (file = Empty /\ UNCHANGED failures) \/ WriteFails,
           UNCHANGED <<file, base, over, conf, enforced, timer, plan, edits, want, cut, restarts>>
    PROVE  IInv'
<1>1. SettingsTypeOK /\ Requests' = Requests /\ "failed" \in Pcs
  BY DEF IInv, Requests, Pcs
<1>2. job'[j].pc = "failed" /\ \A k \in Requests \ {j} : job'[k] = job[k]
  BY <1>1, GotoType
<1>3. failures' \in 0..MaxFailures /\ (failures' = 0 => failures = 0 /\ file = Empty)
  BY <1>1, SettingsAssumption DEF SettingsTypeOK, WriteFails
<1>4. SettingsTypeOK'
  BY <1>1, <1>3, GotoType DEF SettingsTypeOK
<1>5. \A k \in Requests : ~Writing(k)'
  BY <1>1, <1>2, PlanType DEF IInv, Holding, Writing
<1>6. ~Undisturbed'
  BY <1>3 DEF Undisturbed
<1>7. Holding'
  BY <1>1, <1>5, PlanType DEF Holding
<1>8. Told'
  BY <1>1, <1>5, <1>6 DEF Told, Writing
<1> QED
  BY <1>4, <1>7, <1>8 DEF IInv, InTurn

LEMMA OpenInv ==
    ASSUME IInv, NEW j \in Requests, Open(j)
    PROVE  IInv'
<1>1. SettingsTypeOK /\ Requests' = Requests /\ plan' = plan /\ job[j].pc = "open" /\ Writing(j)
  BY DEF IInv, Requests, Open, Writing
<1>2. CASE /\ file # Empty /\ file' = Empty
           /\ job' = [job EXCEPT ![j] = [pc |-> "fill", diff |-> job[j].diff, old |-> file]]
           /\ UNCHANGED <<mutex, clean, failures>>
  <2> DEFINE r == [pc |-> "fill", diff |-> job[j].diff, old |-> file]
  <2>1. /\ r.pc = "fill" /\ r.diff = job[j].diff /\ r.old = file /\ r = [pc |-> r.pc, diff |-> r.diff, old |-> r.old]
        /\ job' = [job EXCEPT ![j] = r]
    BY <1>2
  <2>2. r.pc \in Pcs /\ Partial(r.old) /\ r.diff \subseteq DOMAIN Set(j)
    BY <1>1, <2>1 DEF Pcs, SettingsTypeOK
  <2> HIDE DEF r
  <2>3. /\ (job = [k \in Requests |-> [pc |-> job[k].pc, diff |-> job[k].diff, old |-> job[k].old]])'
        /\ (\A k \in Requests : job[k].pc \in Pcs /\ job[k].diff \subseteq DOMAIN Set(k) /\ Partial(job[k].old))'
        /\ job'[j] = r /\ \A k \in Requests \ {j} : job'[k] = job[k]
    BY <1>1, <2>1, <2>2, JobType
  <2>4. SettingsTypeOK'
    BY <1>1, <1>2, <2>3, EmptyPartial DEF SettingsTypeOK, Open
  <2>5. Holding'
    BY <1>1, <1>2, <2>1, <2>3 DEF IInv, Holding, Writing, Open
  <2>6. mutex = j /\ mutex # None /\ \A k \in Requests : job'[k].pc \in {"open", "fill"} => k = j
    BY <1>1, <2>3, PlanType DEF IInv, Holding, Writing
  <2>7. (failures = 0 /\ edits = plan.edits /\ ~cut) => Prepared(j, job[j].old)'
    <3>1. (failures = 0 /\ edits = plan.edits /\ ~cut) => Prepared(j, file)
      BY <1>1, <1>2 DEF IInv, Told, Undisturbed
    <3>2. Part(j)' = Part(j) /\ Merged(j)' = Merged(j)
      BY <1>1, <2>1, <2>3 DEF Part, Merged, Set, Open
    <3>3. /\ job'[j].old = file /\ job'[j].diff = job[j].diff /\ over' = over /\ Read(over, base)' = Read(over, base)
      BY <2>1, <2>3 DEF Open, Read
    <3> QED
      BY <3>1, <3>2, <3>3 DEF Prepared
  <2>8. Told'
    BY <1>1, <1>2, <2>1, <2>3, <2>6, <2>7 DEF Told, Open
  <2>9. InTurn'
    <3>1. \A k \in Requests : (job'[k].pc \in Ended <=> job[k].pc \in Ended) /\ (job'[k].pc = "apply" <=> job[k].pc = "apply")
      BY <1>1, <2>1, <2>3 DEF Ended
    <3>2. \A k \in Requests : Panel(k)' = Panel(k) /\ Set(k)' = Set(k) /\ Given(k)' = Given(k)
      BY <1>1 DEF Panel, Set, Given
    <3> QED
      BY <1>1, <1>2, <3>1, <3>2 DEF IInv, InTurn, Open
  <2> QED
    BY <2>4, <2>5, <2>8, <2>9 DEF IInv
<1>3. CASE /\ file = Empty /\ Goto(j, "failed") /\ mutex' = None /\ clean' = FALSE /\ UNCHANGED <<file, failures>>
  BY <1>1, <1>3, FailedInv DEF Open
<1>4. CASE Fails(j) /\ UNCHANGED file
  BY <1>1, <1>4, FailedInv DEF Open, Fails
<1> QED
  BY <1>2, <1>3, <1>4 DEF Open

LEMMA FillInv ==
    ASSUME IInv, NEW j \in Requests, Fill(j)
    PROVE  IInv'
<1>1. SettingsTypeOK /\ Requests' = Requests /\ plan' = plan /\ job[j].pc = "fill" /\ Writing(j)
  BY DEF IInv, Requests, Fill, Writing
<1>2. ASSUME file' = Over([f \in job[j].diff |-> Set(j)[f]], job[j].old),
             conf' = Read(over, base), mutex' = None, want' = Over(Set(j), want),
             Goto(j, IF Panel(j) THEN "apply" ELSE "done"), UNCHANGED <<clean, failures>>
      PROVE  IInv'
  <2> DEFINE pc == IF Panel(j) THEN "apply" ELSE "done"
  <2>1. pc \in Pcs
    BY DEF Pcs
  <2>2. job'[j].pc = pc /\ \A k \in Requests \ {j} : job'[k] = job[k]
    BY <1>1, <1>2, <2>1, GotoType
  <2>3. Partial(file') /\ DOMAIN conf' = Fields /\ DOMAIN want' = Fields
    <3>1. Partial(Part(j)) /\ Partial(job[j].old) /\ Partial(Set(j))
      BY <1>1, PlanType DEF SettingsTypeOK, Partial, Part
    <3>2. Partial(file')
      BY <1>2, <3>1, OverPartial DEF Part
    <3>3. DOMAIN want' = Fields
      BY <1>1, <1>2, <3>1, OverFull DEF SettingsTypeOK, Partial
    <3> QED
      BY <1>1, <1>2, <3>2, <3>3, ReadFull
  <2>4. SettingsTypeOK'
    <3>1. /\ (job = [k \in Requests |-> [pc |-> job[k].pc, diff |-> job[k].diff, old |-> job[k].old]])'
          /\ (\A k \in Requests : job[k].pc \in Pcs /\ job[k].diff \subseteq DOMAIN Set(k) /\ Partial(job[k].old))'
      BY <1>1, <1>2, <2>1, GotoType
    <3> QED
      BY <1>1, <1>2, <2>3, <3>1 DEF SettingsTypeOK, Fill
  <2>5. \A k \in Requests : ~Writing(k)'
    BY <1>1, <2>2, PlanType DEF IInv, Holding, Writing
  <2>6. Holding'
    BY <1>1, <1>2, <2>5, PlanType DEF IInv, Holding, Fill
  <2>7. (failures = 0 /\ edits = plan.edits /\ ~cut) =>
           Over(file, Blank)' = want' /\ Read(over, base) = want'
    BY <1>1, <1>2 DEF IInv, Told, Prepared, Merged, Part
  <2>8. Told'
    BY <1>1, <1>2, <2>5, <2>7 DEF Told, Undisturbed, Writing, Fill, Read
  <2>9. InTurn'
    <3>1. \A k \in Requests \ {j} : job'[k].pc = job[k].pc
      BY <2>2
    <3>2. job[j].pc \notin Ended /\ job[j].pc # "apply" /\ "done" \in Ended /\ "apply" \notin Ended
      BY <1>1 DEF Ended
    <3>3. \A k \in Requests : Panel(k)' = Panel(k) /\ Set(k)' = Set(k) /\ Given(k)' = Given(k)
      BY <1>1 DEF Panel, Set, Given
    <3>4. ASSUME clean PROVE Panel(j) /\ DOMAIN Set(j) = Fields /\ \A k \in Requests \ {j} : job[k].pc \in Ended
      BY <3>2, <3>4 DEF IInv, InTurn
    <3>5. ASSUME clean PROVE want' = Given(j)
      BY <1>1, <1>2, <3>4, <3>5 DEF Over, Given, SettingsTypeOK
    <3>6. ASSUME clean, ~cut PROVE conf' = want'
      BY <1>2, <2>7, <3>6 DEF IInv, Holding
    <3> QED
      BY <1>1, <1>2, <2>2, <3>1, <3>2, <3>3, <3>4, <3>5, <3>6 DEF InTurn, Fill
  <2> QED
    BY <2>4, <2>6, <2>8, <2>9 DEF IInv
<1>3. CASE Fails(j) /\ UNCHANGED <<file, conf, want>>
  BY <1>1, <1>3, FailedInv DEF Fill, Fails
<1> QED
  BY <1>2, <1>3 DEF Fill

LEMMA ValidFull ==
    ASSUME NEW s
    PROVE  DOMAIN Valid(s) = Fields
BY DEF Valid, Fields

LEMMA ApplyInv ==
    ASSUME IInv, NEW j \in Requests, Apply(j)
    PROVE  IInv'
<1>1. SettingsTypeOK /\ Requests' = Requests /\ plan' = plan /\ job[j].pc = "apply" /\ "done" \in Pcs
  BY DEF IInv, Requests, Apply, Pcs
<1>2. job'[j].pc = "done" /\ \A k \in Requests \ {j} : job'[k] = job[k]
  BY <1>1, GotoType DEF Apply
<1>3. SettingsTypeOK'
  BY <1>1, GotoType, ValidFull DEF SettingsTypeOK, Apply, Applied
<1>4. Holding'
  BY <1>1, <1>2 DEF IInv, Holding, Writing, Apply
<1>5. Told'
  <2>1. /\ \A k \in Requests : job'[k].pc \in {"open", "fill"} => job'[k] = job[k]
        /\ Undisturbed' = Undisturbed /\ Read(over, base)' = Read(over, base)
    BY <1>1, <1>2 DEF Undisturbed, Apply, Read
  <2>2. \A k \in Requests : job'[k] = job[k] =>
           Prepared(k, file)' = Prepared(k, file) /\ Prepared(k, job[k].old)' = Prepared(k, job[k].old)
    BY <1>1, <2>1 DEF Prepared, Merged, Part, Set, Apply
  <2> QED
    BY <1>1, <2>1, <2>2 DEF IInv, Told, Apply
<1>6. InTurn'
  <2>1. job[j].pc \notin Ended /\ "done" \in Ended
    BY <1>1 DEF Ended
  <2>2. ASSUME clean, ~cut PROVE enforced' = Valid(want) /\ conf = want
    BY <1>1, <2>2 DEF IInv, InTurn, Apply, Applied
  <2>3. \A k \in Requests : Panel(k)' = Panel(k) /\ Set(k)' = Set(k) /\ Given(k)' = Given(k)
    BY <1>1 DEF Panel, Set, Given
  <2> QED
    BY <1>1, <1>2, <2>1, <2>2, <2>3 DEF IInv, InTurn, Apply
<1> QED
  BY <1>3, <1>4, <1>5, <1>6 DEF IInv

-----------------------------------------------------------------------------
(* The file, the watcher and the relay itself *)

LEMMA EditInv ==
    ASSUME IInv, Edit
    PROVE  IInv'
<1>1. SettingsTypeOK /\ Requests' = Requests /\ plan' = plan /\ job' = job
  BY DEF IInv, Requests, Edit
<1>2. PICK e \in edits : file' = e /\ edits' = edits \ {e}
  BY DEF Edit
<1>3. e \in plan.edits /\ Partial(e)
  BY <1>1, PlanType DEF SettingsTypeOK
<1>4. SettingsTypeOK'
  BY <1>1, <1>2, <1>3 DEF SettingsTypeOK, Edit, Set, Requests
<1>5. edits' # plan.edits /\ ~Undisturbed'
  BY <1>1, <1>2, <1>3 DEF Undisturbed
<1>6. Holding'
  BY <1>1 DEF IInv, Holding, Writing, Edit
<1>7. Told'
  BY <1>1, <1>5 DEF Told, Undisturbed, Edit
<1> QED
  BY <1>4, <1>6, <1>7 DEF IInv, InTurn, Edit

LEMMA WatchInv ==
    ASSUME IInv, Watch
    PROVE  IInv'
<1>1. /\ SettingsTypeOK /\ Requests' = Requests /\ plan' = plan /\ job' = job /\ file' = file /\ over' = over /\ mutex' = mutex
      /\ want' = want /\ clean' = clean /\ failures' = failures /\ edits' = edits /\ base' = file /\ conf' = conf /\ enforced' = enforced
  BY DEF IInv, Requests, Watch
<1>2. SettingsTypeOK'
  BY <1>1 DEF SettingsTypeOK, Watch, Set, Requests
<1>3. Holding'
  BY <1>1 DEF Holding, Writing, IInv
<1>4. (cut <=> cut') \/ cut'
  BY <1>2 DEF Watch, SettingsTypeOK
<1>5. (Undisturbed' => Undisturbed) /\ (~cut' => file # Empty /\ ~cut)
  BY <1>1 DEF Watch, Undisturbed
<1>6. DOMAIN over \subseteq Fields /\ DOMAIN base \subseteq Fields /\ DOMAIN file \subseteq Fields /\ DOMAIN want = Fields
  BY <1>1 DEF SettingsTypeOK, Partial
<1>7. /\ DOMAIN Over(base, Blank) = Fields /\ DOMAIN Over(file, Blank) = Fields
      /\ DOMAIN Read(over, base) = Fields /\ DOMAIN Read(over, file) = Fields
      /\ \A x \in Fields : /\ Read(over, base)[x] = IF x \in DOMAIN over THEN over[x] ELSE Over(base, Blank)[x]
                           /\ Read(over, file)[x] = IF x \in DOMAIN over THEN over[x] ELSE Over(file, Blank)[x]
  BY <1>1, <1>6, PlanType, OverFull DEF Read
<1>8. Read(over, file) = [x \in Fields |-> Read(over, file)[x]] /\ Read(over, base) = [x \in Fields |-> Read(over, base)[x]]
  BY <1>7 DEF Read, Over
<1>9. ASSUME Undisturbed', mutex = None PROVE Over(file, Blank) = want /\ Read(over, file) = want
  <2>1. Over(file, Blank) = want /\ Read(over, base) = want
    BY <1>5, <1>9 DEF IInv, Told
  <2> QED
    BY <1>7, <1>8, <2>1
<1>10. ASSUME NEW j \in Requests, Undisturbed', job[j].pc = "open"
       PROVE  Read(over, file) = Merged(j)
  <2>1. Over(file, Blank) = want /\ Prepared(j, file)
    BY <1>5, <1>10 DEF IInv, Told
  <2>2. DOMAIN Part(j) = job[j].diff /\ job[j].diff \subseteq DOMAIN over
    BY <2>1 DEF Part, Prepared
  <2>3. \A x \in Fields \ DOMAIN over : Merged(j)[x] = want[x]
    <3>1. Merged(j) = Over(Part(j), want)
      BY <2>1, OverAgain DEF Prepared
    <3> QED
      BY <1>6, <2>2, <3>1 DEF Over
  <2>4. \A x \in DOMAIN over : Read(over, file)[x] = Merged(j)[x]
    BY <1>6, <1>7, <2>1 DEF Prepared
  <2>5. \A x \in Fields : Read(over, file)[x] = Merged(j)[x]
    BY <1>7, <2>1, <2>3, <2>4
  <2>6. Merged(j) = [x \in Fields |-> Merged(j)[x]]
    BY <1>8, <2>1 DEF Prepared
  <2> QED
    BY <1>8, <2>5, <2>6
<1>11. Told'
  <2>1. \A k \in Requests : Merged(k)' = Merged(k) /\ Part(k)' = Part(k)
    BY <1>1 DEF Merged, Part, Set
  <2>2. Read(over, base)' = Read(over, file)
    BY <1>1 DEF Read
  <2>3. ASSUME NEW k \in Requests, Undisturbed', job[k].pc = "open"
        PROVE  Over(file, Blank) = want /\ Prepared(k, file)'
    BY <1>1, <1>5, <1>10, <2>1, <2>2, <2>3 DEF IInv, Told, Prepared
  <2>4. \A k \in Requests : job[k].pc = "fill" => file = Empty /\ cut'
    BY <1>5 DEF IInv, Told
  <2> QED
    BY <1>1, <1>9, <2>2, <2>3, <2>4 DEF Told
<1>12. InTurn'
  <2>1. \A k \in Requests : Panel(k)' = Panel(k) /\ Set(k)' = Set(k) /\ Given(k)' = Given(k)
    BY <1>1 DEF Panel, Set, Given
  <2> QED
    BY <1>1, <1>5, <2>1 DEF IInv, InTurn
<1> QED
  BY <1>2, <1>3, <1>11, <1>12 DEF IInv

LEMMA ReloadInv ==
    ASSUME IInv, Reload
    PROVE  IInv'
<1>1. /\ SettingsTypeOK /\ Requests' = Requests /\ plan' = plan /\ job' = job /\ mutex = None
      /\ UNCHANGED <<file, base, over, enforced, mutex, plan, job, edits, want, clean, cut, failures, restarts>>
  BY DEF IInv, Requests, Reload
<1>2. SettingsTypeOK'
  BY <1>1, ReadFull DEF SettingsTypeOK, Reload, Set, Requests
<1>3. Holding'
  BY <1>1 DEF Holding, Writing, IInv
<1>4. Told'
  BY <1>1 DEF IInv, Told, Undisturbed, Prepared, Read, Merged, Part, Set, Requests
<1>5. InTurn'
  <2>1. ASSUME clean, ~cut PROVE conf' = want
    BY <1>1, <2>1 DEF IInv, Holding, Told, Undisturbed, Reload
  <2>2. \A k \in Requests : Panel(k)' = Panel(k) /\ Set(k)' = Set(k) /\ Given(k)' = Given(k)
    BY <1>1 DEF Panel, Set, Given
  <2> QED
    BY <1>1, <2>1, <2>2 DEF IInv, InTurn
<1> QED
  BY <1>2, <1>3, <1>4, <1>5 DEF IInv

LEMMA RestartInv ==
    ASSUME IInv, Restart
    PROVE  IInv'
<1>1. /\ SettingsTypeOK /\ Requests' = Requests /\ plan' = plan /\ file' = file /\ edits' = edits /\ want' = want
      /\ cut' = cut /\ failures' = failures /\ over' = Empty /\ base' = file /\ mutex' = None
      /\ conf' = Over(file, Blank) /\ enforced' = conf' /\ (clean' => clean /\ ~Busy /\ enforced' = Valid(enforced'))
  BY DEF IInv, Requests, Restart
<1>2. \A k \in Requests : /\ job'[k].diff = job[k].diff /\ job'[k].old = job[k].old /\ job'[k].pc \in Ended
                          /\ job'[k] = [pc |-> job'[k].pc, diff |-> job'[k].diff, old |-> job'[k].old]
  BY <1>1 DEF Restart, SettingsTypeOK, Ended
<1>3. DOMAIN job' = Requests /\ job' = [k \in Requests |-> job'[k]]
  BY DEF Restart
<1>4. /\ (job = [k \in Requests |-> [pc |-> job[k].pc, diff |-> job[k].diff, old |-> job[k].old]])'
      /\ (\A k \in Requests : job[k].pc \in Pcs /\ job[k].diff \subseteq DOMAIN Set(k) /\ Partial(job[k].old))'
  BY <1>1, <1>2, <1>3 DEF SettingsTypeOK, Set, Ended, Pcs
<1>5. restarts' \in 0..MaxRestarts /\ clean' \in BOOLEAN
  BY <1>1, SettingsAssumption DEF Restart, SettingsTypeOK
<1>6. SettingsTypeOK'
  BY <1>1, <1>4, <1>5, ReadFull, EmptyPartial DEF SettingsTypeOK, Restart
<1>7. \A k \in Requests : job'[k].pc \notin {"open", "fill", "apply"}
  BY <1>2 DEF Ended
<1>8. Holding'
  BY <1>1, <1>7, PlanType DEF IInv, Holding, Writing
<1>9. ASSUME Undisturbed' PROVE Over(file, Blank) = want
  <2>1. Undisturbed
    BY <1>1, <1>9 DEF Undisturbed
  <2>2. \A k \in Requests : job[k].pc # "fill"
    <3>1. (\A k \in Requests : job[k].pc # "fill") \/ file = Empty
      BY DEF IInv, Told
    <3> QED
      BY <1>1, <1>9, <3>1 DEF Undisturbed, Busy
  <2>3. mutex = None \/ \E k \in Requests : job[k].pc = "open"
    BY <1>1, <2>2 DEF IInv, Holding, Writing, SettingsTypeOK
  <2> QED
    BY <2>1, <2>3 DEF IInv, Told
<1>10. Read(over, base)' = Over(file, Blank)
  BY <1>1, OverNothing DEF Read
<1>11. Told'
  BY <1>1, <1>7, <1>9, <1>10 DEF Told
<1>12. InTurn'
  BY <1>1, <1>2, <1>7, <1>9 DEF IInv, InTurn, Undisturbed, Holding
<1> QED
  BY <1>6, <1>8, <1>11, <1>12 DEF IInv

-----------------------------------------------------------------------------
LEMMA InitInv == SettingsInit => IInv
<1> SUFFICES ASSUME SettingsInit PROVE IInv
  OBVIOUS
<1>1. plan \in Plans /\ Requests = DOMAIN plan.req
  BY DEF SettingsInit, Requests
<1>2. /\ Partial(plan.file) /\ None \notin Requests /\ Partial(Blank) /\ DOMAIN Blank = Fields
      /\ MaxFailures \in Nat /\ MaxRestarts \in Nat
  BY <1>1, SettingsAssumption DEF Blank, Partial
<1>3. DOMAIN Over(file, Blank) = Fields
  BY <1>2, OverFull DEF SettingsInit, Partial
<1>4. /\ job = [j \in Requests |-> [pc |-> "new", diff |-> {}, old |-> Empty]]
      /\ \A j \in Requests : job[j] = [pc |-> "new", diff |-> {}, old |-> Empty]
  BY DEF SettingsInit, Requests
<1>5. SettingsTypeOK
  <2>1. /\ job = [j \in Requests |-> [pc |-> job[j].pc, diff |-> job[j].diff, old |-> job[j].old]]
        /\ \A j \in Requests : job[j].pc \in Pcs /\ job[j].diff \subseteq DOMAIN Set(j) /\ Partial(job[j].old)
    BY <1>4, EmptyPartial DEF Pcs
  <2>2. file = plan.file /\ base = plan.file /\ over = Empty /\ edits = plan.edits /\ clean \in BOOLEAN
    BY DEF SettingsInit
  <2>3. DOMAIN conf = Fields /\ DOMAIN enforced = Fields /\ DOMAIN want = Fields
    BY <1>3 DEF SettingsInit
  <2>4. Partial(file) /\ Partial(base) /\ Partial(over)
    BY <1>2, <2>2, EmptyPartial
  <2>5. mutex = None /\ timer = FALSE /\ cut = FALSE /\ failures \in 0..MaxFailures /\ restarts \in 0..MaxRestarts
    BY <1>2 DEF SettingsInit
  <2> QED
    BY <1>1, <2>1, <2>2, <2>3, <2>4, <2>5 DEF SettingsTypeOK
<1>6. Read(over, base) = Over(file, Blank)
  BY OverNothing DEF SettingsInit, Read
<1>7. Holding
  BY <1>2, <1>4 DEF SettingsInit, Holding, Writing
<1>8. Told
  BY <1>4, <1>6 DEF SettingsInit, Told
<1>9. InTurn
  <2>1. \A j \in Requests : job[j].pc \in Ended /\ job[j].pc # "apply"
    BY <1>4 DEF Ended
  <2>2. clean => conf = want /\ enforced = Valid(want)
    BY DEF SettingsInit
  <2> QED
    BY <2>1, <2>2 DEF InTurn
<1> QED
  BY <1>5, <1>7, <1>8, <1>9 DEF IInv

LEMMA StepInv == IInv /\ [SettingsNext]_settingsVars => IInv'
<1> SUFFICES ASSUME IInv, [SettingsNext]_settingsVars PROVE IInv'
  OBVIOUS
<1>1. ASSUME NEW j \in Requests, Request(j) PROVE IInv'
  BY <1>1, BeginInv, LockInv, OpenInv, FillInv, ApplyInv DEF Request
<1>2. CASE UNCHANGED settingsVars
  <2>1. Requests' = Requests /\ \A k \in Requests : Panel(k)' = Panel(k) /\ Set(k)' = Set(k) /\ Given(k)' = Given(k)
    BY <1>2 DEF settingsVars, Requests, Panel, Set, Given
  <2>2. SettingsTypeOK' /\ Holding'
    BY <1>2, <2>1 DEF settingsVars, IInv, SettingsTypeOK, Holding, Writing
  <2>3. Undisturbed' = Undisturbed /\ Read(over, base)' = Read(over, base)
    BY <1>2 DEF settingsVars, Undisturbed, Read
  <2>4. \A k \in Requests : Prepared(k, file)' = Prepared(k, file) /\ Prepared(k, job[k].old)' = Prepared(k, job[k].old)
    BY <1>2, <2>1, <2>3 DEF settingsVars, Prepared, Merged, Part
  <2>5. Told'
    BY <1>2, <2>1, <2>3, <2>4 DEF settingsVars, IInv, Told
  <2> QED
    BY <1>2, <2>1, <2>2, <2>5 DEF settingsVars, IInv, InTurn
<1> QED
  BY <1>1, <1>2, EditInv, WatchInv, ReloadInv, RestartInv DEF SettingsNext

THEOREM Invariance == SettingsSpec => []IInv
BY InitInv, StepInv, PTL DEF SettingsSpec

\* The copies of the settings, the requests and the file keep their types, for
\* any requests and edits.
THEOREM SettingsTypeCorrect == SettingsSpec => []SettingsTypeOK
<1>1. IInv => SettingsTypeOK
  BY DEF IInv
<1> QED
  BY <1>1, Invariance, PTL

\* Answered requests are in the file, however they overlap with each other and
\* with the watcher and whenever the relay restarts (UpdateMultipleSections,
\* safeWriteKeys).
THEOREM AnswersKept == SettingsSpec => []Kept
<1>1. IInv => Kept
  <2> SUFFICES ASSUME IInv, failures = 0, edits = plan.edits, ~cut, file # Empty PROVE Over(file, Blank) = want
    BY DEF Kept
  <2>1. Undisturbed
    BY DEF Undisturbed
  <2>2. \A j \in Requests : job[j].pc # "fill"
    BY DEF IInv, Told
  <2>3. mutex = None \/ \E j \in Requests : job[j].pc = "open"
    BY <2>2 DEF IInv, Holding, Writing, SettingsTypeOK
  <2> QED
    BY <2>1, <2>3 DEF IInv, Told
<1> QED
  BY <1>1, Invariance, PTL

\* Between whole requests in turn the configuration is what the file says, and
\* the relay admits what it says, made consistent.
THEOREM RelayFollows == SettingsSpec => []LiveFollows
<1>1. IInv => LiveFollows
  <2> SUFFICES ASSUME IInv, clean, ~cut, ~Busy PROVE conf = Over(file, Blank) /\ enforced = Valid(conf)
    BY DEF LiveFollows
  <2>1. \A j \in Requests : job[j].pc \notin {"open", "fill", "apply"}
    BY DEF Busy
  <2>2. mutex = None /\ Undisturbed
    BY <2>1 DEF IInv, Holding, Writing, SettingsTypeOK, Undisturbed
  <2> QED
    BY <2>1, <2>2 DEF IInv, Told, InTurn
<1> QED
  BY <1>1, Invariance, PTL
=============================================================================
