-------------------------------- MODULE Access --------------------------------
(***************************************************************************)
(* IsAllowed: may a key read from the relay, or write to it?  The settings *)
(* name a permission, which is looked up among owners, allowed users and   *)
(* paying ones, in that order and in as many queries; what comes out is    *)
(* remembered for TTL.  Meanwhile the panel changes all of these.          *)
(*                                                                         *)
(* Time is counted in ticks; a check that has begun ends within one, and   *)
(* the number of checks bounds how many a tick sees.                       *)
(***************************************************************************)
EXTENDS Naturals, FiniteSets

CONSTANTS
    Users,              \* keys, ordered as numbers
    Checks, Setters,    \* calls of IsAllowed, of SetRelayOwner
    Settings,           \* [read, write, priced]: levels, whether the tier has a price
    Start,              \* [settings, rows, paid]: the relay at the start
    TTL,                \* accessCacheTTL
    MaxTime, MaxMoves, MaxFaults    \* bounds: ticks, changes, queries that fail

VARIABLES
    now,
    live,               \* the levels of AccessControl
    priced,             \* whether the configuration puts a price on the tier
    rows,               \* allowed_users: "none", "read" (ReadOnly) or "write"
    paid,               \* paid_subscribers: last tick, 0 for none
    owners,             \* relay_owners
    cache,              \* accessCache: <<permission, mode, key>> -> [ok, until]
    check,              \* calls
    setter,             \* requests for a new owner
    change,             \* an update of the settings under way
    yes, no,            \* history: when each fact last held and last failed
    moves, faults

vars == <<now, live, priced, rows, paid, owners, cache, check, setter, change, yes, no, moves, faults>>
data == <<live, priced, rows, paid, owners, setter, change, moves>>

Modes  == {"read", "write"}
Levels == {"all_users", "paid_users", "allowed_users", "only-me"}
Rows   == {"none", "read", "write"}

ASSUME AccessAssumption ==
    /\ Users \subseteq Nat /\ TTL \in Nat \ {0} /\ MaxTime \in Nat /\ MaxMoves \in Nat /\ MaxFaults \in Nat
    /\ Settings \subseteq [read : Levels, write : Levels, priced : BOOLEAN]
    /\ Start \subseteq [settings : Settings, rows : [Users -> Rows], paid : [Users -> Nat]]

Facts == {"owner", "row", "writer", "paid"}
Idle  == [pc |-> "idle"]

-----------------------------------------------------------------------------
\* GetRelayOwner takes the first record.
Owner(u)  == u \in owners /\ \A o \in owners : u <= o
Row(mode) == IF mode = "write" THEN {"write"} ELSE {"read", "write"}

Holds(fact, u) ==
    CASE fact = "owner"  -> Owner(u)
      [] fact = "row"    -> rows[u] \in Row("read")
      [] fact = "writer" -> rows[u] \in Row("write")
      [] fact = "paid"   -> paid[u] >= now /\ priced

\* What was long ago need not be told apart.
Lately(last) == last + TTL > now + 1
Still(last)  == IF Lately(last) THEN last ELSE 0

\* What is true before a change was true until now.
Mark ==
    /\ yes' = [f \in Facts |-> [u \in Users |-> IF Holds(f, u) THEN now + 1 ELSE Still(yes[f][u])]]
    /\ no'  = [f \in Facts |-> [u \in Users |-> IF Holds(f, u) THEN Still(no[f][u]) ELSE now + 1]]

Init ==
    /\ now = TTL + 1 /\ \E s \in Start : live = s.settings /\ priced = s.settings.priced /\ rows = s.rows /\ paid = s.paid
    /\ owners = {} /\ cache = << >>
    /\ check = [c \in Checks |-> Idle] /\ setter = [s \in Setters |-> Idle] /\ change = Idle
    /\ yes = [f \in Facts |-> [u \in Users |-> 0]] /\ no = yes
    /\ moves = 0 /\ faults = 0

Fault == faults < MaxFaults /\ faults' = faults + 1
Move  == moves < MaxMoves /\ moves' = moves + 1

-----------------------------------------------------------------------------
Key(c)      == <<check[c].perm, check[c].mode, check[c].who>>
FreshMut(k) == k \in DOMAIN cache
Fresh(k)    == k \in DOMAIN cache /\ now < cache[k].until

\* CanRead and CanWrite take the level of the moment.
Begin(c) ==
    /\ check[c].pc = "idle"
    /\ \E mode \in Modes, u \in Users :
          LET perm == live[mode]
              k    == <<perm, mode, u>>
              as(pc, ok) == [pc |-> pc, perm |-> perm, mode |-> mode, who |-> u, ok |-> ok]
          IN check' = [check EXCEPT ![c] = IF perm = "all_users" THEN as("done", TRUE)
                                           ELSE IF Fresh(k) THEN as("done", cache[k].ok)
                                           ELSE as("owner", FALSE)]
    /\ UNCHANGED <<now, data, cache, yes, no, faults>>

To(c, pc, ok) == check' = [check EXCEPT ![c].pc = pc, ![c].ok = ok]

\* A query that fails counts as no owner, and as a refusal after that.
AskOwner(c) ==
    /\ check[c].pc = "owner"
    /\ LET next == IF check[c].perm = "only-me" THEN "store" ELSE "row"
       IN \/ To(c, IF Owner(check[c].who) THEN "store" ELSE next, Owner(check[c].who)) /\ UNCHANGED faults
          \/ Fault /\ To(c, next, FALSE)
    /\ UNCHANGED <<now, data, cache, yes, no>>

AskRow(c) ==
    /\ check[c].pc = "row"
    /\ LET ok == rows[check[c].who] \in Row(check[c].mode)
       IN \/ To(c, IF ok /\ check[c].perm = "paid_users" THEN "paid" ELSE "store", ok) /\ UNCHANGED faults
          \/ Fault /\ To(c, "store", FALSE)
    /\ UNCHANGED <<now, data, cache, yes, no>>

AskPaid(c) ==
    /\ check[c].pc = "paid"
    /\ \/ To(c, "store", Holds("paid", check[c].who)) /\ UNCHANGED faults
       \/ Fault /\ To(c, "store", FALSE)
    /\ UNCHANGED <<now, data, cache, yes, no>>

\* Whatever came out is remembered, a query that failed too.
Remember(c) ==
    /\ check[c].pc = "store" /\ To(c, "done", check[c].ok)
    /\ cache' = [k \in DOMAIN cache \cup {Key(c)} |->
                    IF k = Key(c) THEN [ok |-> check[c].ok, until |-> now + TTL] ELSE cache[k]]
    /\ UNCHANGED <<now, data, yes, no, faults>>

-----------------------------------------------------------------------------
\* The panel's requests.  None of them but Sweep touches what is remembered.
Allow ==
    /\ Move /\ Mark
    /\ \E u \in Users, row \in Rows : rows[u] # row /\ rows' = [rows EXCEPT ![u] = row]
    /\ UNCHANGED <<now, live, priced, paid, owners, cache, check, setter, change, faults>>

Pay ==
    /\ Move /\ Mark
    /\ \E u \in Users : paid' = [paid EXCEPT ![u] = MaxTime + TTL]
    /\ UNCHANGED <<now, live, priced, rows, owners, cache, check, setter, change, faults>>

\* SetRelayOwner deletes the records and creates one, in two steps.
Unset(s) ==
    /\ setter[s].pc = "idle" /\ Move /\ Mark /\ owners' = {}
    /\ \E u \in Users : setter' = [setter EXCEPT ![s] = [pc |-> "set", who |-> u]]
    /\ UNCHANGED <<now, live, priced, rows, paid, cache, check, change, faults>>

SetOwner(s) ==
    /\ setter[s].pc = "set" /\ Mark
    /\ owners' = owners \cup {setter[s].who} /\ setter' = [setter EXCEPT ![s] = Idle]
    /\ UNCHANGED <<now, live, priced, rows, paid, cache, check, change, moves, faults>>

RemoveOwner ==
    /\ owners # {} /\ Move /\ Mark /\ owners' = {}
    /\ UNCHANGED <<now, live, priced, rows, paid, cache, check, setter, change, faults>>

\* Settings: the configuration, the levels, and then the cache is emptied.
Save ==
    /\ change.pc = "idle" /\ Move /\ Mark
    /\ \E s \in Settings : change' = [pc |-> "level", s |-> s] /\ priced' = s.priced
    /\ UNCHANGED <<now, live, rows, paid, owners, cache, check, setter, faults>>

Level ==
    /\ change.pc = "level" /\ live' = change.s /\ change' = [pc |-> "sweep"]
    /\ UNCHANGED <<now, priced, rows, paid, owners, cache, check, setter, yes, no, moves, faults>>

Sweep ==
    /\ change.pc = "sweep" /\ cache' = << >> /\ change' = Idle
    /\ UNCHANGED <<now, live, priced, rows, paid, owners, check, setter, yes, no, moves, faults>>

Tick ==
    /\ now < MaxTime /\ \A c \in Checks : check[c].pc \in {"idle", "done"}
    /\ now' = now + 1 /\ Mark /\ check' = [c \in Checks |-> Idle] /\ UNCHANGED <<data, cache, faults>>

Next ==
    \/ \E c \in Checks : Begin(c) \/ AskOwner(c) \/ AskRow(c) \/ AskPaid(c) \/ Remember(c)
    \/ Allow \/ Pay \/ (\E s \in Setters : Unset(s) \/ SetOwner(s)) \/ RemoveOwner
    \/ Save \/ Level \/ Sweep \/ Tick

Spec == Init /\ [][Next]_vars

-----------------------------------------------------------------------------
Call   == [pc : {"owner", "row", "paid", "store", "done"}, perm : Levels, mode : Modes, who : Users, ok : BOOLEAN]
Dates  == [Facts -> [Users -> Nat]]

TypeOK ==
    /\ now \in Nat /\ live \in Settings /\ priced \in BOOLEAN /\ owners \subseteq Users
    /\ rows \in [Users -> Rows] /\ paid \in [Users -> Nat]
    /\ \A k \in DOMAIN cache : /\ k \in Levels \X Modes \X Users
                             /\ cache[k] \in [ok : BOOLEAN, until : 0..(now + TTL)]
    /\ check \in [Checks -> {Idle} \cup Call]
    /\ setter \in [Setters -> {Idle} \cup [pc : {"set"}, who : Users]]
    /\ change \in {Idle, [pc |-> "sweep"]} \cup [pc : {"level"}, s : Settings]
    /\ yes \in Dates /\ no \in Dates
    /\ moves \in 0..MaxMoves /\ faults \in 0..MaxFaults

\* Now, or since the answer could first have been remembered.
Was(f, c)    == Holds(f, check[c].who) \/ Lately(yes[f][check[c].who])
WasNot(f, c) == ~Holds(f, check[c].who) \/ Lately(no[f][check[c].who])
Entry(c)     == IF check[c].mode = "write" THEN "writer" ELSE "row"

\* An answer is at most TTL late: who was let in was the owner, or was listed
\* with the right to do this and, where that is asked for, paid up; and who was
\* refused lacked one of them, each within that time.  (Once a query has failed,
\* refusals are excused, whichever check it was in; and a check is taken to end
\* within a tick.)
Timely ==
    \A c \in Checks :
       check[c].pc = "done" /\ check[c].perm # "all_users" =>
          LET only == check[c].perm = "only-me"
              pays == check[c].perm = "paid_users"
          IN IF check[c].ok THEN Was("owner", c) \/ (~only /\ Was(Entry(c), c) /\ (pays => Was("paid", c)))
             ELSE \/ faults > 0
                  \/ WasNot("owner", c) /\ (only \/ WasNot(Entry(c), c) \/ (pays /\ WasNot("paid", c)))

-----------------------------------------------------------------------------
\* What comments say and the code does not do.
\* There is one owner.
OneOwner == Cardinality(owners) <= 1
\* Nothing is remembered from before a change of the users.
Dropped == [][\A u \in Users : rows[u] # "none" /\ rows'[u] = "none" =>
                \A k \in DOMAIN cache' : k[3] = u => ~cache'[k].ok]_vars
=============================================================================
