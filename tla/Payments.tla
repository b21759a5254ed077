------------------------------ MODULE Payments ------------------------------
(***************************************************************************)
(* From a wallet transaction to storage: ProcessWalletTransaction records  *)
(* the transaction, ProcessPayment turns satoshis and credit into tiers,   *)
(* and the subscriber's kind 11888 event, paid-subscriber record, credit   *)
(* balance and payment notification are updated one after the other, in    *)
(* different stores and under no common lock.  Uploads, logins and reads   *)
(* of the event rewrite the same event from goroutines of their own.       *)
(*                                                                         *)
(* One step is one access to a store.  A user has a single key spelling    *)
(* here, and owns the address the transaction pays to: AddressPool covers  *)
(* both.  Months stand for time; AddDate(0, n, 0) adds n.                  *)
(***************************************************************************)
EXTENDS Integers, Sequences

CONSTANTS
    Users, Workers, Txs,
    TxUser, TxSats,         \* who a transaction pays for, and how much
    Exact,                  \* transactions the wallet always sends with eight decimals
    Tiers, Price, Bytes,    \* the configured tiers
    Unlimited,              \* the tiers flagged unlimited
    MaxLimitBytes,          \* what an unlimited tier is worth in bytes
    FreeTier,
    NoUser, NoTx, NoPaid,
    MaxDeliveries,          \* bound: how often the wallet sends a transaction
    MaxUploads, MaxLogins, MaxReadBacks, MaxMonth, MaxRestarts

ASSUME TierAssumption ==
    /\ Price \in [Tiers -> Nat] /\ Bytes \in [Tiers -> Nat] /\ MaxLimitBytes \in Nat
    /\ FreeTier \in Tiers /\ Price[FreeTier] = 0 /\ Unlimited \subseteq Tiers
    /\ \E t \in Tiers : Price[t] > 0
\* The tiers are finitely many: among any of them one is the dearest.
ASSUME DearestAssumption ==
    \A S \in SUBSET Tiers : S # {} => \E t \in S : \A s \in S : Price[s] <= Price[t]
ASSUME TxAssumption ==
    /\ TxUser \in [Txs -> Users] /\ TxSats \in [Txs -> Nat]
    /\ NoUser \notin Users /\ NoTx \notin Txs /\ Exact \subseteq Txs

VARIABLES
    credit,     \* subscriber_addresses.credit_sats
    events,     \* kind 11888 events of each user, newest first
    paid,       \* the paid_subscribers table
    saved,      \* how many wallet_transactions rows a transaction has
    notes,      \* payment notifications
    month,      \* the clock
    job,        \* what each goroutine is doing
    received,   \* history: satoshis that reached ProcessPayment
    bought,     \* history: storage published against payment, and its price
    count       \* bounds: deliveries, uploads, logins, read-backs, restarts; events made

stores == <<credit, events, paid, saved, notes>>
vars == <<credit, events, paid, saved, notes, month, job, received, bought, count>>

Nothing == [sats |-> 0, bytes |-> 0]
Sale    == [sats : Nat, bytes : Nat]
FullBytes(t) == IF t \in Unlimited THEN MaxLimitBytes ELSE Bytes[t]
With(sale, t, n) == [sats |-> sale.sats + n * Price[t], bytes |-> sale.bytes + n * FullBytes(t)]
Sum(a, b) == [sats |-> a.sats + b.sats, bytes |-> a.bytes + b.bytes]

\* The tags of a kind 11888 event the payments depend on, and its identifier:
\* identifiers are counted, later events have higher ones.
FirstEvent == [id |-> 0, tier |-> FreeTier, exp |-> month + 1, used |-> 0,
               total |-> Bytes[FreeTier], credit |-> 0]

Idle == [pc |-> "idle", stage |-> "none", user |-> NoUser, tx |-> NoTx, seen |-> 0,
         high |-> FALSE, rem |-> 0, tier |-> FreeTier, pool |-> {}, found |-> {},
         base |-> 0, ev |-> [id |-> 0, tier |-> FreeTier, exp |-> 0, used |-> 0, total |-> 0, credit |-> 0],
         cart |-> Nothing]

PCs    == {"idle", "save", "total", "bank", "refresh", "reset", "read", "drop", "delete", "sign", "store",
           "paid", "cascade", "leftover", "apply", "charge", "final", "notify"}
Stages == {"none", "buy", "extra", "credit", "final", "refresh", "usage"}

Event == [id : Nat, tier : Tiers, exp : Nat, used : Nat, total : Nat, credit : Int]
Sats  == Int
Size  == Nat
Flag  == BOOLEAN
Pool  == SUBSET Tiers
Found == SUBSET Nat
MaybeUser == Users \cup {NoUser}
MaybeTx   == Txs \cup {NoTx}
Job   == [pc : PCs, stage : Stages, user : MaybeUser, tx : MaybeTx, seen : Sats,
          high : Flag, rem : Sats, tier : Tiers, pool : Pool, found : Found, base : Size, ev : Event,
          cart : Sale]
Count == [tx : [Txs -> Nat], upload : Nat, login : Nat, readback : Nat, restart : Nat, made : Nat]

TypeOK ==
    /\ credit \in [Users -> Int]
    /\ events \in [Users -> Seq(Event)]
    /\ \A u \in Users : paid[u] = NoPaid \/ paid[u] \in [tier : Tiers, exp : Nat, bytes : Nat]
    /\ saved \in [Txs -> Nat]
    /\ notes \subseteq [tx : Txs, isNew : BOOLEAN]
    /\ month \in Nat
    /\ job \in [Workers -> Job]
    /\ received \in [Users -> Nat]
    /\ bought \in [Users -> Sale]
    /\ count \in Count

\* Every user has logged in once: an address, a free tier, no payment.
Init ==
    /\ month = 0
    /\ credit = [u \in Users |-> 0]
    /\ events = [u \in Users |-> <<FirstEvent>>]
    /\ paid = [u \in Users |-> NoPaid]
    /\ saved = [t \in Txs |-> 0]
    /\ notes = {}
    /\ job = [w \in Workers |-> Idle]
    /\ received = [u \in Users |-> 0]
    /\ bought = [u \in Users |-> Nothing]
    /\ count = [tx |-> [t \in Txs |-> 0], upload |-> 0, login |-> 0, readback |-> 0, restart |-> 0,
                made |-> 0]

-----------------------------------------------------------------------------
(* Tier arithmetic.                                                         *)

Best(S) == CHOOSE t \in S : \A s \in S : Price[s] <= Price[t]

\* findMatchingTier: the dearest valid paid tier the amount covers.
Affordable(amount) ==
    {t \in Tiers : Price[t] > 0 /\ (Bytes[t] > 0 \/ t \in Unlimited) /\ Price[t] <= amount}

HighestTier == Best({t \in Tiers : Price[t] > 0})
AboveHighest(amount) == Price[HighestTier] < amount

\* The tiers a high payment's remainder may buy, each once.
LowerTiers ==
    {t \in Tiers : /\ Price[t] > 0
                   /\ ~(Bytes[t] = Bytes[HighestTier]
                        /\ (t \in Unlimited <=> HighestTier \in Unlimited))}

\* A running subscription is extended, an expired one starts today.
Extended(exp, n) == IF exp > month THEN exp + n ELSE month + n

\* Mutant: the new tier's storage replaces the old.
UpgradedMut(e, t) ==
    [e EXCEPT !.tier = t, !.exp = Extended(e.exp, 1), !.total = Bytes[t]]

\* The event after buying tier t at exactly its price, and after n periods of
\* the highest tier.
Upgraded(e, t)    == [e EXCEPT !.tier = t, !.exp = Extended(e.exp, 1), !.total = e.total + Bytes[t]]
Prolonged(e, t, n) == [e EXCEPT !.tier = t, !.exp = Extended(e.exp, n),
                                !.total = e.total + n * FullBytes(t)]

-----------------------------------------------------------------------------
(* Recording the transaction.                                               *)

At(w, pc)  == job[w].pc = pc
Go(w, rec) == job' = [job EXCEPT ![w] = rec]
User(w)    == job[w].user

\* Mutant: the transaction is never looked up.
KnownMut(tx, exact) == FALSE

\* TransactionExists looks for the row another delivery may have saved, under
\* the amount as the wallet spelled it; rows are saved with eight decimals, so
\* one spelled otherwise finds none.
Known(tx, exact) == exact /\ saved[tx] > 0

Deliver(w, tx, exact) ==
    /\ At(w, "idle")
    /\ tx \in Exact => exact
    /\ count.tx[tx] < MaxDeliveries
    /\ count' = [count EXCEPT !.tx[tx] = @ + 1]
    /\ Go(w, IF Known(tx, exact) THEN Idle
             ELSE [Idle EXCEPT !.pc = "save", !.tx = tx, !.user = TxUser[tx]])
    /\ UNCHANGED <<stores, month, received, bought>>

Save(w) ==
    /\ At(w, "save")
    /\ saved' = [saved EXCEPT ![job[w].tx] = @ + 1]
    /\ Go(w, [job[w] EXCEPT !.pc = "total"])
    /\ UNCHANGED <<credit, events, paid, notes, month, received, bought, count>>

-----------------------------------------------------------------------------
(* ProcessPayment.                                                          *)

\* Credit that is there counts towards this payment.
Funds(w) == job[w].rem + job[w].seen

\* Mutant: credit that was spent is not reset.
DecisionKeepMut(amount, seen) ==
    IF ~AboveHighest(amount) /\ Affordable(amount) = {} THEN "bank" ELSE "read"

\* What to do with the payment, from the credit read now.
Decision(amount, seen) ==
    IF ~AboveHighest(amount) /\ Affordable(amount) = {} THEN "bank"
    ELSE IF seen > 0 THEN "reset" ELSE "read"

Total(w) ==
    /\ At(w, "total")
    /\ LET u    == User(w)
           sats == TxSats[job[w].tx]
       IN  /\ sats > 0
           /\ Go(w, [job[w] EXCEPT !.pc = Decision(sats + credit[u], credit[u]), !.seen = credit[u],
                                   !.rem = sats])
           /\ received' = [received EXCEPT ![u] = @ + sats]
    /\ UNCHANGED <<stores, month, bought, count>>

RejectAmount(w) ==
    /\ At(w, "total")
    /\ TxSats[job[w].tx] = 0
    /\ Go(w, Idle)
    /\ UNCHANGED <<stores, month, received, bought, count>>

\* No tier: the payment is added to the credit read before.
BankedCredit(w) == job[w].seen + job[w].rem

Bank(w) ==
    /\ At(w, "bank")
    /\ credit' = [credit EXCEPT ![User(w)] = BankedCredit(w)]
    /\ Go(w, [job[w] EXCEPT !.pc = "refresh"])
    /\ UNCHANGED <<events, paid, saved, notes, month, received, bought, count>>

\* The newest event is rewritten so that it shows the credit.
Refresh(w) ==
    /\ At(w, "refresh")
    /\ LET es == events[User(w)]
       IN  Go(w, IF es = <<>> THEN [job[w] EXCEPT !.pc = "notify"]
                 ELSE [job[w] EXCEPT !.pc = "drop", !.stage = "refresh", !.ev = Head(es)])
    /\ UNCHANGED <<stores, month, received, bought, count>>

\* The credit is spent before the event is even found.
Reset(w) ==
    /\ At(w, "reset")
    /\ credit' = [credit EXCEPT ![User(w)] = 0]
    /\ Go(w, [job[w] EXCEPT !.pc = "read"])
    /\ UNCHANGED <<events, paid, saved, notes, month, received, bought, count>>

\* The purchase, worked out on the newest event.  A payment above the highest
\* price buys as many periods of the highest tier as it covers.
BuyHigh(j, e, amount) ==
    LET n == amount \div Price[HighestTier]
    IN  [j EXCEPT !.pc = "drop", !.stage = "buy", !.high = TRUE, !.tier = HighestTier,
                  !.rem = amount % Price[HighestTier], !.pool = LowerTiers,
                  !.ev = Prolonged(e, HighestTier, n), !.base = e.total + n * FullBytes(HighestTier),
                  !.cart = With(Nothing, HighestTier, n)]
\* Mutant: the subscriber is recorded before the event is rewritten.
BuyOneMut(j, e, amount) ==
    LET t == Best(Affordable(amount))
    IN  [j EXCEPT !.pc = "paid", !.stage = "buy", !.tier = t, !.rem = amount - Price[t],
                  !.ev = Upgraded(e, t), !.cart = With(Nothing, t, 1)]
BuyOne(j, e, amount) ==
    LET t == Best(Affordable(amount))
    IN  [j EXCEPT !.pc = "drop", !.stage = "buy", !.tier = t, !.rem = amount - Price[t],
                  !.ev = Upgraded(e, t), !.cart = With(Nothing, t, 1)]

Purchase(j, e, amount) ==
    IF AboveHighest(amount) THEN BuyHigh(j, e, amount) ELSE BuyOne(j, e, amount)

Read(w) ==
    /\ At(w, "read")
    /\ LET es == events[User(w)]
       IN  Go(w, IF es = <<>> THEN Idle  \* "no NIP-88 event found for user"
                 ELSE Purchase(job[w], Head(es), Funds(w)))
    /\ UNCHANGED <<stores, month, received, bought, count>>

-----------------------------------------------------------------------------
(* createOrUpdateNIP88Event: find all events of the user, delete them one   *)
(* by one, read the credit for the tag, store the new event.                *)

\* Mutant: a credit refresh only deletes.
DroppedMut(j) == IF j.stage = "refresh" THEN [j EXCEPT !.pc = "notify"] ELSE [j EXCEPT !.pc = "sign"]
Dropped(j) == [j EXCEPT !.pc = "sign"]

Ids(es) == {es[i].id : i \in DOMAIN es}

Drop(w) ==
    /\ At(w, "drop")
    /\ Go(w, IF events[User(w)] = <<>> THEN Dropped(job[w])
             ELSE [job[w] EXCEPT !.pc = "delete", !.found = Ids(events[User(w)])])
    /\ UNCHANGED <<stores, month, received, bought, count>>

\* The newest event found goes first; it may be gone already.
Without(es, k)  == [i \in 1..(Len(es) - 1) |-> es[IF i < k THEN i ELSE i + 1]]
Deleted(es, id) == IF id \in Ids(es) THEN Without(es, CHOOSE k \in DOMAIN es : es[k].id = id)
                   ELSE es
Newest(ids)     == CHOOSE n \in ids : \A m \in ids : m <= n

Delete(w) ==
    /\ At(w, "delete")
    /\ LET j    == job[w]
           id   == Newest(j.found)
           left == [j EXCEPT !.found = j.found \ {id}]
       IN  /\ events' = [events EXCEPT ![User(w)] = Deleted(@, id)]
           /\ Go(w, IF left.found = {} THEN Dropped(left) ELSE left)
    /\ UNCHANGED <<credit, paid, saved, notes, month, received, bought, count>>

Sign(w) ==
    /\ At(w, "sign")
    /\ Go(w, [job[w] EXCEPT !.pc = "store", !.ev.credit = credit[User(w)]])
    /\ UNCHANGED <<stores, month, received, bought, count>>

\* Mutant: the storage of the cascade is not recorded.
AfterStoreMut(stage) ==
    CASE stage \in {"buy", "credit"}               -> "paid"
      [] stage = "extra"                         -> "leftover"
      [] stage \in {"refresh", "final"}           -> "notify"
      [] OTHER                                  -> "idle"
AfterStore(stage) ==
    CASE stage \in {"buy", "extra", "credit"} -> "paid"
      [] stage \in {"refresh", "final"}       -> "notify"
      [] OTHER                                -> "idle"

\* A job that ends forgets everything.
Continue(j, pc) == IF pc = "idle" THEN Idle ELSE [j EXCEPT !.pc = pc, !.cart = Nothing]

Made(ev, n) == [ev EXCEPT !.id = n]

Store(w) ==
    /\ At(w, "store")
    /\ events' = [events EXCEPT ![User(w)] = <<Made(job[w].ev, count.made + 1)>> \o @]
    /\ bought' = [bought EXCEPT ![User(w)] = Sum(@, job[w].cart)]
    /\ count' = [count EXCEPT !.made = @ + 1]
    /\ Go(w, Continue(job[w], AfterStore(job[w].stage)))
    /\ UNCHANGED <<credit, paid, saved, notes, month, received>>

-----------------------------------------------------------------------------
(* The paid-subscriber record and the remainder.                            *)

\* Mutant: a remainder is forgotten.
SettleMut(j) == IF j.high THEN "final" ELSE "notify"
Settle(j) == IF j.rem > 0 THEN "leftover" ELSE IF j.high THEN "final" ELSE "notify"

AfterPaid(j) ==
    CASE j.stage = "credit"                             -> "charge"
      [] j.stage = "buy" /\ j.high /\ j.rem > 0         -> "cascade"
      [] OTHER                                          -> Settle(j)

PaidRecord(j) == [tier |-> j.ev.tier, exp |-> j.ev.exp, bytes |-> j.ev.total]

RecordPaid(w) ==
    /\ At(w, "paid")
    /\ paid' = [paid EXCEPT ![User(w)] = PaidRecord(job[w])]
    /\ Go(w, [job[w] EXCEPT !.pc = AfterPaid(job[w])])
    /\ UNCHANGED <<credit, events, saved, notes, month, received, bought, count>>

\* The loop over the lower tiers, dearest first: the dearest one not yet
\* taken that the remainder covers is bought; the others never will be.
InReach(j) == {t \in j.pool : Price[t] <= j.rem}
Take(j, t) == [j EXCEPT !.rem = j.rem - Price[t], !.pool = j.pool \ {t},
                        !.ev.total = j.ev.total + FullBytes(t), !.cart = With(j.cart, t, 1)]

Cascade(w) ==
    /\ At(w, "cascade")
    /\ LET j == job[w]
       IN  Go(w, IF InReach(j) # {} THEN Take(j, Best(InReach(j)))
                 ELSE IF j.ev.total > j.base THEN [j EXCEPT !.pc = "drop", !.stage = "extra"]
                 ELSE [j EXCEPT !.pc = Settle(j)])
    /\ UNCHANGED <<stores, month, received, bought, count>>

Leftover(w) ==
    /\ At(w, "leftover")
    /\ credit' = [credit EXCEPT ![User(w)] = job[w].rem]
    /\ Go(w, [job[w] EXCEPT !.pc = "apply"])
    /\ UNCHANGED <<events, paid, saved, notes, month, received, bought, count>>

\* checkAndApplyCredit: the credit buys the dearest tier it covers; the event
\* is rewritten first, the credit charged after.
BuyOnCredit(j, t, c) ==
    [j EXCEPT !.pc = "drop", !.stage = "credit", !.seen = c, !.cart = With(Nothing, t, 1),
              !.ev.tier = t, !.ev.total = j.ev.total + FullBytes(t)]

Apply(w) ==
    /\ At(w, "apply")
    /\ LET c == credit[User(w)]
       IN  Go(w, IF Affordable(c) = {} THEN [job[w] EXCEPT !.pc = "final"]
                 ELSE BuyOnCredit(job[w], Best(Affordable(c)), c))
    /\ UNCHANGED <<stores, month, received, bought, count>>

\* Mutant: the price of the main tier is charged.
RemainingMut(j) == j.seen - Price[j.tier]
Remaining(j) == j.seen - Price[j.ev.tier]
AfterCharge(j) == IF Remaining(j) > 0 THEN "apply" ELSE "final"

Charge(w) ==
    /\ At(w, "charge")
    /\ credit' = [credit EXCEPT ![User(w)] = Remaining(job[w])]
    /\ Go(w, [job[w] EXCEPT !.pc = AfterCharge(job[w])])
    /\ UNCHANGED <<events, paid, saved, notes, month, received, bought, count>>

\* Credit that is left shows in one more event, under the main tier again.
Final(w) ==
    /\ At(w, "final")
    /\ Go(w, IF credit[User(w)] > 0
             THEN [job[w] EXCEPT !.pc = "drop", !.stage = "final", !.ev.tier = job[w].tier]
             ELSE [job[w] EXCEPT !.pc = "notify"])
    /\ UNCHANGED <<stores, month, received, bought, count>>

\* The notification is made last, from the record the payment has written.
IsNewSubscriber(u) == paid[u] = NoPaid

Notify(w) ==
    /\ At(w, "notify")
    /\ notes' = notes \cup {[tx |-> job[w].tx, isNew |-> IsNewSubscriber(User(w))]}
    /\ Go(w, Idle)
    /\ UNCHANGED <<credit, events, paid, saved, month, received, bought, count>>

-----------------------------------------------------------------------------
(* Other goroutines that rewrite the event.                                 *)

\* UpdateStorageUsage: read the event, then replace it.
Upload(w, u) ==
    /\ At(w, "idle") /\ count.upload < MaxUploads
    /\ events[u] # <<>>
    /\ count' = [count EXCEPT !.upload = @ + 1]
    /\ Go(w, [Idle EXCEPT !.pc = "drop", !.stage = "usage", !.user = u,
                          !.ev = [Head(events[u]) EXCEPT !.used = @ + 1]])
    /\ UNCHANGED <<stores, month, received, bought>>

\* createNIP88EventIfNotExists at login: check, then store.
Login(w, u) ==
    /\ At(w, "idle") /\ count.login < MaxLogins
    /\ events[u] = <<>>
    /\ count' = [count EXCEPT !.login = @ + 1]
    /\ Go(w, [Idle EXCEPT !.pc = "sign", !.stage = "usage", !.user = u, !.ev = FirstEvent])
    /\ UNCHANGED <<stores, month, received, bought>>

\* CheckAndUpdateSubscriptionEvent on an event read back by its owner, when
\* the event is older than the settings: the tier expected in subscription
\* mode is the free tier, and the copy is stored over the old event.
ExpectedTier == FreeTier
Outdated(e) == e.tier # ExpectedTier \/ e.total = 0
Expected(e) == [e EXCEPT !.tier = ExpectedTier, !.exp = IF e.exp < month THEN month + 1 ELSE e.exp,
                         !.total = IF e.total < FullBytes(ExpectedTier) THEN FullBytes(ExpectedTier)
                                   ELSE e.total]

ReadBack(w, u) ==
    /\ At(w, "idle") /\ count.readback < MaxReadBacks
    /\ events[u] # <<>> /\ Outdated(Head(events[u]))
    /\ count' = [count EXCEPT !.readback = @ + 1]
    /\ Go(w, [Idle EXCEPT !.pc = "sign", !.stage = "usage", !.user = u,
                          !.ev = Expected(Head(events[u]))])
    /\ UNCHANGED <<stores, month, received, bought>>

-----------------------------------------------------------------------------
Tick ==
    /\ month < MaxMonth
    /\ month' = month + 1
    /\ UNCHANGED <<stores, job, received, bought, count>>

\* The process stops: the goroutines are gone, the stores stay.
Restart ==
    /\ count.restart < MaxRestarts
    /\ count' = [count EXCEPT !.restart = @ + 1]
    /\ job' = [w \in Workers |-> Idle]
    /\ UNCHANGED <<stores, month, received, bought>>

Step(w) ==
    \/ Save(w) \/ Total(w) \/ RejectAmount(w) \/ Bank(w) \/ Refresh(w) \/ Reset(w) \/ Read(w)
    \/ Drop(w) \/ Delete(w) \/ Sign(w) \/ Store(w) \/ RecordPaid(w) \/ Cascade(w) \/ Leftover(w)
    \/ Apply(w) \/ Charge(w) \/ Final(w) \/ Notify(w)

Next ==
    \/ \E w \in Workers, tx \in Txs, exact \in BOOLEAN : Deliver(w, tx, exact)
    \/ \E w \in Workers : Step(w)
    \/ \E w \in Workers, u \in Users : Upload(w, u) \/ Login(w, u) \/ ReadBack(w, u)
    \/ Tick
    \/ Restart

Spec == Init /\ [][Next]_vars

-----------------------------------------------------------------------------
(* Properties that hold however the goroutines interleave.                  *)

\* createOrUpdateNIP88Event leaves a user without an event only while the
\* goroutine that deleted it is about to store the next one (no crash).
Restoring(u) == \E w \in Workers : User(w) = u /\ job[w].pc \in {"delete", "sign", "store"}
EventNeverLost == \A u \in Users : events[u] # <<>> \/ Restoring(u)

\* Nobody is recorded as a paid subscriber before storage was published for a
\* paid tier: the record follows the event.
PaidIsPublished ==
    \A u \in Users : paid[u] # NoPaid => bought[u].sats > 0

\* No balance in the credit table goes below zero, although goroutines charge
\* what they read before the others wrote.
CreditNeverNegative == \A u \in Users : credit[u] >= 0

-----------------------------------------------------------------------------
(* Properties of payments handled one at a time.                            *)

AtRest      == \A w \in Workers : At(w, "idle")
Undisturbed == AtRest /\ count.restart = 0

\* Every satoshi is either credit or storage: none is lost in the branches,
\* the cascade, the leftover and the repeated use of credit.  "Credit used to
\* purchase additional storage when threshold reached": none that could buy a
\* tier is left lying.
SatsConserved ==
    Undisturbed => \A u \in Users :
        received[u] = credit[u] + bought[u].sats /\ Affordable(credit[u]) = {}

\* The event promises all the storage that was bought, on top of the free
\* tier: rewrites by uploads, logins and credit refreshes lose nothing.
StorageAccumulates ==
    Undisturbed => \A u \in Users :
        events[u] # <<>> => Head(events[u]).total >= Bytes[FreeTier] + bought[u].bytes

\* The two records of a subscription, written minutes of code apart, agree on
\* the storage, and the event does not expire first.
RecordsAgree ==
    Undisturbed => \A u \in Users :
        paid[u] # NoPaid /\ events[u] # <<>> =>
            /\ Head(events[u]).total = paid[u].bytes
            /\ Head(events[u]).exp >= paid[u].exp

\* A transaction that the wallet sends again with the amount spelled as it is
\* saved is not credited again, whether the first delivery was finished, is cut
\* off by a crash or is followed by others.
OncePerTx == \A tx \in Exact : saved[tx] <= 1

\* Not so for every transaction ("transaction already processed"): one whose
\* amount is spelled otherwise is recorded with every delivery.
AlreadyProcessed == \A tx \in Txs : saved[tx] <= 1

\* A crash costs the relay at most one tier each: the one whose storage was
\* published on credit that had not been charged yet.
CrashCostsOneTier ==
    AtRest => \A u \in Users :
        credit[u] + bought[u].sats <= received[u] + count.restart * Price[HighestTier]
=============================================================================
