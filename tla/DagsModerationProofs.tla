------------------------ MODULE DagsModerationProofs ------------------------
(***************************************************************************)
(* Theorems of Dags and of Moderation.  Of Dags, for any DAGs, keys,       *)
(* streams and plans of clients: what an upload acknowledged is complete,  *)
(* owned and served.  Of Moderation: a failed event stays hidden as long   *)
(* as it is stored, unless a crash interrupts its own clean-up, and no     *)
(* crash or interleaving makes a queue entry, a resolution or a            *)
(* HasDispute flag refer to a dispute that was never on record, or that    *)
(* anybody but its author took off it.                                     *)
(***************************************************************************)
EXTENDS Dags, Moderation, TLAPS

-----------------------------------------------------------------------------
(* Dags *)

\* An upload that has stored its first packet has stored what it sent, the
\* root among it, and its key owns the root or the DAG was given up.
Stored(s) ==
    /\ up[s].sent \subseteq leaves
    /\ up[s].pc = "new" => up[s].i = 1
    /\ up[s].pc = "packet" /\ up[s].i = 1 => Root(s) \in Job(s).packets[1]
    /\ (up[s].pc = "packet" /\ up[s].i > 1)
       \/ up[s].pc \in {"answer", "read", "missing", "partial", "verify", "relate", "label", "done"}
       => /\ Root(s) \in up[s].sent
          /\ <<Root(s), Key(s)>> \in own \/ Root(s) \in lost

\* The search for what was not sent: unless something lacks, what has been
\* looked at is stored, and its children were sent, looked at, or are to be.
Walked(s) ==
    /\ up[s].pc \in {"new", "packet", "answer", "read", "missing"} => up[s].seen = {} /\ ~up[s].lack
    /\ up[s].pc = "partial" /\ ~up[s].lack =>
          /\ up[s].seen \subseteq leaves
          /\ \A l \in up[s].sent \cup up[s].seen : Links[l] \subseteq up[s].sent \cup up[s].seen \cup up[s].todo
    /\ up[s].pc \in {"verify", "relate", "label", "done"} => Complete(Root(s))

\* Without failures the caches are there before the answer, and go after the
\* DAG was given up.
Cached(s) ==
    /\ up[s].pc = "forget" => Root(s) \in lost
    /\ faults = 0 /\ up[s].pc \in {"label", "done"} => Root(s) \in lost \cup rel
    /\ faults = 0 /\ up[s].pc = "done" => Root(s) \in lost \cup lab

AckedCached == faults = 0 => \A x \in acked : x[1] \in lost \/ x[1] \in rel \cap lab

\* A download that may expect an answer.
Expected(d) ==
    /\ down[d].safe => \E k \in Keys : <<Wish(d).root, k>> \in acked
    /\ faults = 0 /\ down[d].pc = "failed" /\ down[d].safe =>
          Wish(d).root \in lost \/ ~(Wish(d).leaves \subseteq Reach[Wish(d).root])

IInv ==
    /\ DagTypeOK
    /\ \A s \in Uploads : Stored(s)
    /\ \A s \in Uploads : Walked(s)
    /\ \A s \in Uploads : Cached(s)
    /\ AckedComplete
    /\ OwnersRight
    /\ AckedCached
    /\ \A d \in Downloads : Expected(d)

-----------------------------------------------------------------------------
(* Of the data *)

\* A closed set with the root holds all leaves of the DAG.
LEMMA ReachLeast ==
    ASSUME NEW root \in Leaves, NEW S \in SUBSET Leaves, root \in S, Closed(S)
    PROVE  Reach[root] \subseteq S
BY DEF Reach

LEMMA ReachRoot ==
    ASSUME NEW root \in Leaves
    PROVE  root \in Reach[root] /\ Reach[root] \subseteq Leaves
BY DEF Reach

LEMMA JobType ==
    ASSUME DagTypeOK, NEW s \in Uploads
    PROVE  /\ Root(s) \in Leaves /\ Key(s) \in Keys
           /\ Job(s).packets \in Seq(SUBSET Leaves) /\ 1 \in 1..Len(Job(s).packets)
BY PlanAssumption DEF DagTypeOK, Root, Key, Job

LEMMA WishType ==
    ASSUME DagTypeOK, NEW d \in Downloads
    PROVE  /\ Wish(d).root \in Leaves /\ Wish(d).leaves \subseteq Leaves
           /\ Wish(d).how \in {"all", "hashes", "labels"}
BY PlanAssumption DEF DagTypeOK, Wish

LEMMA MoveType ==
    ASSUME DagTypeOK, NEW m \in moves
    PROVE  m[2] \in Leaves /\ m[3] \in Keys /\ m \in {"claim", "release"} \X Leaves \X Keys
BY PlanAssumption DEF DagTypeOK

\* A step of an upload keeps the types of all uploads.
NextRec(s) == up' = [up EXCEPT ![s] = up'[s]] /\ up'[s] \in UpRec /\ up'[s].i \in 1..Len(Job(s).packets)

LEMMA ThenType ==
    ASSUME DagTypeOK, NEW s \in Uploads, NextRec(s), plan' = plan
    PROVE  up' \in [Uploads -> UpRec] /\ \A t \in Uploads : up'[t].i \in 1..Len(Job(t).packets)'
BY DEF DagTypeOK, Job, NextRec

LEMMA RecType ==
    ASSUME DagTypeOK, NEW s \in Uploads, NEW next \in UpRec, next.i \in 1..Len(Job(s).packets), Then(s, next)
    PROVE  NextRec(s)
BY DEF DagTypeOK, Then, NextRec

LEMMA GotoType ==
    ASSUME DagTypeOK, NEW s \in Uploads, NEW pc \in UpPcs, Goto(s, pc)
    PROVE  NextRec(s)
<1>1. up[s] \in UpRec /\ up[s].i \in 1..Len(Job(s).packets)
  BY DEF DagTypeOK
<1>2. [up[s] EXCEPT !.pc = pc] \in UpRec /\ [up[s] EXCEPT !.pc = pc].i = up[s].i
  BY <1>1 DEF UpRec
<1> QED
  BY <1>1, <1>2, RecType DEF Goto

\* So does a step of a download.
LEMMA ToType ==
    ASSUME DagTypeOK, NEW d \in Downloads, down' = [down EXCEPT ![d] = down'[d]], down'[d] \in DownRec
    PROVE  down' \in [Downloads -> DownRec]
BY DEF DagTypeOK

LEMMA TypeNext ==
    ASSUME DagTypeOK, [DagNext]_dagVars
    PROVE  DagTypeOK'
<1>Start. ASSUME NEW s \in Uploads, Start(s) PROVE DagTypeOK'
  <2>1. NextRec(s)
    BY <1>Start, GotoType DEF Start, UpPcs
  <2>2. plan' = plan /\ down' = down
    BY <1>Start DEF Start, store
  <2>3. up' \in [Uploads -> UpRec] /\ \A t \in Uploads : up'[t].i \in 1..Len(Job(t).packets)'
    BY <2>1, <2>2, ThenType
  <2> QED
    BY <1>Start, <2>2, <2>3, JobType DEF Start, DagTypeOK, store, Fault
<1>Packet. ASSUME NEW s \in Uploads, Packet(s) PROVE DagTypeOK'
  <2>r. up[s] \in UpRec /\ up[s].i \in 1..Len(Job(s).packets)
    BY DEF DagTypeOK
  <2> DEFINE packet == Job(s).packets[up[s].i]
             stop == IF up[s].i = Len(Job(s).packets) /\ Job(s).final /\ up[s].i = 1 THEN "missing" ELSE "answer"
             next == [up[s] EXCEPT !.pc = stop, !.sent = @ \cup packet]
  <2>p. packet \subseteq Leaves
    BY <2>r, JobType
  <2>n. next \in UpRec /\ next.i = up[s].i
    BY <2>r, <2>p DEF UpRec, UpPcs
  <2>f. Failed(s) \in UpPcs
    BY DEF Failed, UpPcs
  <2>1. NextRec(s)
    <3>1. CASE Goto(s, Failed(s))
      BY <3>1, <2>f, GotoType
    <3>2. CASE Then(s, next)
      BY <3>2, <2>r, <2>n, RecType
    <3> QED
      BY <1>Packet, <3>1, <3>2 DEF Packet
  <2>2. plan' = plan /\ down' = down
    BY <1>Packet DEF Packet, store
  <2>3. up' \in [Uploads -> UpRec] /\ \A t \in Uploads : up'[t].i \in 1..Len(Job(t).packets)'
    BY <2>1, <2>2, ThenType
  <2> QED
    BY <1>Packet, <2>2, <2>3, JobType DEF Packet, DagTypeOK, store, Fault, Owns
<1>Answer. ASSUME NEW s \in Uploads, Answer(s) PROVE DagTypeOK'
  <2>1. NextRec(s)
    BY <1>Answer, GotoType DEF Answer, UpPcs
  <2>2. plan' = plan /\ down' = down
    BY <1>Answer DEF Answer, store
  <2>3. up' \in [Uploads -> UpRec] /\ \A t \in Uploads : up'[t].i \in 1..Len(Job(t).packets)'
    BY <2>1, <2>2, ThenType
  <2> QED
    BY <1>Answer, <2>2, <2>3, JobType DEF Answer, DagTypeOK, store, Fault
<1>Read. ASSUME NEW s \in Uploads, Read(s) PROVE DagTypeOK'
  <2>r. up[s] \in UpRec /\ up[s].i \in 1..Len(Job(s).packets)
    BY DEF DagTypeOK
  <2> DEFINE next == [up[s] EXCEPT !.pc = "packet", !.i = @ + 1]
  <2>1. NextRec(s)
    <3>1. CASE up[s].i < Len(Job(s).packets) /\ Then(s, next)
      <4>a. up[s].i + 1 \in 1..Len(Job(s).packets)
        BY <3>1, <2>r, JobType
      <4>b. next \in UpRec /\ next.i = up[s].i + 1
        <5>1. up[s].i + 1 \in Nat /\ "packet" \in UpPcs /\ up[s] \in UpRec
          BY <2>r, <4>a DEF UpPcs
        <5>2. next = [up[s] EXCEPT !.pc = "packet", !.i = up[s].i + 1]
          OBVIOUS
        <5> HIDE DEF next
        <5> QED
          BY <5>1, <5>2 DEF UpRec
      <4>1. next \in UpRec /\ next.i \in 1..Len(Job(s).packets)
        BY <4>a, <4>b
      <4> QED
        BY <3>1, <4>1, RecType
    <3>2. CASE Goto(s, "undo")
      BY <3>2, GotoType DEF UpPcs
    <3> QED
      BY <1>Read, <3>1, <3>2 DEF Read
  <2>2. plan' = plan /\ down' = down
    BY <1>Read DEF Read, store
  <2>3. up' \in [Uploads -> UpRec] /\ \A t \in Uploads : up'[t].i \in 1..Len(Job(t).packets)'
    BY <2>1, <2>2, ThenType
  <2> QED
    BY <1>Read, <2>2, <2>3, JobType DEF Read, DagTypeOK, store, Fault
<1>Missing. ASSUME NEW s \in Uploads, Missing(s) PROVE DagTypeOK'
  <2>r. up[s] \in UpRec /\ up[s].i \in 1..Len(Job(s).packets)
    BY DEF DagTypeOK
  <2> DEFINE refs == (UNION {Links[l] : l \in up[s].sent}) \ up[s].sent
             next == [up[s] EXCEPT !.todo = refs, !.pc = IF refs = {} THEN "verify" ELSE "partial"]
  <2>p. refs \subseteq Leaves
    BY <2>r, DagAssumption DEF UpRec
  <2>n. next \in UpRec /\ next.i = up[s].i
    BY <2>r, <2>p DEF UpRec, UpPcs
  <2>1. NextRec(s)
    BY <1>Missing, <2>r, <2>n, RecType DEF Missing
  <2>2. plan' = plan /\ down' = down
    BY <1>Missing DEF Missing, store
  <2>3. up' \in [Uploads -> UpRec] /\ \A t \in Uploads : up'[t].i \in 1..Len(Job(t).packets)'
    BY <2>1, <2>2, ThenType
  <2> QED
    BY <1>Missing, <2>2, <2>3, JobType DEF Missing, DagTypeOK, store, Fault
<1>Partial. ASSUME NEW s \in Uploads, Partial(s) PROVE DagTypeOK'
  <2>r. up[s] \in UpRec /\ up[s].i \in 1..Len(Job(s).packets)
    BY DEF DagTypeOK
  <2>1. NextRec(s)
    <3>1. CASE up[s].todo = {}
      BY <1>Partial, <3>1, GotoType DEF Partial, UpPcs
    <3>2. CASE up[s].todo # {}
      <4>1. PICK l \in up[s].todo :
               Then(s, [up[s] EXCEPT !.seen = @ \cup {l}, !.lack = @ \/ l \notin leaves,
                            !.todo = (@ \ {l}) \cup IF l \in leaves THEN More(s, l) ELSE {}])
        BY <1>Partial, <3>2 DEF Partial
      <4> DEFINE next == [up[s] EXCEPT !.seen = @ \cup {l}, !.lack = @ \/ l \notin leaves,
                            !.todo = (@ \ {l}) \cup IF l \in leaves THEN More(s, l) ELSE {}]
      <4>2. l \in Leaves /\ More(s, l) \subseteq Leaves
        BY <2>r, DagAssumption DEF UpRec, More
      <4>3. next \in UpRec /\ next.i = up[s].i
        BY <2>r, <4>2 DEF UpRec
      <4> QED
        BY <2>r, <4>1, <4>3, RecType
    <3> QED
      BY <3>1, <3>2
  <2>2. plan' = plan /\ down' = down
    BY <1>Partial DEF Partial, store
  <2>3. up' \in [Uploads -> UpRec] /\ \A t \in Uploads : up'[t].i \in 1..Len(Job(t).packets)'
    BY <2>1, <2>2, ThenType
  <2> QED
    BY <1>Partial, <2>2, <2>3, JobType DEF Partial, DagTypeOK, store, Fault
<1>Verify. ASSUME NEW s \in Uploads, Verify(s) PROVE DagTypeOK'
  <2>1. NextRec(s)
    BY <1>Verify, GotoType DEF Verify, UpPcs
  <2>2. plan' = plan /\ down' = down
    BY <1>Verify DEF Verify, store
  <2>3. up' \in [Uploads -> UpRec] /\ \A t \in Uploads : up'[t].i \in 1..Len(Job(t).packets)'
    BY <2>1, <2>2, ThenType
  <2> QED
    BY <1>Verify, <2>2, <2>3, JobType DEF Verify, DagTypeOK, store, Fault
<1>Relate. ASSUME NEW s \in Uploads, Relate(s) PROVE DagTypeOK'
  <2>1. NextRec(s)
    BY <1>Relate, GotoType DEF Relate, UpPcs
  <2>2. plan' = plan /\ down' = down
    BY <1>Relate DEF Relate, store
  <2>3. up' \in [Uploads -> UpRec] /\ \A t \in Uploads : up'[t].i \in 1..Len(Job(t).packets)'
    BY <2>1, <2>2, ThenType
  <2> QED
    BY <1>Relate, <2>2, <2>3, JobType DEF Relate, DagTypeOK, store, Fault
<1>Label. ASSUME NEW s \in Uploads, Label(s) PROVE DagTypeOK'
  <2>1. NextRec(s)
    BY <1>Label, GotoType DEF Label, UpPcs
  <2>2. plan' = plan /\ down' = down
    BY <1>Label DEF Label, store
  <2>3. up' \in [Uploads -> UpRec] /\ \A t \in Uploads : up'[t].i \in 1..Len(Job(t).packets)'
    BY <2>1, <2>2, ThenType
  <2> QED
    BY <1>Label, <2>2, <2>3, JobType DEF Label, DagTypeOK, store, Fault, Labelled
<1>Finish. ASSUME NEW s \in Uploads, Finish(s) PROVE DagTypeOK'
  <2>1. NextRec(s)
    BY <1>Finish, GotoType DEF Finish, UpPcs
  <2>2. plan' = plan /\ down' = down
    BY <1>Finish DEF Finish, store
  <2>3. up' \in [Uploads -> UpRec] /\ \A t \in Uploads : up'[t].i \in 1..Len(Job(t).packets)'
    BY <2>1, <2>2, ThenType
  <2> QED
    BY <1>Finish, <2>2, <2>3, JobType DEF Finish, DagTypeOK, store, Fault
<1>Undo. ASSUME NEW s \in Uploads, Undo(s) PROVE DagTypeOK'
  <2>1. NextRec(s)
    BY <1>Undo, GotoType DEF Undo, UpPcs
  <2>2. plan' = plan /\ down' = down
    BY <1>Undo DEF Undo, store
  <2>3. up' \in [Uploads -> UpRec] /\ \A t \in Uploads : up'[t].i \in 1..Len(Job(t).packets)'
    BY <2>1, <2>2, ThenType
  <2> QED
    BY <1>Undo, <2>2, <2>3, JobType DEF Undo, DagTypeOK, store, Fault
<1>Forget. ASSUME NEW s \in Uploads, Forget(s) PROVE DagTypeOK'
  <2>1. NextRec(s)
    BY <1>Forget, GotoType DEF Forget, UpPcs
  <2>2. plan' = plan /\ down' = down
    BY <1>Forget DEF Forget, store
  <2>3. up' \in [Uploads -> UpRec] /\ \A t \in Uploads : up'[t].i \in 1..Len(Job(t).packets)'
    BY <2>1, <2>2, ThenType
  <2> QED
    BY <1>Forget, <2>2, <2>3, JobType DEF Forget, DagTypeOK, store, Fault
<1>Leave. ASSUME NEW s \in Uploads, Leave(s) PROVE DagTypeOK'
  <2>1. NextRec(s)
    BY <1>Leave, GotoType DEF Leave, UpPcs
  <2>2. plan' = plan /\ down' = down
    BY <1>Leave DEF Leave, store
  <2>3. up' \in [Uploads -> UpRec] /\ \A t \in Uploads : up'[t].i \in 1..Len(Job(t).packets)'
    BY <2>1, <2>2, ThenType
  <2> QED
    BY <1>Leave, <2>2, <2>3, JobType DEF Leave, DagTypeOK, store, Fault, Freed
<1>Ask. ASSUME NEW d \in Downloads, Ask(d) PROVE DagTypeOK'
  <2>1. down \in [Downloads -> DownRec]
    BY DEF DagTypeOK
  <2>2. down' = [down EXCEPT ![d] = down'[d]] /\ down'[d] \in DownRec
    BY <1>Ask, <2>1, WishType, ReachRoot DEF Ask, To, DownRec, DownPcs
  <2>3. down' \in [Downloads -> DownRec]
    BY <2>2, ToType
  <2> QED
    BY <1>Ask, <2>3, WishType DEF Ask, DagTypeOK, Job, store, To
<1>All. ASSUME NEW d \in Downloads, All(d) PROVE DagTypeOK'
  <2>1. down \in [Downloads -> DownRec]
    BY DEF DagTypeOK
  <2>2. down' = [down EXCEPT ![d] = down'[d]] /\ down'[d] \in DownRec
    BY <1>All, <2>1, WishType, ReachRoot DEF All, To, DownRec, DownPcs
  <2>3. down' \in [Downloads -> DownRec]
    BY <2>2, ToType
  <2> QED
    BY <1>All, <2>3, WishType DEF All, DagTypeOK, Job, store, To
<1>Labels. ASSUME NEW d \in Downloads, Labels(d) PROVE DagTypeOK'
  <2>1. down \in [Downloads -> DownRec]
    BY DEF DagTypeOK
  <2>2. down' = [down EXCEPT ![d] = down'[d]] /\ down'[d] \in DownRec
    BY <1>Labels, <2>1, WishType, ReachRoot DEF Labels, To, DownRec, DownPcs
  <2>3. down' \in [Downloads -> DownRec]
    BY <2>2, ToType
  <2> QED
    BY <1>Labels, <2>3, WishType DEF Labels, DagTypeOK, Job, store, To
<1>Hashes. ASSUME NEW d \in Downloads, Hashes(d) PROVE DagTypeOK'
  <2>1. down \in [Downloads -> DownRec]
    BY DEF DagTypeOK
  <2>2. down' = [down EXCEPT ![d] = down'[d]] /\ down'[d] \in DownRec
    BY <1>Hashes, <2>1, WishType, ReachRoot DEF Hashes, To, DownRec, DownPcs
  <2>3. down' \in [Downloads -> DownRec]
    BY <2>2, ToType
  <2> QED
    BY <1>Hashes, <2>3, WishType DEF Hashes, DagTypeOK, Job, store, To
<1>Index. ASSUME NEW d \in Downloads, Index(d) PROVE DagTypeOK'
  <2>1. down \in [Downloads -> DownRec]
    BY DEF DagTypeOK
  <2>2. down' = [down EXCEPT ![d] = down'[d]] /\ down'[d] \in DownRec
    BY <1>Index, <2>1, WishType, ReachRoot DEF Index, To, DownRec, DownPcs
  <2>3. down' \in [Downloads -> DownRec]
    BY <2>2, ToType
  <2> QED
    BY <1>Index, <2>3, WishType DEF Index, DagTypeOK, Job, store, To
<1>Walk. ASSUME NEW d \in Downloads, Walk(d) PROVE DagTypeOK'
  <2>1. down \in [Downloads -> DownRec]
    BY DEF DagTypeOK
  <2>2. down' = [down EXCEPT ![d] = down'[d]] /\ down'[d] \in DownRec
    BY <1>Walk, <2>1, WishType, ReachRoot DEF Walk, To, DownRec, DownPcs
  <2>3. down' \in [Downloads -> DownRec]
    BY <2>2, ToType
  <2> QED
    BY <1>Walk, <2>3, WishType DEF Walk, DagTypeOK, Job, store, To
<1>Claim. CASE Claim
    BY <1>Claim, MoveType DEF Claim, DagTypeOK, Job, Claimable
<1>Release. CASE Release
    BY <1>Release, MoveType DEF Release, DagTypeOK, Job
<1>Stutter. CASE UNCHANGED dagVars
    BY <1>Stutter DEF dagVars, DagTypeOK, Job
<1> QED
  BY <1>Start, <1>Packet, <1>Answer, <1>Read, <1>Missing, <1>Partial, <1>Verify, <1>Relate, <1>Label, <1>Finish, <1>Undo, <1>Forget, <1>Leave, <1>Ask, <1>All, <1>Labels, <1>Hashes, <1>Index, <1>Walk, <1>Claim, <1>Release, <1>Stutter DEF DagNext, UploadStep, DownloadStep

-----------------------------------------------------------------------------
(* What a step leaves alone *)

LEMMA GotoRec ==
    ASSUME DagTypeOK, NEW s \in Uploads, NEW pc, Goto(s, pc)
    PROVE  /\ up'[s].pc = pc /\ up'[s].i = up[s].i /\ up'[s].sent = up[s].sent
           /\ up'[s].todo = up[s].todo /\ up'[s].seen = up[s].seen /\ up'[s].lack = up[s].lack
<1>1. up'[s] = [up[s] EXCEPT !.pc = pc] /\ up[s] \in UpRec
  BY DEF Goto, Then, DagTypeOK
<1> QED
  BY <1>1 DEF UpRec

LEMMA TheOthers ==
    ASSUME DagTypeOK, NEW s \in Uploads, UploadStep(s)
    PROVE  /\ plan' = plan /\ down' = down
           /\ \A t \in Uploads \ {s} : up'[t] = up[t]
<1> USE DEF DagTypeOK, Then, Goto, store
<1>Start. CASE Start(s)
  BY <1>Start DEF Start
<1>Packet. CASE Packet(s)
  BY <1>Packet DEF Packet
<1>Answer. CASE Answer(s)
  BY <1>Answer DEF Answer
<1>Read. CASE Read(s)
  BY <1>Read DEF Read
<1>Missing. CASE Missing(s)
  BY <1>Missing DEF Missing
<1>Partial. CASE Partial(s)
  BY <1>Partial DEF Partial
<1>Verify. CASE Verify(s)
  BY <1>Verify DEF Verify
<1>Relate. CASE Relate(s)
  BY <1>Relate DEF Relate
<1>Label. CASE Label(s)
  BY <1>Label DEF Label
<1>Finish. CASE Finish(s)
  BY <1>Finish DEF Finish
<1>Undo. CASE Undo(s)
  BY <1>Undo DEF Undo
<1>Forget. CASE Forget(s)
  BY <1>Forget DEF Forget
<1>Leave. CASE Leave(s)
  BY <1>Leave DEF Leave
<1> QED
  BY <1>Start, <1>Packet, <1>Answer, <1>Read, <1>Missing, <1>Partial, <1>Verify, <1>Relate, <1>Label, <1>Finish, <1>Undo, <1>Forget, <1>Leave DEF UploadStep

LEMMA OthersDown ==
    ASSUME DagTypeOK, NEW d \in Downloads, DownloadStep(d)
    PROVE  /\ plan' = plan /\ up' = up /\ leaves' = leaves /\ own' = own /\ lab' = lab /\ rel \subseteq rel'
           /\ acked' = acked /\ lost' = lost /\ faults' = faults
           /\ \A e \in Downloads \ {d} : down'[e] = down[e]
<1> USE DEF DagTypeOK, To, store
<1>Ask. CASE Ask(d)
  BY <1>Ask DEF Ask
<1>All. CASE All(d)
  BY <1>All DEF All
<1>Labels. CASE Labels(d)
  BY <1>Labels DEF Labels
<1>Hashes. CASE Hashes(d)
  BY <1>Hashes DEF Hashes
<1>Index. CASE Index(d)
  BY <1>Index DEF Index
<1>Walk. CASE Walk(d)
  BY <1>Walk DEF Walk
<1> QED
  BY <1>Ask, <1>All, <1>Labels, <1>Hashes, <1>Index, <1>Walk DEF DownloadStep

\* Leaves are never removed; an owner and what is cached go only with a DAG
\* that was given up.
Grown ==
    /\ plan' = plan /\ leaves \subseteq leaves' /\ lost \subseteq lost' /\ acked \subseteq acked'
    /\ faults' = 0 => faults = 0
    /\ \A x \in own : x \in own' \/ x[1] \in lost'
    /\ rel \subseteq rel' \cup lost' /\ lab \subseteq lab' \cup lost'

LEMMA Grows ==
    ASSUME IInv, [DagNext]_dagVars
    PROVE  Grown
<1>t. DagTypeOK /\ \A s \in Uploads : Cached(s)
  BY DEF IInv
<1>f. Fault => faults' # 0
  BY <1>t DEF DagTypeOK, Fault
<1>Start. ASSUME NEW s \in Uploads, Start(s) PROVE Grown
  BY <1>Start, <1>f DEF Start, Grown, store
<1>Packet. ASSUME NEW s \in Uploads, Packet(s) PROVE Grown
  BY <1>Packet, <1>t, <1>f DEF Packet, Grown, store, Cached
<1>Answer. ASSUME NEW s \in Uploads, Answer(s) PROVE Grown
  BY <1>Answer, <1>f DEF Answer, Grown, store
<1>Read. ASSUME NEW s \in Uploads, Read(s) PROVE Grown
  BY <1>Read, <1>f DEF Read, Grown, store
<1>Missing. ASSUME NEW s \in Uploads, Missing(s) PROVE Grown
  BY <1>Missing, <1>f DEF Missing, Grown, store
<1>Partial. ASSUME NEW s \in Uploads, Partial(s) PROVE Grown
  BY <1>Partial, <1>f DEF Partial, Grown, store
<1>Verify. ASSUME NEW s \in Uploads, Verify(s) PROVE Grown
  BY <1>Verify, <1>f DEF Verify, Grown, store
<1>Relate. ASSUME NEW s \in Uploads, Relate(s) PROVE Grown
  BY <1>Relate, <1>t, <1>f DEF Relate, Grown, store, Cached
<1>Label. ASSUME NEW s \in Uploads, Label(s) PROVE Grown
  BY <1>Label, <1>t, <1>f DEF Label, Grown, store, Cached
<1>Finish. ASSUME NEW s \in Uploads, Finish(s) PROVE Grown
  BY <1>Finish, <1>f DEF Finish, Grown, store
<1>Undo. ASSUME NEW s \in Uploads, Undo(s) PROVE Grown
  BY <1>Undo, <1>t, <1>f DEF Undo, Grown, store, Cached
<1>Forget. ASSUME NEW s \in Uploads, Forget(s) PROVE Grown
  BY <1>Forget, <1>t, <1>f DEF Forget, Grown, store, Cached
<1>Leave. ASSUME NEW s \in Uploads, Leave(s) PROVE Grown
  BY <1>Leave, <1>f DEF Leave, Grown, store
<1>Down. ASSUME NEW d \in Downloads, DownloadStep(d) PROVE Grown
  BY <1>Down, <1>t, OthersDown DEF Grown
<1>Claim. CASE Claim
  BY <1>Claim DEF Claim, Grown
<1>Release. CASE Release
  <2>1. PICK m \in moves : own' = own \ {<<m[2], m[3]>>} /\ lost' = lost \cup {m[2]}
    BY <1>Release DEF Release
  <2>2. \A x \in own : x \in own' \/ x[1] \in lost'
    BY <2>1
  <2> QED
    BY <1>Release, <2>2 DEF Release, Grown
<1>Stutter. CASE UNCHANGED dagVars
  BY <1>Stutter DEF dagVars, Grown
<1> QED
  BY <1>Start, <1>Packet, <1>Answer, <1>Read, <1>Missing, <1>Partial, <1>Verify, <1>Relate, <1>Label, <1>Finish, <1>Undo, <1>Forget, <1>Leave, <1>Down, <1>Claim, <1>Release, <1>Stutter DEF DagNext, UploadStep

LEMMA CompleteGrows ==
    ASSUME Grown, NEW root, Complete(root)
    PROVE  Complete(root)'
BY DEF Grown, Complete

LEMMA SameJob ==
    ASSUME Grown, NEW s
    PROVE  Job(s)' = Job(s) /\ Root(s)' = Root(s) /\ Key(s)' = Key(s)
BY DEF Grown, Job, Root, Key

\* An upload that does not move stays what it is.
LEMMA Rests ==
    ASSUME IInv, Grown, NEW s \in Uploads, up'[s] = up[s]
    PROVE  Stored(s)' /\ Walked(s)' /\ Cached(s)'
<1>1. Stored(s) /\ Walked(s) /\ Cached(s)
  BY DEF IInv
<1>2. Stored(s)'
  BY <1>1, SameJob DEF Grown, Stored
<1>3. Walked(s)'
  BY <1>1, SameJob, CompleteGrows DEF Grown, Walked
<1>4. Cached(s)'
  BY <1>1, SameJob DEF Grown, Cached
<1> QED
  BY <1>2, <1>3, <1>4

-----------------------------------------------------------------------------
(* A step of an upload *)

LEMMA StoredNext ==
    ASSUME IInv, Grown, NEW s \in Uploads, UploadStep(s)
    PROVE  Stored(s)'
<1>1. DagTypeOK /\ Stored(s)
  BY DEF IInv
<1>2. up[s] \in UpRec /\ up[s].i \in 1..Len(Job(s).packets) /\ 1 \in 1..Len(Job(s).packets)
  BY <1>1, JobType DEF DagTypeOK
<1>3. Job(s)' = Job(s) /\ Root(s)' = Root(s) /\ Key(s)' = Key(s)
  BY SameJob
<1>4. leaves \subseteq leaves' /\ (<<Root(s), Key(s)>> \in own \/ Root(s) \in lost =>
                                   <<Root(s), Key(s)>> \in own' \/ Root(s) \in lost')
  BY DEF Grown
<1>k. ASSUME NEW pc, Goto(s, pc), pc \notin {"new", "packet"}, pc \in {"answer", "read", "missing", "partial", "verify",
             "relate", "label", "done"} => up[s].pc \in {"answer", "read", "missing", "partial", "verify",
             "relate", "label", "done"}
      PROVE  Stored(s)'
  <2>1. up'[s].pc = pc /\ up'[s].i = up[s].i /\ up'[s].sent = up[s].sent
    BY <1>k, <1>1, GotoRec
  <2> QED
    BY <1>k, <1>1, <1>3, <1>4, <2>1 DEF Stored
<1>Start. CASE Start(s)
  <2>1. CASE Goto(s, "over")
    BY <2>1, <1>k
  <2>2. CASE Goto(s, "leave")
    BY <2>2, <1>k
  <2>3. CASE Goto(s, "packet") /\ Root(s) \in Job(s).packets[1]
    <3>1. up'[s].pc = "packet" /\ up'[s].i = up[s].i /\ up'[s].sent = up[s].sent
      BY <2>3, <1>1, GotoRec
    <3>2. up[s].i = 1
      BY <1>1, <1>Start DEF Stored, Start
    <3> QED
      BY <2>3, <3>1, <3>2, <1>1, <1>3, <1>4 DEF Stored
  <2> QED
    BY <1>Start, <2>1, <2>2, <2>3 DEF Start
<1>Packet. CASE Packet(s)
  <2> DEFINE packet == Job(s).packets[up[s].i]
             stop == IF up[s].i = Len(Job(s).packets) /\ Job(s).final /\ up[s].i = 1 THEN "missing" ELSE "answer"
  <2>1. CASE Goto(s, Failed(s))
    BY <2>1, <1>k DEF Failed
  <2>2. CASE /\ leaves' = leaves \cup packet /\ own' = own \cup Owns(s, packet)
             /\ up' = [up EXCEPT ![s] = [up[s] EXCEPT !.pc = stop, !.sent = @ \cup packet]]
    <3>1. up'[s] = [up[s] EXCEPT !.pc = stop, !.sent = @ \cup packet]
      BY <2>2, <1>1 DEF DagTypeOK
    <3>2. up'[s].pc \in {"missing", "answer"} /\ up'[s].sent = up[s].sent \cup packet
      BY <3>1, <1>2 DEF UpRec
    <3>3. Root(s) \in up'[s].sent /\ (<<Root(s), Key(s)>> \in own' \/ Root(s) \in lost')
      <4>1. CASE up[s].i = 1
        BY <4>1, <1>1, <1>Packet, <2>2, <3>2 DEF Stored, Owns, Packet
      <4>2. CASE up[s].i # 1
        <5>1. up[s].i > 1
          BY <4>2, <1>2
        <5> QED
          BY <5>1, <1>1, <1>4, <1>Packet, <3>2 DEF Stored, Packet
      <4> QED
        BY <4>1, <4>2
    <3> QED
      BY <1>1, <1>3, <2>2, <3>2, <3>3 DEF Stored
  <2> QED
    BY <1>Packet, <2>1, <2>2 DEF Packet, Then
<1>Answer. CASE Answer(s)
  BY <1>Answer, <1>k DEF Answer
<1>Read. CASE Read(s)
  <2>1. CASE up[s].i < Len(Job(s).packets) /\ Then(s, [up[s] EXCEPT !.pc = "packet", !.i = @ + 1])
    <3>1. up'[s] = [up[s] EXCEPT !.pc = "packet", !.i = up[s].i + 1]
      BY <2>1, <1>1 DEF DagTypeOK, Then
    <3>2. up'[s].pc = "packet" /\ up'[s].i = up[s].i + 1 /\ up'[s].sent = up[s].sent
      BY <3>1, <1>2 DEF UpRec
    <3>3. up'[s].i # 1
      BY <3>2, <1>2
    <3> QED
      BY <1>1, <1>3, <1>4, <1>Read, <3>2, <3>3 DEF Stored, Read
  <2> QED
    BY <1>Read, <2>1, <1>k DEF Read
<1>Missing. CASE Missing(s)
  <2>1. up'[s].pc \in {"verify", "partial"} /\ up'[s].sent = up[s].sent /\ up'[s].i = up[s].i
    BY <1>Missing, <1>1, <1>2 DEF Missing, Then, DagTypeOK, UpRec
  <2> QED
    BY <1>Missing, <1>1, <1>3, <1>4, <2>1 DEF Stored, Missing
<1>Partial. CASE Partial(s)
  <2>1. CASE up[s].todo = {}
    BY <1>Partial, <2>1, <1>k DEF Partial
  <2>2. CASE up[s].todo # {}
    <3>0. PICK l \in up[s].todo :
             up'[s] = [up[s] EXCEPT !.seen = @ \cup {l}, !.lack = @ \/ l \notin leaves,
                          !.todo = (@ \ {l}) \cup IF l \in leaves THEN More(s, l) ELSE {}]
      BY <1>Partial, <2>2, <1>1 DEF Partial, Then, DagTypeOK
    <3>1. up'[s].pc = up[s].pc /\ up'[s].sent = up[s].sent /\ up'[s].i = up[s].i
      BY <3>0, <1>2 DEF UpRec
    <3> QED
      BY <1>Partial, <1>1, <1>3, <1>4, <3>1 DEF Stored, Partial
  <2> QED
    BY <2>1, <2>2
<1>Verify. CASE Verify(s)
  BY <1>Verify, <1>k DEF Verify
<1>Relate. CASE Relate(s)
  BY <1>Relate, <1>k DEF Relate
<1>Label. CASE Label(s)
  BY <1>Label, <1>k DEF Label
<1>Finish. CASE Finish(s)
  BY <1>Finish, <1>k DEF Finish
<1>Undo. CASE Undo(s)
  BY <1>Undo, <1>k DEF Undo
<1>Forget. CASE Forget(s)
  BY <1>Forget, <1>k DEF Forget
<1>Leave. CASE Leave(s)
  BY <1>Leave, <1>k DEF Leave
<1> QED
  BY <1>Start, <1>Packet, <1>Answer, <1>Read, <1>Missing, <1>Partial, <1>Verify, <1>Relate, <1>Label, <1>Finish, <1>Undo, <1>Forget, <1>Leave DEF UploadStep

\* The root and all that the leaves sent refer to is stored: the DAG is complete.
LEMMA ClosedIsComplete ==
    ASSUME NEW root \in Leaves, NEW S \in SUBSET Leaves, root \in S, Closed(S), S \subseteq leaves
    PROVE  Complete(root)
BY ReachLeast DEF Complete

LEMMA WalkedNext ==
    ASSUME IInv, Grown, NEW s \in Uploads, UploadStep(s)
    PROVE  Walked(s)'
<1>1. DagTypeOK /\ Stored(s) /\ Walked(s)
  BY DEF IInv
<1>2. up[s] \in UpRec /\ Root(s) \in Leaves /\ leaves \subseteq Leaves
  BY <1>1, JobType DEF DagTypeOK
<1>3. Root(s)' = Root(s) /\ leaves \subseteq leaves' /\ (Complete(Root(s)) => Complete(Root(s))')
  BY SameJob, CompleteGrows DEF Grown
<1>k. ASSUME NEW pc, Goto(s, pc),
             pc \in {"new", "packet", "answer", "read", "missing"}
                => up[s].pc \in {"new", "packet", "answer", "read", "missing"},
             pc = "partial" => FALSE,
             pc \in {"verify", "relate", "label", "done"} => Complete(Root(s))
      PROVE  Walked(s)'
  <2>1. up'[s].pc = pc /\ up'[s].seen = up[s].seen /\ up'[s].lack = up[s].lack
    BY <1>k, <1>1, GotoRec
  <2> QED
    BY <1>k, <1>1, <1>3, <2>1 DEF Walked
<1>Start. CASE Start(s)
  BY <1>Start, <1>k DEF Start
<1>Packet. CASE Packet(s)
  <2> DEFINE packet == Job(s).packets[up[s].i]
             stop == IF up[s].i = Len(Job(s).packets) /\ Job(s).final /\ up[s].i = 1 THEN "missing" ELSE "answer"
  <2>1. CASE Goto(s, Failed(s))
    BY <2>1, <1>k DEF Failed
  <2>2. CASE up' = [up EXCEPT ![s] = [up[s] EXCEPT !.pc = stop, !.sent = @ \cup packet]]
    <3>1. up'[s] = [up[s] EXCEPT !.pc = stop, !.sent = @ \cup packet]
      BY <2>2, <1>1 DEF DagTypeOK
    <3>2. up'[s].pc \in {"missing", "answer"} /\ up'[s].seen = up[s].seen /\ up'[s].lack = up[s].lack
      BY <3>1, <1>2 DEF UpRec
    <3> QED
      BY <1>1, <1>Packet, <3>2 DEF Walked, Packet
  <2> QED
    BY <1>Packet, <2>1, <2>2 DEF Packet, Then
<1>Answer. CASE Answer(s)
  BY <1>Answer, <1>k DEF Answer
<1>Read. CASE Read(s)
  <2>1. CASE Then(s, [up[s] EXCEPT !.pc = "packet", !.i = @ + 1])
    <3>1. up'[s].pc = "packet" /\ up'[s].seen = up[s].seen /\ up'[s].lack = up[s].lack
      BY <2>1, <1>1, <1>2 DEF DagTypeOK, Then, UpRec
    <3> QED
      BY <1>1, <1>Read, <3>1 DEF Walked, Read
  <2> QED
    BY <1>Read, <2>1, <1>k DEF Read
<1>Missing. CASE Missing(s)
  <2> DEFINE refs == (UNION {Links[l] : l \in up[s].sent}) \ up[s].sent
  <2>1. up'[s] = [up[s] EXCEPT !.todo = refs, !.pc = IF refs = {} THEN "verify" ELSE "partial"]
    BY <1>Missing, <1>1 DEF Missing, Then, DagTypeOK
  <2>2. /\ up'[s].pc = IF refs = {} THEN "verify" ELSE "partial"
        /\ up'[s].todo = refs /\ up'[s].sent = up[s].sent /\ up'[s].seen = {} /\ ~up'[s].lack
    BY <2>1, <1>1, <1>2, <1>Missing DEF UpRec, Walked, Missing
  <2>3. \A l \in up[s].sent : Links[l] \subseteq up[s].sent \cup refs
    OBVIOUS
  <2> HIDE DEF refs
  <2>4. CASE refs = {}
    <3>1. Complete(Root(s))
      BY <2>3, <2>4, <1>1, <1>2, <1>Missing, ClosedIsComplete DEF Closed, Stored, Missing
    <3> QED
      BY <2>2, <2>4, <3>1, <1>3 DEF Walked, Complete
  <2>5. CASE refs # {}
    BY <2>2, <2>3, <2>5, <1>3 DEF Walked
  <2> QED
    BY <2>4, <2>5
<1>Partial. CASE Partial(s)
  <2>1. CASE up[s].todo = {} /\ up[s].lack
    BY <1>Partial, <2>1, <1>k DEF Partial
  <2>2. CASE up[s].todo = {} /\ ~up[s].lack
    <3> DEFINE S == up[s].sent \cup up[s].seen
    <3>1. S \subseteq leaves /\ Root(s) \in S /\ Closed(S)
      BY <1>Partial, <2>2, <1>1 DEF Partial, Stored, Walked, Closed
    <3>2. Complete(Root(s))
      BY <3>1, <1>2, ClosedIsComplete
    <3> QED
      BY <1>Partial, <2>2, <3>2, <1>k DEF Partial
  <2>3. CASE up[s].todo # {}
    <3>1. PICK l \in up[s].todo :
             up'[s] = [up[s] EXCEPT !.seen = @ \cup {l}, !.lack = @ \/ l \notin leaves,
                          !.todo = (@ \ {l}) \cup IF l \in leaves THEN More(s, l) ELSE {}]
      BY <1>Partial, <2>3, <1>1 DEF Partial, Then, DagTypeOK
    <3>2. /\ up'[s].pc = "partial" /\ up'[s].sent = up[s].sent /\ up'[s].seen = up[s].seen \cup {l}
          /\ up'[s].lack = (up[s].lack \/ l \notin leaves)
          /\ up'[s].todo = (up[s].todo \ {l}) \cup IF l \in leaves THEN More(s, l) ELSE {}
      BY <3>1, <1>2, <1>Partial DEF UpRec, Partial
    <3>3. CASE up[s].lack \/ l \notin leaves
      BY <3>2, <3>3 DEF Walked
    <3>4. CASE ~up[s].lack /\ l \in leaves
      <4>1. up'[s].seen \subseteq leaves'
        BY <3>2, <3>4, <1>1, <1>3, <1>Partial DEF Walked, Partial
      <4>2. ASSUME NEW k \in up'[s].sent \cup up'[s].seen
            PROVE  Links[k] \subseteq up'[s].sent \cup up'[s].seen \cup up'[s].todo
        <5>1. CASE k = l
          BY <5>1, <3>2, <3>4 DEF More
        <5>2. CASE k # l
          <6>1. Links[k] \subseteq up[s].sent \cup up[s].seen \cup up[s].todo
            BY <5>2, <4>2, <3>2, <3>4, <1>1, <1>Partial DEF Walked, Partial
          <6> QED
            BY <6>1, <3>2
        <5> QED
          BY <5>1, <5>2
      <4> QED
        BY <4>1, <4>2, <3>2 DEF Walked
    <3> QED
      BY <3>3, <3>4
  <2> QED
    BY <2>1, <2>2, <2>3
<1>Verify. CASE Verify(s)
  BY <1>Verify, <1>k, <1>1 DEF Verify, Walked
<1>Relate. CASE Relate(s)
  BY <1>Relate, <1>k, <1>1 DEF Relate, Walked
<1>Label. CASE Label(s)
  BY <1>Label, <1>k, <1>1 DEF Label, Walked
<1>Finish. CASE Finish(s)
  BY <1>Finish, <1>k, <1>1 DEF Finish, Walked
<1>Undo. CASE Undo(s)
  BY <1>Undo, <1>k, <1>1 DEF Undo, Walked
<1>Forget. CASE Forget(s)
  BY <1>Forget, <1>k, <1>1 DEF Forget, Walked
<1>Leave. CASE Leave(s)
  BY <1>Leave, <1>k, <1>1 DEF Leave, Walked
<1> QED
  BY <1>Start, <1>Packet, <1>Answer, <1>Read, <1>Missing, <1>Partial, <1>Verify, <1>Relate, <1>Label, <1>Finish, <1>Undo, <1>Forget, <1>Leave DEF UploadStep

LEMMA CachedNext ==
    ASSUME IInv, Grown, NEW s \in Uploads, UploadStep(s)
    PROVE  Cached(s)'
<1>1. DagTypeOK /\ Walked(s) /\ Cached(s)
  BY DEF IInv
<1>2. Root(s)' = Root(s) /\ lost \subseteq lost' /\ rel \subseteq rel' \cup lost' /\ lab \subseteq lab' \cup lost'
  BY SameJob DEF Grown
<1>3. (faults' = 0 => faults = 0) /\ (Fault => faults' # 0)
  BY <1>1 DEF Grown, Fault, DagTypeOK
<1>k. ASSUME NEW pc, Goto(s, pc), pc \notin {"forget", "label", "done"}
      PROVE  Cached(s)'
  <2>1. up'[s].pc = pc
    BY <1>k, <1>1, GotoRec
  <2> QED
    BY <1>k, <2>1 DEF Cached
<1>Packet. CASE Packet(s)
  <2>1. CASE Goto(s, Failed(s))
    BY <2>1, <1>k DEF Failed
  <2>2. CASE ~Goto(s, Failed(s))
    <3> DEFINE packet == Job(s).packets[up[s].i]
               stop == IF up[s].i = Len(Job(s).packets) /\ Job(s).final /\ up[s].i = 1 THEN "missing" ELSE "answer"
    <3>0. up'[s] = [up[s] EXCEPT !.pc = stop, !.sent = @ \cup packet] /\ up[s] \in UpRec
      BY <1>Packet, <2>2, <1>1 DEF Packet, Then, DagTypeOK
    <3>1. up'[s].pc \in {"missing", "answer"}
      BY <3>0 DEF UpRec
    <3> QED
      BY <3>1 DEF Cached
  <2> QED
    BY <2>1, <2>2
<1>Read. CASE Read(s)
  <2>1. CASE Goto(s, "undo")
    BY <2>1, <1>k
  <2>2. CASE ~Goto(s, "undo")
    <3>1. up'[s].pc = "packet"
      BY <1>Read, <2>2, <1>1 DEF Read, Then, DagTypeOK, UpRec
    <3> QED
      BY <3>1 DEF Cached
  <2> QED
    BY <2>1, <2>2
<1>Missing. CASE Missing(s)
  <2>1. up'[s].pc \in {"verify", "partial"}
    BY <1>Missing, <1>1 DEF Missing, Then, DagTypeOK, UpRec
  <2> QED
    BY <2>1 DEF Cached
<1>Partial. CASE Partial(s)
  <2>1. up'[s].pc \in {"verify", "undo", "partial"}
    BY <1>Partial, <1>1 DEF Partial, Then, Goto, DagTypeOK, UpRec
  <2> QED
    BY <2>1 DEF Cached
<1>Relate. CASE Relate(s)
  <2>1. up'[s].pc = "label" /\ Complete(Root(s))
    BY <1>Relate, <1>1, GotoRec DEF Relate, Walked
  <2>2. faults' = 0 => Root(s) \in rel'
    BY <1>Relate, <2>1, <1>3 DEF Relate
  <2> QED
    BY <2>1, <2>2, <1>2 DEF Cached
<1>Label. CASE Label(s)
  <2>1. up'[s].pc = "done" /\ Complete(Root(s))
    BY <1>Label, <1>1, GotoRec DEF Label, Walked
  <2>2. faults' = 0 => Root(s) \in lab'
    BY <1>Label, <2>1, <1>3 DEF Label, Labelled
  <2>3. faults' = 0 => Root(s) \in lost' \cup rel'
    BY <1>Label, <1>1, <1>2, <1>3 DEF Label, Cached
  <2> QED
    BY <2>1, <2>2, <2>3, <1>2 DEF Cached
<1>Undo. CASE Undo(s)
  <2>1. up'[s].pc \in {"forget", "leave"} /\ Root(s) \in lost'
    BY <1>Undo, <1>1, GotoRec DEF Undo
  <2> QED
    BY <2>1, <1>2 DEF Cached
<1>Start. CASE Start(s)
  BY <1>Start, <1>k DEF Start
<1>Answer. CASE Answer(s)
  BY <1>Answer, <1>k DEF Answer
<1>Verify. CASE Verify(s)
  BY <1>Verify, <1>k DEF Verify
<1>Finish. CASE Finish(s)
  BY <1>Finish, <1>k DEF Finish
<1>Forget. CASE Forget(s)
  BY <1>Forget, <1>k DEF Forget
<1>Leave. CASE Leave(s)
  BY <1>Leave, <1>k DEF Leave
<1> QED
  BY <1>Start, <1>Packet, <1>Answer, <1>Read, <1>Missing, <1>Partial, <1>Verify, <1>Relate, <1>Label, <1>Finish, <1>Undo, <1>Forget, <1>Leave DEF UploadStep

\* The upload that is answered has its DAG complete, owned and cached.
LEMMA Answered ==
    ASSUME IInv, [DagNext]_dagVars
    PROVE  \/ acked' = acked
           \/ \E s \in Uploads : /\ acked' = acked \cup {<<Root(s), Key(s)>>}
                                 /\ up[s].pc = "done" /\ UNCHANGED store /\ UNCHANGED <<lost, faults>>
<1>t. DagTypeOK
  BY DEF IInv
<1>Start. ASSUME NEW s \in Uploads, Start(s) PROVE acked' = acked
  BY <1>Start DEF Start
<1>Packet. ASSUME NEW s \in Uploads, Packet(s) PROVE acked' = acked
  BY <1>Packet DEF Packet
<1>Answer. ASSUME NEW s \in Uploads, Answer(s) PROVE acked' = acked
  BY <1>Answer DEF Answer
<1>Read. ASSUME NEW s \in Uploads, Read(s) PROVE acked' = acked
  BY <1>Read DEF Read
<1>Missing. ASSUME NEW s \in Uploads, Missing(s) PROVE acked' = acked
  BY <1>Missing DEF Missing
<1>Partial. ASSUME NEW s \in Uploads, Partial(s) PROVE acked' = acked
  BY <1>Partial DEF Partial
<1>Verify. ASSUME NEW s \in Uploads, Verify(s) PROVE acked' = acked
  BY <1>Verify DEF Verify
<1>Relate. ASSUME NEW s \in Uploads, Relate(s) PROVE acked' = acked
  BY <1>Relate DEF Relate
<1>Label. ASSUME NEW s \in Uploads, Label(s) PROVE acked' = acked
  BY <1>Label DEF Label
<1>Finish. ASSUME NEW s \in Uploads, Finish(s)
      PROVE  /\ acked' = acked \/ acked' = acked \cup {<<Root(s), Key(s)>>}
             /\ up[s].pc = "done" /\ UNCHANGED store /\ lost' = lost
             /\ faults' = faults \/ acked' = acked
  BY <1>Finish DEF Finish
<1>Undo. ASSUME NEW s \in Uploads, Undo(s) PROVE acked' = acked
  BY <1>Undo DEF Undo
<1>Forget. ASSUME NEW s \in Uploads, Forget(s) PROVE acked' = acked
  BY <1>Forget DEF Forget
<1>Leave. ASSUME NEW s \in Uploads, Leave(s) PROVE acked' = acked
  BY <1>Leave DEF Leave
<1>Down. ASSUME NEW d \in Downloads, DownloadStep(d) PROVE acked' = acked
  BY <1>Down, <1>t, OthersDown
<1>Moves. CASE Claim \/ Release
  BY <1>Moves DEF Claim, Release
<1>Stutter. CASE UNCHANGED dagVars
  BY <1>Stutter DEF dagVars
<1> QED
  BY <1>Start, <1>Packet, <1>Answer, <1>Read, <1>Missing, <1>Partial, <1>Verify, <1>Relate, <1>Label, <1>Finish, <1>Undo, <1>Forget, <1>Leave, <1>Down, <1>Moves, <1>Stutter DEF DagNext, UploadStep

LEMMA AckedNext ==
    ASSUME IInv, [DagNext]_dagVars, Grown
    PROVE  AckedComplete' /\ AckedOwned' /\ AckedCached'
<1>1. DagTypeOK /\ AckedComplete /\ AckedOwned /\ AckedCached
  BY DEF IInv, OwnersRight
<1>2. CASE acked' = acked
  <2>1. AckedComplete'
    BY <1>1, <1>2, CompleteGrows DEF AckedComplete
  <2>2. AckedOwned'
    BY <1>1, <1>2 DEF AckedOwned, Grown
  <2>3. AckedCached'
    BY <1>1, <1>2 DEF AckedCached, Grown
  <2> QED
    BY <2>1, <2>2, <2>3
<1>3. ASSUME NEW s \in Uploads, acked' = acked \cup {<<Root(s), Key(s)>>}, up[s].pc = "done",
             UNCHANGED store, UNCHANGED <<lost, faults>>
      PROVE  AckedComplete' /\ AckedOwned' /\ AckedCached'
  <2>1. Stored(s) /\ Walked(s) /\ Cached(s)
    BY DEF IInv
  <2>2. Complete(Root(s))
    BY <2>1, <1>3 DEF Walked
  <2>3. <<Root(s), Key(s)>> \in own \/ Root(s) \in lost
    BY <2>1, <1>3 DEF Stored
  <2>4. faults = 0 => Root(s) \in lost \/ Root(s) \in rel \cap lab
    BY <2>1, <1>3 DEF Cached
  <2>5. AckedComplete'
    BY <1>1, <1>3, <2>2 DEF AckedComplete, Complete, store
  <2>6. AckedOwned'
    BY <1>1, <1>3, <2>3 DEF AckedOwned, store
  <2>7. AckedCached'
    BY <1>1, <1>3, <2>4 DEF AckedCached, store
  <2> QED
    BY <2>5, <2>6, <2>7
<1> QED
  BY <1>2, <1>3, Answered

LEMMA OwnedNext ==
    ASSUME IInv, [DagNext]_dagVars, Grown
    PROVE  OwnedThere'
<1>1. OwnedThere /\ DagTypeOK
  BY DEF IInv, OwnersRight
<1>2. leaves \subseteq leaves'
  BY DEF Grown
<1>3. own' \subseteq own => OwnedThere'
  BY <1>1, <1>2 DEF OwnedThere
<1>Start. ASSUME NEW s \in Uploads, Start(s) PROVE OwnedThere'
  BY <1>Start, <1>3 DEF Start, store
<1>Packet. ASSUME NEW s \in Uploads, Packet(s) PROVE OwnedThere'
  BY <1>Packet, <1>1, <1>2 DEF Packet, Owns, OwnedThere
<1>Answer. ASSUME NEW s \in Uploads, Answer(s) PROVE OwnedThere'
  BY <1>Answer, <1>3 DEF Answer, store
<1>Read. ASSUME NEW s \in Uploads, Read(s) PROVE OwnedThere'
  BY <1>Read, <1>3 DEF Read, store
<1>Missing. ASSUME NEW s \in Uploads, Missing(s) PROVE OwnedThere'
  BY <1>Missing, <1>3 DEF Missing, store
<1>Partial. ASSUME NEW s \in Uploads, Partial(s) PROVE OwnedThere'
  BY <1>Partial, <1>3 DEF Partial, store
<1>Verify. ASSUME NEW s \in Uploads, Verify(s) PROVE OwnedThere'
  BY <1>Verify, <1>3 DEF Verify, store
<1>Relate. ASSUME NEW s \in Uploads, Relate(s) PROVE OwnedThere'
  BY <1>Relate, <1>3 DEF Relate, store
<1>Label. ASSUME NEW s \in Uploads, Label(s) PROVE OwnedThere'
  BY <1>Label, <1>3 DEF Label, store
<1>Finish. ASSUME NEW s \in Uploads, Finish(s) PROVE OwnedThere'
  BY <1>Finish, <1>3 DEF Finish, store
<1>Undo. ASSUME NEW s \in Uploads, Undo(s) PROVE OwnedThere'
  BY <1>Undo, <1>3 DEF Undo, store
<1>Forget. ASSUME NEW s \in Uploads, Forget(s) PROVE OwnedThere'
  BY <1>Forget, <1>3 DEF Forget, store
<1>Leave. ASSUME NEW s \in Uploads, Leave(s) PROVE OwnedThere'
  BY <1>Leave, <1>3 DEF Leave, store
<1>Down. ASSUME NEW d \in Downloads, DownloadStep(d) PROVE OwnedThere'
  BY <1>Down, <1>1, <1>3, OthersDown
<1>Claim. CASE Claim
  BY <1>Claim, <1>1, <1>2 DEF Claim, Claimable, OwnedThere
<1>Release. CASE Release
  BY <1>Release, <1>3 DEF Release
<1>Stutter. CASE UNCHANGED dagVars
  BY <1>Stutter, <1>3 DEF dagVars
<1> QED
  BY <1>Start, <1>Packet, <1>Answer, <1>Read, <1>Missing, <1>Partial, <1>Verify, <1>Relate, <1>Label, <1>Finish, <1>Undo, <1>Forget, <1>Leave, <1>Down, <1>Claim, <1>Release, <1>Stutter DEF DagNext, UploadStep

-----------------------------------------------------------------------------
(* A step of a download *)

\* What was acknowledged and not given up is there for a download.
LEMMA AckedThere ==
    ASSUME IInv, NEW root, NEW k \in Keys, <<root, k>> \in acked, root \notin lost
    PROVE  /\ root \in leaves /\ Owned(root) /\ Complete(root)
           /\ faults = 0 => root \in rel /\ root \in lab
<1>1. AckedComplete /\ AckedOwned /\ OwnedThere /\ AckedCached
  BY DEF IInv, OwnersRight
<1> DEFINE x == <<root, k>>
<1>2. x \in acked /\ x[1] = root
  OBVIOUS
<1> HIDE DEF x
<1>3. x \in own /\ Complete(root)
  BY <1>1, <1>2 DEF AckedComplete, AckedOwned
<1>4. faults = 0 => root \in rel /\ root \in lab
  BY <1>1, <1>2 DEF AckedCached
<1> QED
  BY <1>1, <1>2, <1>3, <1>4 DEF OwnedThere, Owned

LEMMA ExpectedRests ==
    ASSUME IInv, Grown, NEW d \in Downloads, down'[d] = down[d]
    PROVE  Expected(d)'
BY DEF IInv, Expected, Grown, Wish

LEMMA ExpectedNext ==
    ASSUME IInv, Grown, NEW d \in Downloads, DownloadStep(d)
    PROVE  Expected(d)'
<1>1. DagTypeOK /\ Expected(d)
  BY DEF IInv
<1>2. /\ Wish(d)' = Wish(d) /\ acked' = acked /\ lost' = lost /\ faults' = faults
      /\ down[d] \in DownRec
  BY <1>1, OthersDown DEF Wish, DagTypeOK
<1>3. ASSUME NEW k \in Keys, <<Wish(d).root, k>> \in acked, Wish(d).root \notin lost
      PROVE  /\ Wish(d).root \in leaves /\ Owned(Wish(d).root) /\ Complete(Wish(d).root)
             /\ faults = 0 => Wish(d).root \in rel /\ Wish(d).root \in lab
  BY <1>3, AckedThere
<1>Ask. CASE Ask(d)
  <2>1. /\ down'[d].safe = \E k \in {x[2] : x \in own} : <<Wish(d).root, k>> \in acked
        /\ down'[d].pc = IF Wish(d).root \in leaves /\ Owned(Wish(d).root) THEN Wish(d).how ELSE "failed"
    BY <1>Ask, <1>1 DEF Ask, DagTypeOK
  <2>2. \A x \in own : x[2] \in Keys
    BY <1>1 DEF DagTypeOK
  <2>3. down'[d].safe => \E k \in Keys : <<Wish(d).root, k>> \in acked
    BY <2>1, <2>2
  <2>4. Wish(d).how # "failed"
    BY <1>1, WishType
  <2> QED
    BY <1>2, <1>3, <2>1, <2>3, <2>4 DEF Expected
<1>All. CASE All(d)
  <2>1. /\ down'[d].safe = down[d].safe
        /\ down'[d].pc = "failed" => ~(Owned(Wish(d).root) /\ Complete(Wish(d).root))
    BY <1>All, <1>1, <1>2 DEF All, DagTypeOK, DownRec
  <2> QED
    BY <1>1, <1>2, <1>3, <2>1 DEF Expected
<1>Labels. CASE Labels(d)
  <2>1. /\ down'[d].safe = down[d].safe
        /\ down'[d].pc = "failed" => Wish(d).root \notin lab
    BY <1>Labels, <1>1, <1>2 DEF Labels, To, DagTypeOK, DownRec
  <2> QED
    BY <1>1, <1>2, <1>3, <2>1 DEF Expected
<1>Hashes. CASE Hashes(d)
  <2>1. down'[d].safe = down[d].safe /\ down'[d].pc # "failed"
    BY <1>Hashes, <1>1, <1>2 DEF Hashes, To, DagTypeOK, DownRec
  <2> QED
    BY <1>1, <1>2, <2>1 DEF Expected
<1>Index. CASE Index(d)
  <2>1. /\ down'[d].safe = down[d].safe
        /\ down'[d].pc = "failed" => ~(Owned(Wish(d).root) /\ Complete(Wish(d).root))
    BY <1>Index, <1>1, <1>2 DEF Index, To, DagTypeOK, DownRec
  <2> QED
    BY <1>1, <1>2, <1>3, <2>1 DEF Expected
<1>Walk. CASE Walk(d)
  <2>1. /\ down'[d].safe = down[d].safe
        /\ down'[d].pc = "failed" => ~(Owned(Wish(d).root) /\ Wish(d).leaves \subseteq Reach[Wish(d).root])
    BY <1>Walk, <1>1, <1>2 DEF Walk, DagTypeOK, DownRec
  <2> QED
    BY <1>1, <1>2, <1>3, <2>1 DEF Expected
<1> QED
  BY <1>Ask, <1>All, <1>Labels, <1>Hashes, <1>Index, <1>Walk DEF DownloadStep

-----------------------------------------------------------------------------
(* The theorems *)

LEMMA InitHolds == DagInit => IInv
<1> SUFFICES ASSUME DagInit PROVE IInv
  OBVIOUS
<1>1. DagTypeOK
  <2>1. [pc |-> "new", i |-> 1, sent |-> {}, todo |-> {}, seen |-> {}, lack |-> FALSE] \in UpRec
    BY DEF UpRec, UpPcs
  <2>2. [pc |-> "new", want |-> {}, safe |-> FALSE] \in DownRec
    BY DEF DownRec, DownPcs
  <2>3. plan \in Plans /\ \A s \in Uploads : 1 \in 1..Len(Job(s).packets)
    BY PlanAssumption DEF DagInit, Job
  <2> QED
    BY <2>1, <2>2, <2>3 DEF DagInit, DagTypeOK
<1>2. \A s \in Uploads : Stored(s) /\ Walked(s) /\ Cached(s)
  BY DEF DagInit, Stored, Walked, Cached
<1>3. AckedComplete /\ OwnersRight /\ AckedCached
  BY DEF DagInit, AckedComplete, OwnersRight, AckedOwned, OwnedThere, AckedCached
<1>4. \A d \in Downloads : Expected(d)
  BY DEF DagInit, Expected
<1> QED
  BY <1>1, <1>2, <1>3, <1>4 DEF IInv

LEMMA NextHolds == IInv /\ [DagNext]_dagVars => IInv'
<1> SUFFICES ASSUME IInv, [DagNext]_dagVars PROVE IInv'
  OBVIOUS
<1>1. DagTypeOK /\ DagTypeOK'
  BY TypeNext DEF IInv
<1>2. Grown
  BY Grows
<1>3. ASSUME NEW s \in Uploads PROVE Stored(s)' /\ Walked(s)' /\ Cached(s)'
  <2>1. CASE up'[s] = up[s]
    BY <2>1, <1>2, Rests
  <2>2. CASE UploadStep(s)
    BY <2>2, <1>2, StoredNext, WalkedNext, CachedNext
  <2>3. up'[s] = up[s] \/ UploadStep(s)
    <3>1. ASSUME NEW t \in Uploads, UploadStep(t), t # s PROVE up'[s] = up[s]
      BY <3>1, <1>1, TheOthers
    <3>2. ASSUME NEW d \in Downloads, DownloadStep(d) PROVE up'[s] = up[s]
      BY <3>2, <1>1, OthersDown
    <3>3. (Claim \/ Release \/ UNCHANGED dagVars) => up' = up
      BY DEF Claim, Release, dagVars
    <3> QED
      BY <3>1, <3>2, <3>3 DEF DagNext
  <2> QED
    BY <2>1, <2>2, <2>3
<1>4. AckedComplete' /\ AckedOwned' /\ AckedCached' /\ OwnedThere'
  BY <1>2, AckedNext, OwnedNext
<1>5. ASSUME NEW d \in Downloads PROVE Expected(d)'
  <2>1. CASE down'[d] = down[d]
    BY <2>1, <1>2, ExpectedRests
  <2>2. CASE DownloadStep(d)
    BY <2>2, <1>2, ExpectedNext
  <2>3. down'[d] = down[d] \/ DownloadStep(d)
    <3>1. ASSUME NEW s \in Uploads, UploadStep(s) PROVE down' = down
      BY <3>1, <1>1, TheOthers
    <3>2. ASSUME NEW e \in Downloads, DownloadStep(e), e # d PROVE down'[d] = down[d]
      BY <3>2, <1>1, OthersDown
    <3>3. (Claim \/ Release \/ UNCHANGED dagVars) => down' = down
      BY DEF Claim, Release, dagVars
    <3> QED
      BY <3>1, <3>2, <3>3 DEF DagNext
  <2> QED
    BY <2>1, <2>2, <2>3
<1> QED
  BY <1>1, <1>3, <1>4, <1>5 DEF IInv, OwnersRight

LEMMA AlwaysIInv == DagSpec => []IInv
BY InitHolds, NextHolds, PTL DEF DagSpec

\* The variables of dag.go's and upload.go's state keep their types, and an
\* upload never reads past its packets.
THEOREM DagTypeCorrect == DagSpec => []DagTypeOK
<1>1. IInv => DagTypeOK
  BY DEF IInv
<1> QED
  BY <1>1, AlwaysIInv, PTL

\* The success answer of an upload (upload.go) stands for a whole DAG for good:
\* the search for leaves that were not sent looks at all that is missing.
THEOREM AckedStaysComplete == DagSpec => []AckedComplete
<1>1. IInv => AckedComplete
  BY DEF IInv
<1> QED
  BY <1>1, AlwaysIInv, PTL

\* However uploads, claims and releases interleave, an upload that was answered
\* owns its DAG unless it was given up, and owned roots are stored.
THEOREM OwnersStayRight == DagSpec => []OwnersRight
<1>1. IInv => OwnersRight
  BY DEF IInv
<1> QED
  BY <1>1, AlwaysIInv, PTL

\* Without failing transactions, a download or a query of what was acknowledged
\* and not given up succeeds, by whichever path it goes.
THEOREM AckedIsServed == DagSpec => []AckedServed
<1>1. IInv => AckedServed
  <2> SUFFICES ASSUME IInv, faults = 0 PROVE AckedServed
    BY DEF AckedServed
  <2>1. \A d \in Downloads : (down[d].pc = "failed" /\ down[d].safe) =>
             Wish(d).root \in lost \/ ~(Wish(d).leaves \subseteq Reach[Wish(d).root])
    BY DEF IInv, Expected
  <2>2. ASSUME NEW x \in acked, x[1] \notin lost, NEW l \in Reach[x[1]]
        PROVE  x[1] \in QueryDag({x[2]}, {Name[l]})
    <3>1. x \in own /\ x[1] \in rel /\ Complete(x[1])
      BY <2>2 DEF IInv, OwnersRight, AckedOwned, AckedCached, AckedComplete
    <3>2. l \in Known(x[1]) \cap leaves
      BY <2>2, <3>1 DEF Known, Complete
    <3> QED
      BY <3>1, <3>2 DEF QueryDag
  <2> QED
    BY <2>1, <2>2 DEF AckedServed
<1> QED
  BY <1>1, AlwaysIInv, PTL

-----------------------------------------------------------------------------
(* Moderation *)

\* A handler past its checks holds a ticket; one about to write the record back
\* holds the record it read.
HandlerReady ==
    \A d \in Disputes :
        /\ filing[d].stage # "idle" => filing[d].ticket \in Ticket
        /\ filing[d].stage = "put" => filing[d].seen \in Block

\* The clean-up goroutine names an event exactly while it deletes one.
CleanupReady == cleanup.stage = "next" <=> cleanup.on = Nobody

\* FailedHidden for every event, stored or not: an event its author deletes and
\* sends again must find its record.
FailedBlocked ==
    \A e \in Events : standing[e] = "failed" => Blocked(e) \/ cleanup.on = e

\* Whoever holds a dispute holds one that was stored, and the kind 19842 handler
\* that stored a dispute stored it under its ticket.
Held(d) ==
    \/ d \in queue \/ d \in loop.found \/ d \in loop.todo \/ loop.next = d
    \/ resolved[d] # "no" \/ \E s \in Slots : worker[s].on = d
HeldOnRecord == \A d \in Disputes : Held(d) => disputed[d] # NoTicket
FiledOnRecord ==
    \A d \in Disputes :
        /\ filing[d].stage \in {"copy", "store"} => disputed[d] \in {NoTicket, filing[d].ticket}
        /\ filing[d].stage \in {"get", "put", "enqueue"} => disputed[d] = filing[d].ticket
FlagOnRecord ==
    \A e \in Events : blocked[e] # Free /\ blocked[e].dispute =>
        \E d \in Disputes : disputed[d] # NoTicket /\ disputed[d].event = e

Safe == TypeOK /\ HandlerReady
Record == HeldOnRecord /\ FiledOnRecord /\ FlagOnRecord

-----------------------------------------------------------------------------
(* The shapes of the records, so that the steps below need not open them *)

LEMMA Shapes ==
    /\ NoTask \in LoopState /\ NoReview \in WorkerState /\ NoFiling \in FilingState
    /\ NoPurge \in CleanupState /\ NoAdmin \in AdminState
    /\ FreshBlock \in Block \/ clock \notin Time
    /\ {"new", "cleared", "failed", "exposed"} = Judgements /\ {"no", "approved", "rejected"} = Outcomes
  BY TimeAssumption DEF LoopState, WorkerState, FilingState, CleanupState, AdminState,
     WorkerStages, FilingStages, NoTask, NoReview, NoFiling, NoPurge, NoAdmin, FreshBlock,
     Block, Time, Judgements, Outcomes

LEMMA WorkerGoes ==
    ASSUME NEW w \in [Slots -> WorkerState], NEW s \in Slots, NEW to \in WorkerStages
    PROVE  [w EXCEPT ![s].stage = to] \in [Slots -> WorkerState]
  BY DEF WorkerState

LEMMA Moves ==
    ASSUME NEW s \in Slots, Review(s)
    PROVE  (\E to \in WorkerStages : Go(s, to)) \/ Done(s)
<1> USE DEF WorkerStages
<1>1. CASE Fetch(s)        BY <1>1 DEF Fetch
<1>2. CASE Judge(s)
  <2> PICK answer \in Answers : Go(s, IF answer = "block" THEN "mark" ELSE "clear")
    BY <1>2 DEF Judge
  <2> QED  BY Zenon
<1>3. CASE Mark(s)         BY <1>3 DEF Mark
<1>4. CASE IssueTicket(s)  BY <1>4 DEF IssueTicket
<1>5. CASE Clear(s)        BY <1>5 DEF Clear
<1>6. CASE Recheck(s)      BY <1>6 DEF Recheck
<1>7. CASE Refetch(s)      BY <1>7 DEF Refetch
<1>8. CASE Rejudge(s)
  <2> PICK answer \in Answers : Go(s, IF answer = "pass" THEN "approve" ELSE "reject")
    BY <1>8 DEF Rejudge
  <2> QED  BY Zenon
<1>9. CASE Resolve(s)      BY <1>9 DEF Resolve
<1>10. CASE Unmark(s)      BY <1>10 DEF Unmark
<1>11. CASE Unticket(s)    BY <1>11 DEF Unticket
<1> QED
  BY <1>1, <1>2, <1>3, <1>4, <1>5, <1>6, <1>7, <1>8, <1>9, <1>10, <1>11 DEF Review

LEMMA FilingGoes ==
    ASSUME NEW f \in [Disputes -> FilingState], NEW d \in Disputes, NEW to \in FilingStages
    PROVE  /\ [f EXCEPT ![d].stage = to] \in [Disputes -> FilingState]
           /\ \A seen \in Block \cup {Free} :
                 [f EXCEPT ![d].stage = to, ![d].seen = seen] \in [Disputes -> FilingState]
  BY DEF FilingState

LEMMA Counting ==
    ASSUME NEW c \in Counts
    PROVE  /\ [c EXCEPT !.publishes = @ + 1] \in Counts /\ [c EXCEPT !.submits = @ + 1] \in Counts
           /\ [c EXCEPT !.unblocks = @ + 1] \in Counts /\ [c EXCEPT !.deletes = @ + 1] \in Counts
           /\ [c EXCEPT !.restarts = @ + 1] \in Counts
  BY DEF Counts

LEMMA SafeInit == Init => Safe
<1> SUFFICES ASSUME Init PROVE Safe  OBVIOUS
<1>1. TypeOK
  BY Shapes, TimeAssumption DEF Init, TypeOK, Time, Counts, Judgements, Outcomes
<1>2. HandlerReady
  BY DEF Init, HandlerReady, NoFiling
<1> QED  BY <1>1, <1>2 DEF Safe

-----------------------------------------------------------------------------
(* Every action keeps the types *)

LEMMA SafeStep == Safe /\ [Next]_vars => Safe'
<1> SUFFICES ASSUME Safe, [Next]_vars PROVE Safe'  OBVIOUS
<1> USE DEF Safe, TypeOK, HandlerReady, rows, actors
<1>1. ASSUME NEW e \in Events, Publish(e) PROVE Safe'
  BY <1>1, Counting DEF Publish
<1>2. ASSUME NEW e \in Events, Enqueue(e) PROVE Safe'
  BY <1>2 DEF Enqueue
<1>3. ASSUME NEW e \in Events, AuthorDelete(e) PROVE Safe'
  BY <1>3 DEF AuthorDelete
<1>21. ASSUME NEW d \in Disputes, Withdraw(d) PROVE Safe'
  BY <1>21 DEF Withdraw
<1>4. CASE PollEvents
  BY <1>4 DEF PollEvents, Poll, LoopState, Task
<1>5. CASE PollDisputes
  BY <1>5 DEF PollDisputes, Poll, LoopState, Task
<1>6. ASSUME NEW x \in Task, Drain(x) PROVE Safe'
  BY <1>6 DEF Drain, LoopState
<1>7. ASSUME NEW x \in Task, Consider(x) PROVE Safe'
  BY <1>7 DEF Consider, LoopState
<1>8. ASSUME NEW s \in Slots, Launch(s) PROVE Safe'
  BY <1>8 DEF Launch, LoopState, WorkerState, WorkerStages
<1>9. ASSUME NEW s \in Slots, Review(s) PROVE Safe'
  <2>1. CASE Fetch(s)
    <3>1. worker' \in [Slots -> WorkerState]
      BY <1>9, <2>1, Moves, WorkerGoes, Shapes DEF Go, Done
    <3> QED  BY <2>1, <3>1 DEF Fetch, Others
  <2>2. CASE Judge(s)
    <3>1. worker' \in [Slots -> WorkerState]
      BY <1>9, <2>2, Moves, WorkerGoes, Shapes DEF Go, Done
    <3>2. standing' \in [Events -> Judgements]
      BY <1>9, <2>2 DEF Judge, Others, Judgements
    <3> QED  BY <2>2, <3>1, <3>2 DEF Judge, Others
  <2>3. CASE Mark(s)
    BY <1>9, <2>3, WorkerGoes, Shapes DEF Mark, At, Go, Done, Others, WorkerStages, Judgements
  <2>4. CASE IssueTicket(s)
    <3>1. worker' \in [Slots -> WorkerState]
      BY <1>9, <2>4, Moves, WorkerGoes, Shapes DEF Go, Done
    <3>2. tickets' \subseteq Ticket
      BY <1>9, <2>4 DEF IssueTicket, Others, Ticket
    <3> QED  BY <2>4, <3>1, <3>2 DEF IssueTicket, Others
  <2>5. CASE Clear(s)
    BY <1>9, <2>5, WorkerGoes, Shapes DEF Clear, At, Go, Done, Others, WorkerStages
  <2>6. CASE Recheck(s)
    <3>1. worker' \in [Slots -> WorkerState]
      BY <1>9, <2>6, Moves, WorkerGoes, Shapes DEF Go, Done
    <3> QED  BY <2>6, <3>1 DEF Recheck, Others
  <2>7. CASE Refetch(s)
    <3>1. worker' \in [Slots -> WorkerState]
      BY <1>9, <2>7, Moves, WorkerGoes, Shapes DEF Go, Done
    <3> QED  BY <2>7, <3>1 DEF Refetch, Others
  <2>8. CASE Rejudge(s)
    <3>1. worker' \in [Slots -> WorkerState]
      BY <1>9, <2>8, Moves, WorkerGoes, Shapes DEF Go, Done
    <3> QED  BY <2>8, <3>1 DEF Rejudge, Others
  <2>9. CASE Resolve(s)
    <3>1. worker' \in [Slots -> WorkerState]
      BY <1>9, <2>9, Moves, WorkerGoes, Shapes DEF Go, Done
    <3>2. resolved' \in [Disputes -> Outcomes]
      BY <1>9, <2>9 DEF Resolve, Others, Outcomes
    <3> QED  BY <2>9, <3>1, <3>2 DEF Resolve, Others
  <2>10. CASE Unmark(s)
    BY <1>9, <2>10, WorkerGoes, Shapes DEF Unmark, At, Go, Done, Others, WorkerStages, Judgements
  <2>11. CASE Unticket(s)
    BY <1>9, <2>11, WorkerGoes, Shapes DEF Unticket, At, Go, Done, Others, WorkerStages, Settled
  <2> QED  BY <1>9, <2>1, <2>2, <2>3, <2>4, <2>5, <2>6, <2>7, <2>8, <2>9, <2>10, <2>11 DEF Review
<1>10. ASSUME NEW d \in Disputes, NEW t \in tickets, Submit(d, t) PROVE Safe'
  BY <1>10, Counting DEF Submit, FilingState, FilingStages
<1>11. ASSUME NEW d \in Disputes, File(d) PROVE Safe'
  <2>1. CASE StoreCopy(d)
    <3>1. tickets' \subseteq Ticket
      BY <1>11, <2>1 DEF StoreCopy, Filing, Ticket
    <3>2. filing' \in [Disputes -> FilingState]
      BY <1>11, <2>1, <3>1, FilingGoes, Shapes DEF StoreCopy, Filing, FilingStages
    <3>3. HandlerReady'
      BY <1>11, <2>1, <3>1 DEF StoreCopy, Filing, FilingState, NoFiling
    <3> QED  BY <2>1, <3>1, <3>2, <3>3 DEF StoreCopy, FilingOthers
  <2>2. CASE StoreDispute(d)
    <3>1. disputed' \in [Disputes -> Ticket \cup {NoTicket}]
      BY <1>11, <2>2 DEF StoreDispute, Filing, FilingState
    <3>2. filing' \in [Disputes -> FilingState]
      BY <1>11, <2>2, <3>1, FilingGoes, Shapes DEF StoreDispute, Filing, FilingStages
    <3>3. HandlerReady'
      BY <1>11, <2>2, <3>1 DEF StoreDispute, Filing, FilingState, NoFiling
    <3> QED  BY <2>2, <3>1, <3>2, <3>3 DEF StoreDispute, FilingOthers
  <2>3. CASE GetBlock(d)
    <3>1. blocked[filing[d].ticket.event] \in Block \cup {Free}
      BY <1>11, <2>3 DEF GetBlock, Ticket
    <3>2. filing' \in [Disputes -> FilingState]
      <4>1. CASE blocked[filing[d].ticket.event] = Free
        BY <1>11, <2>3, <3>1, <4>1, FilingGoes DEF GetBlock, FilingStages
      <4>2. CASE blocked[filing[d].ticket.event] # Free
        BY <1>11, <2>3, <3>1, <4>2, FilingGoes DEF GetBlock, FilingStages
      <4> QED  BY <4>1, <4>2
    <3>3. HandlerReady'
      BY <1>11, <2>3, <3>1 DEF GetBlock, Filing, FilingState, NoFiling
    <3> QED  BY <2>3, <3>1, <3>2, <3>3 DEF GetBlock, FilingOthers
  <2>4. CASE PutBlock(d)
    <3>1. blocked' \in [Events -> Block \cup {Free}]
      BY <1>11, <2>4 DEF PutBlock, Filing, Block
    <3>2. filing' \in [Disputes -> FilingState]
      BY <1>11, <2>4, <3>1, FilingGoes, Shapes DEF PutBlock, Filing, FilingStages
    <3>3. HandlerReady'
      BY <1>11, <2>4, <3>1 DEF PutBlock, Filing, FilingState, NoFiling
    <3> QED  BY <2>4, <3>1, <3>2, <3>3 DEF PutBlock, FilingOthers
  <2>5. CASE EnqueueDispute(d)
    <3>1. queue' \subseteq Disputes
      BY <1>11, <2>5 DEF EnqueueDispute, Filing
    <3>2. filing' \in [Disputes -> FilingState]
      BY <1>11, <2>5, <3>1, FilingGoes, Shapes DEF EnqueueDispute, Filing, FilingStages
    <3>3. HandlerReady'
      BY <1>11, <2>5, <3>1 DEF EnqueueDispute, Filing, FilingState, NoFiling
    <3> QED  BY <2>5, <3>1, <3>2, <3>3 DEF EnqueueDispute, FilingOthers
  <2> QED  BY <1>11, <2>1, <2>2, <2>3, <2>4, <2>5 DEF File
<1>12. CASE StartCleanup
  BY <1>12 DEF StartCleanup, CleanupState
<1>13. CASE Purge
  <2>1. ASSUME NEW e \in Events, PurgeBlock(e) PROVE Safe'
    BY <1>13, <2>1 DEF PurgeBlock, CleanupOthers, CleanupState
  <2>2. CASE PurgeTickets
    BY <1>13, <2>2 DEF PurgeTickets, CleanupOthers, CleanupState
  <2>3. CASE PurgeEvent
    BY <1>13, <2>3 DEF PurgeEvent, CleanupOthers, CleanupState, Forgotten, Judgements
  <2> QED  BY <1>13, <2>1, <2>2, <2>3 DEF Purge
<1>14. ASSUME NEW e \in Events, UnblockEvent(e) PROVE Safe'
  BY <1>14, Counting, Shapes DEF UnblockEvent, AdminOthers, Judgements
<1>15. ASSUME NEW e \in Events, AdminDelete(e) PROVE Safe'
  BY <1>15, Counting DEF AdminDelete, AdminOthers, AdminState
<1>16. CASE AdminUnmark
  BY <1>16 DEF AdminUnmark, AdminOthers, AdminState, Forgotten, Judgements
<1>17. CASE AdminTickets
  BY <1>17, Shapes DEF AdminTickets, AdminOthers
<1>18. CASE Tick
  BY <1>18, TimeAssumption DEF Tick, Time
<1>19. CASE Restart
  <2>1. Exposed \in [Events -> Judgements]
    BY DEF Exposed, Judgements
  <2> QED  BY <1>19, <2>1, Shapes, Counting DEF Restart, NoFiling
<1>20. CASE UNCHANGED vars
  BY <1>20 DEF vars
<1> QED  BY <1>1, <1>2, <1>3, <1>4, <1>5, <1>6, <1>7, <1>8, <1>9, <1>10, <1>11, <1>12, <1>13, <1>14, <1>15, <1>16, <1>17, <1>18, <1>19, <1>20, <1>21 DEF Next, Author, Loop, Client, Admin

-----------------------------------------------------------------------------
(* A failed event keeps its record *)

\* Only these steps touch a record, a judgement or the clean-up.
Untouched == UNCHANGED <<blocked, standing, cleanup>>
LEMMA Touching ==
    [Next]_vars =>
        \/ Untouched
        \/ \E s \in Slots : Judge(s) \/ Mark(s) \/ Unmark(s)
        \/ \E d \in Disputes : PutBlock(d)
        \/ StartCleanup \/ (\E e \in Events : PurgeBlock(e)) \/ PurgeTickets \/ PurgeEvent
        \/ (\E e \in Events : UnblockEvent(e)) \/ AdminUnmark \/ Restart
<1> SUFFICES ASSUME [Next]_vars
             PROVE  Touching!2
  OBVIOUS
<1> USE DEF Untouched, rows, actors
<1>1. CASE Author  BY <1>1 DEF Author, Publish, Enqueue, AuthorDelete, Withdraw
<1>2. CASE Loop    BY <1>2 DEF Loop, PollEvents, PollDisputes, Poll, Drain, Consider, Launch
<1>3. ASSUME NEW s \in Slots, Review(s) PROVE Touching!2
  BY <1>3 DEF Review, Fetch, IssueTicket, Clear, Recheck, Refetch, Rejudge, Resolve, Unticket,
     Others
<1>4. CASE Client
  BY <1>4 DEF Client, Submit, File, StoreCopy, StoreDispute, GetBlock, EnqueueDispute,
     FilingOthers
<1>5. CASE Admin   BY <1>5 DEF Admin, AdminDelete, AdminTickets, AdminOthers
<1>6. CASE Tick    BY <1>6 DEF Tick
<1>7. CASE UNCHANGED vars  BY <1>7 DEF vars
<1>8. CASE Purge   BY <1>8 DEF Purge
<1> QED  BY <1>1, <1>2, <1>3, <1>4, <1>5, <1>6, <1>7, <1>8 DEF Next

Hidden == CleanupReady /\ FailedBlocked

LEMMA HiddenStep ==
    ASSUME Safe, Hidden, [Next]_vars
    PROVE  Hidden'
<1> USE NoValues DEF Hidden, CleanupReady, FailedBlocked, Blocked
<1>0. /\ blocked \in [Events -> Block \cup {Free}] /\ standing \in [Events -> Judgements]
      /\ cleanup \in CleanupState
  BY DEF Safe, TypeOK
<1>1. CASE Untouched  BY <1>1 DEF Untouched
<1>2. ASSUME NEW s \in Slots, Judge(s) PROVE Hidden'
  BY <1>0, <1>2 DEF Judge, rows, Others
<1>3. ASSUME NEW s \in Slots, Mark(s) PROVE Hidden'
  BY <1>0, <1>3, Shapes DEF Mark, Others, Safe, TypeOK
<1>4. ASSUME NEW s \in Slots, Unmark(s) PROVE Hidden'
  BY <1>0, <1>4 DEF Unmark, Others
<1>5. ASSUME NEW d \in Disputes, PutBlock(d) PROVE Hidden'
  <2>1. filing[d].seen \in Block
    BY <1>5 DEF PutBlock, Filing, Safe, HandlerReady
  <2>2. [until |-> filing[d].seen.until, dispute |-> TRUE] \in Block
    BY <2>1 DEF Block
  <2> QED  BY <1>0, <1>5, <2>2 DEF PutBlock, FilingOthers
<1>6. CASE StartCleanup
  BY <1>0, <1>6 DEF StartCleanup, NoPurge, rows
<1>7. ASSUME NEW e \in Events, PurgeBlock(e) PROVE Hidden'
  BY <1>0, <1>7, KeysApart DEF PurgeBlock, CleanupState
<1>8. CASE PurgeTickets
  BY <1>0, <1>8 DEF PurgeTickets, CleanupState
<1>9. CASE PurgeEvent
  BY <1>0, <1>9 DEF PurgeEvent, CleanupState, Forgotten
<1>10. ASSUME NEW e \in Events, UnblockEvent(e) PROVE Hidden'
  BY <1>0, <1>10 DEF UnblockEvent, AdminOthers
<1>11. CASE AdminUnmark
  BY <1>0, <1>11 DEF AdminUnmark, AdminOthers, Forgotten
<1>12. CASE Restart
  BY <1>0, <1>12 DEF Restart, rows, Exposed, NoPurge
<1> QED
  BY Touching, <1>1, <1>2, <1>3, <1>4, <1>5, <1>6, <1>7, <1>8, <1>9, <1>10, <1>11, <1>12

LEMMA HiddenInit == Init => Hidden
  BY DEF Init, Hidden, CleanupReady, FailedBlocked, NoPurge

\* Every variable keeps its type: in particular no retention time goes below
\* zero and no goroutine leaves its stages.
THEOREM TypeCorrect == Spec => []TypeOK
<1>1. Spec => []Safe
  BY SafeInit, SafeStep, PTL DEF Spec
<1>2. Safe => TypeOK
  BY DEF Safe
<1> QED  BY <1>1, <1>2, PTL

\* MarkEventBlockedWithDetails against everything that removes a blocked record:
\* an event that failed its review keeps its record while it is stored, or is on
\* its way out; a restart matters only in the middle of its own clean-up.
THEOREM FailedStaysHidden == Spec => []FailedHidden
<1>1. Safe /\ Hidden /\ [Next]_vars => (Safe /\ Hidden)'
  BY SafeStep, HiddenStep
<1>2. Init => Safe /\ Hidden
  BY SafeInit, HiddenInit
<1>3. Safe /\ Hidden => FailedHidden
  BY DEF Safe, TypeOK, Hidden, FailedBlocked, FailedHidden, BeingPurged
<1> QED  BY <1>1, <1>2, <1>3, PTL DEF Spec

-----------------------------------------------------------------------------
(* Disputes stay on record until their author deletes them *)

\* Only the kind 19842 handler of a dispute stores it, and sent again a dispute
\* names the ticket it named before.
LEMMA DisputesStay ==
    ASSUME Safe, FiledOnRecord, [Next]_vars
    PROVE  \A d \in Disputes : disputed[d] # NoTicket => disputed'[d] = disputed[d]
<1> USE DEF rows, actors
<1>0. disputed \in [Disputes -> Ticket \cup {NoTicket}]
  BY DEF Safe, TypeOK
<1>1. CASE Author  BY <1>1 DEF Author, Publish, Enqueue, AuthorDelete, Withdraw
<1>2. CASE Loop    BY <1>2 DEF Loop, PollEvents, PollDisputes, Poll, Drain, Consider, Launch
<1>3. ASSUME NEW s \in Slots, Review(s) PROVE UNCHANGED disputed
  BY <1>3 DEF Review, Fetch, Judge, Mark, IssueTicket, Clear, Recheck, Refetch, Rejudge,
     Resolve, Unmark, Unticket
<1>4. ASSUME NEW d \in Disputes, NEW t \in tickets, Submit(d, t) PROVE UNCHANGED disputed
  BY <1>4 DEF Submit
<1>5. ASSUME NEW d \in Disputes, File(d)
      PROVE  \A f \in Disputes : disputed[f] # NoTicket => disputed'[f] = disputed[f]
  <2>1. CASE StoreDispute(d)
    BY <1>0, <1>5, <2>1 DEF StoreDispute, Filing, FiledOnRecord
  <2>2. CASE ~StoreDispute(d)
    BY <1>5, <2>2 DEF File, StoreCopy, GetBlock, PutBlock, EnqueueDispute
  <2> QED  BY <2>1, <2>2
<1>6. CASE StartCleanup  BY <1>6 DEF StartCleanup
<1>7. CASE Purge
  BY <1>7 DEF Purge, PurgeBlock, PurgeTickets, PurgeEvent, CleanupOthers
<1>8. CASE Admin
  BY <1>8 DEF Admin, UnblockEvent, AdminDelete, AdminUnmark, AdminTickets, AdminOthers
<1>9. CASE Tick    BY <1>9 DEF Tick
<1>10. CASE Restart  BY <1>10 DEF Restart
<1>11. CASE UNCHANGED vars  BY <1>11 DEF vars
<1> QED
  BY <1>1, <1>2, <1>3, <1>4, <1>5, <1>6, <1>7, <1>8, <1>9, <1>10, <1>11 DEF Next, Client

LEMMA FiledStep ==
    ASSUME Safe, FiledOnRecord, [Next]_vars
    PROVE  FiledOnRecord'
<1> USE DEF FiledOnRecord
<1>0. /\ disputed \in [Disputes -> Ticket \cup {NoTicket}]
      /\ filing \in [Disputes -> FilingState]
  BY DEF Safe, TypeOK
<1>1. CASE UNCHANGED <<disputed, filing>>  BY <1>1
<1>2. ASSUME NEW d \in Disputes, NEW t \in tickets, Submit(d, t) PROVE FiledOnRecord'
  BY <1>0, <1>2 DEF Submit, rows, FilingState
<1>3. ASSUME NEW d \in Disputes, File(d) PROVE FiledOnRecord'
  <2>1. CASE StoreCopy(d)
    BY <1>0, <1>3, <2>1 DEF StoreCopy, Filing, FilingState
  <2>2. CASE StoreDispute(d)
    BY <1>0, <1>3, <2>2 DEF StoreDispute, Filing, FilingState
  <2>3. CASE GetBlock(d)
    <3> DEFINE seen == blocked[filing[d].ticket.event]
               to == IF seen = Free THEN "enqueue" ELSE "put"
    <3>1. filing' = [filing EXCEPT ![d].stage = to, ![d].seen = seen]
      BY <2>3 DEF GetBlock
    <3>2. to \in {"put", "enqueue"}
      OBVIOUS
    <3>3. filing[d].stage = "get" /\ disputed' = disputed
      BY <2>3 DEF GetBlock
    <3> HIDE DEF seen, to
    <3> QED  BY <1>0, <1>3, <3>1, <3>2, <3>3 DEF FilingState
  <2>4. CASE PutBlock(d)
    BY <1>0, <1>3, <2>4 DEF PutBlock, Filing, FilingState
  <2>5. CASE EnqueueDispute(d)
    BY <1>0, <1>3, <2>5 DEF EnqueueDispute, NoFiling, FilingState
  <2> QED  BY <1>3, <2>1, <2>2, <2>3, <2>4, <2>5 DEF File
<1>4. CASE Restart
  BY <1>4 DEF Restart, rows, NoFiling
<1>5. CASE ~Restart /\ ~Client
  <2> USE DEF rows, actors
  <2>1. CASE Author  BY <1>1, <2>1 DEF Author, Publish, Enqueue, AuthorDelete, Withdraw
  <2>2. CASE Loop
    BY <1>1, <2>2 DEF Loop, PollEvents, PollDisputes, Poll, Drain, Consider, Launch
  <2>3. ASSUME NEW s \in Slots, Review(s) PROVE FiledOnRecord'
    <3>1. UNCHANGED disputed /\ UNCHANGED Others
      BY <2>3 DEF Review, Fetch, Judge, Mark, IssueTicket, Clear, Recheck, Refetch, Rejudge,
         Resolve, Unmark, Unticket
    <3> QED  BY <1>1, <3>1 DEF Others
  <2>4. CASE StartCleanup \/ Tick \/ UNCHANGED vars
    BY <1>1, <2>4 DEF StartCleanup, Tick, vars
  <2>5. CASE Purge
    BY <1>1, <2>5 DEF Purge, PurgeBlock, PurgeTickets, PurgeEvent, CleanupOthers
  <2>6. CASE Admin
    BY <1>1, <2>6 DEF Admin, UnblockEvent, AdminDelete, AdminUnmark, AdminTickets, AdminOthers
  <2> QED  BY <1>5, <2>1, <2>2, <2>3, <2>4, <2>5, <2>6 DEF Next
<1> QED  BY <1>2, <1>3, <1>4, <1>5 DEF Client

LEMMA FlagStep ==
    ASSUME Safe, FiledOnRecord, FlagOnRecord, [Next]_vars
    PROVE  FlagOnRecord'
<1> USE DEF FlagOnRecord
<1>0. /\ blocked \in [Events -> Block \cup {Free}]
      /\ \A d \in Disputes : disputed[d] # NoTicket => disputed'[d] = disputed[d]
  BY DisputesStay DEF Safe, TypeOK
<1>1. CASE Untouched  BY <1>0, <1>1 DEF Untouched
<1>2. ASSUME NEW s \in Slots, Judge(s) PROVE FlagOnRecord'
  BY <1>0, <1>2 DEF Judge, rows
<1>3. ASSUME NEW s \in Slots, Mark(s) PROVE FlagOnRecord'
  BY <1>0, <1>3 DEF Mark, FreshBlock
<1>4. ASSUME NEW s \in Slots, Unmark(s) PROVE FlagOnRecord'
  BY <1>0, <1>4 DEF Unmark
<1>5. ASSUME NEW d \in Disputes, PutBlock(d) PROVE FlagOnRecord'
  <2>1. filing[d].ticket \in Ticket /\ disputed[d] = filing[d].ticket
    BY <1>5 DEF PutBlock, Filing, Safe, HandlerReady, FiledOnRecord
  <2>2. /\ blocked' = [blocked EXCEPT ![filing[d].ticket.event] =
                           [until |-> filing[d].seen.until, dispute |-> TRUE]]
        /\ disputed' = disputed
    BY <1>5 DEF PutBlock
  <2> QED  BY <1>0, <1>5, <2>1, <2>2, NoValues
<1>6. CASE StartCleanup  BY <1>0, <1>6 DEF StartCleanup, rows
<1>7. ASSUME NEW e \in Events, PurgeBlock(e) PROVE FlagOnRecord'
  BY <1>0, <1>7 DEF PurgeBlock
<1>8. CASE PurgeTickets \/ PurgeEvent
  BY <1>0, <1>8 DEF PurgeTickets, PurgeEvent
<1>9. ASSUME NEW e \in Events, UnblockEvent(e) PROVE FlagOnRecord'
  BY <1>0, <1>9 DEF UnblockEvent
<1>10. CASE AdminUnmark  BY <1>0, <1>10 DEF AdminUnmark
<1>11. CASE Restart      BY <1>0, <1>11 DEF Restart, rows
<1> QED
  BY Touching, <1>1, <1>2, <1>3, <1>4, <1>5, <1>6, <1>7, <1>8, <1>9, <1>10, <1>11

LEMMA HeldStep ==
    ASSUME Safe, FiledOnRecord, HeldOnRecord, [Next]_vars
    PROVE  HeldOnRecord'
<1> USE KeysApart DEF HeldOnRecord, Held, rows, actors
<1>0. /\ \A d \in Disputes : disputed[d] # NoTicket => disputed'[d] = disputed[d]
      /\ loop \in LoopState /\ queue \subseteq Disputes /\ pending \subseteq Events
      /\ resolved \in [Disputes -> Outcomes] /\ worker \in [Slots -> WorkerState]
      /\ disputed \in [Disputes -> Ticket \cup {NoTicket}]
      /\ filing \in [Disputes -> FilingState]
  BY DisputesStay DEF Safe, TypeOK
<1>1. CASE UNCHANGED <<loop, queue, resolved, worker>>
  BY <1>0, <1>1
<1>2. CASE Loop
  <2>1. CASE PollEvents \/ PollDisputes
    BY <1>0, <2>1 DEF PollEvents, PollDisputes, Poll, LoopState, NoTask
  <2>2. ASSUME NEW x \in Task, Drain(x) PROVE HeldOnRecord'
    BY <1>0, <2>2 DEF Drain, LoopState
  <2>3. ASSUME NEW x \in Task, Consider(x) PROVE HeldOnRecord'
    BY <1>0, <2>3 DEF Consider, LoopState
  <2>4. ASSUME NEW s \in Slots, Launch(s) PROVE HeldOnRecord'
    BY <1>0, <2>4 DEF Launch, LoopState, WorkerState
  <2> QED  BY <1>2, <2>1, <2>2, <2>3, <2>4 DEF Loop
<1>3. ASSUME NEW s \in Slots, Review(s) PROVE HeldOnRecord'
  <2>1. UNCHANGED <<loop, queue, disputed>>
    BY <1>3 DEF Review, Fetch, Judge, Mark, IssueTicket, Clear, Recheck, Refetch, Rejudge,
       Resolve, Unmark, Unticket, Others
  <2>2. \A u \in Slots : worker'[u].on \in {worker[u].on, Nobody}
    BY <1>0, <1>3, Moves DEF Go, Done, NoReview, WorkerState
  <2>3. \A d \in Disputes : resolved'[d] = resolved[d] \/ worker[s].on = d
    <3>1. CASE Resolve(s)   BY <1>0, <3>1 DEF Resolve
    <3>2. CASE ~Resolve(s)
      BY <1>3, <3>2 DEF Review, Fetch, Judge, Mark, IssueTicket, Clear, Recheck, Refetch,
         Rejudge, Unmark, Unticket
    <3> QED  BY <3>1, <3>2
  <2> QED  BY <1>0, <1>3, <2>1, <2>2, <2>3
<1>4. ASSUME NEW d \in Disputes, File(d) PROVE HeldOnRecord'
  <2>1. CASE EnqueueDispute(d)
    <3>1. disputed[d] # NoTicket
      BY <1>4, <2>1, NoValues DEF EnqueueDispute, FiledOnRecord, Safe, HandlerReady
    <3> QED  BY <1>0, <1>4, <2>1, <3>1 DEF EnqueueDispute, FilingOthers
  <2>2. CASE ~EnqueueDispute(d)
    BY <1>1, <1>4, <2>2 DEF File, StoreCopy, StoreDispute, GetBlock, PutBlock, FilingOthers
  <2> QED  BY <2>1, <2>2
<1>5. CASE Restart
  BY <1>0, <1>5 DEF Restart, NoTask, NoReview
<1>6. CASE Author  BY <1>1, <1>6 DEF Author, Publish, Enqueue, AuthorDelete, Withdraw
<1>7. ASSUME NEW d \in Disputes, NEW t \in tickets, Submit(d, t) PROVE HeldOnRecord'
  BY <1>1, <1>7 DEF Submit
<1>8. CASE StartCleanup \/ Tick \/ UNCHANGED vars
  BY <1>1, <1>8 DEF StartCleanup, Tick, vars
<1>9. CASE Purge
  BY <1>1, <1>9 DEF Purge, PurgeBlock, PurgeTickets, PurgeEvent, CleanupOthers
<1>10. CASE Admin
  BY <1>1, <1>10 DEF Admin, UnblockEvent, AdminDelete, AdminUnmark, AdminTickets, AdminOthers
<1> QED
  BY <1>2, <1>3, <1>4, <1>5, <1>6, <1>7, <1>8, <1>9, <1>10 DEF Next, Client

LEMMA RecordInit == Init => Record
  BY KeysApart DEF Init, Record, HeldOnRecord, Held, FiledOnRecord, FlagOnRecord, NoTask,
     NoReview, NoFiling

\* The kind 19842 handler stores a dispute before it flags the event and queues
\* the dispute, so neither a crash between any two of its steps nor any other
\* actor but the dispute's own author, who may delete it at any of these points
\* and send it again, leaves a queue entry, a resolution or a flag without it.
THEOREM DisputesTraceable == Spec => []DisputesOnRecord
<1>1. Safe /\ Record /\ [Next]_vars => (Safe /\ Record)'
  BY SafeStep, FiledStep, FlagStep, HeldStep DEF Record
<1>2. Init => Safe /\ Record
  BY SafeInit, RecordInit
<1>3. Record => DisputesOnRecord
  BY DEF Record, HeldOnRecord, Held, FlagOnRecord, DisputesOnRecord, Traceable, OnRecord,
     EventOf, Blocked
<1> QED  BY <1>1, <1>2, <1>3, PTL DEF Spec

-----------------------------------------------------------------------------
(* Nothing slips past review *)

\* Nobody reviews a post while the clean-up or an admin is deleting it, and
\* nobody sends it again before the admin's deletion has removed its record.
\* The clean-up works through the list of one scan, whatever has happened to
\* the records since, so the code does not make this true by itself: a post
\* that an admin puts back and that fails again meanwhile loses its new record.
Apart ==
    \A e \in Events :
        /\ e \in cleanup.todo \/ cleanup.on = e => ~InReview(e)
        /\ admin.on = e => ~InReview(e) /\ e \notin stored

\* The relay is restarted when nothing is under way: what a goroutine holds in
\* memory is in no queue any more.
Orderly == Restart => Settling

\* A goroutine that reviews a post is in a stage of processEvent ...
Staged ==
    \A s \in Slots : worker[s].on \in Events =>
        worker[s].stage \in {"fetch", "judge", "mark", "ticket", "clear"}

\* ... and once it has its answer, the post is judged: this is why it may delete
\* the queue's key, even one that the post, sent again, has put there meanwhile.
Judged(e) == standing[e] # "new" \/ Blocked(e)
JudgedLast ==
    \A s \in Slots, e \in Events :
        worker[s].on = e /\ worker[s].stage \in {"ticket", "clear"} => Judged(e)

Reviewed == Staged /\ JudgedLast /\ NothingUnreviewed

\* What a review does to the goroutines: its own, and only that.
LEMMA Still ==
    ASSUME Safe, NEW s \in Slots, Review(s)
    PROVE  /\ \A u \in Slots \ {s} : worker'[u] = worker[u]
           /\ worker'[s] = NoReview \/ worker'[s].on = worker[s].on
           /\ UNCHANGED Others
<1>1. worker \in [Slots -> WorkerState]
  BY DEF Safe, TypeOK
<1>2. UNCHANGED Others
  BY DEF Review, Fetch, Judge, Mark, IssueTicket, Clear, Recheck, Refetch, Rejudge, Resolve,
     Unmark, Unticket
<1> QED  BY <1>1, <1>2, Moves DEF Go, Done, WorkerState

\* A judgement is taken back, and a record removed without one, only by the two
\* deletions.
LEMMA JudgedStays ==
    ASSUME Safe, Apart, Orderly, [Next]_vars, NEW e \in Events, Judged(e), InReview(e)
    PROVE  Judged(e)'
<1> USE NoValues DEF Judged, Blocked
<1>0. /\ blocked \in [Events -> Block \cup {Free}] /\ standing \in [Events -> Judgements]
      /\ cleanup.on # e /\ e \notin cleanup.todo /\ admin.on # e
  BY DEF Safe, TypeOK, Apart
<1>1. CASE Untouched  BY <1>1 DEF Untouched
<1>2. ASSUME NEW s \in Slots, Judge(s) PROVE Judged(e)'
  BY <1>0, <1>2 DEF Judge, rows
<1>3. ASSUME NEW s \in Slots, Mark(s) PROVE Judged(e)'
  BY <1>0, <1>3 DEF Mark
<1>4. ASSUME NEW s \in Slots, Unmark(s) PROVE Judged(e)'
  BY <1>0, <1>4 DEF Unmark
<1>5. ASSUME NEW d \in Disputes, PutBlock(d) PROVE Judged(e)'
  <2>1. filing[d].seen \in Block
    BY <1>5 DEF PutBlock, Filing, Safe, HandlerReady
  <2>2. [until |-> filing[d].seen.until, dispute |-> TRUE] \in Block
    BY <2>1 DEF Block
  <2> QED  BY <1>0, <1>5, <2>2 DEF PutBlock, FilingOthers
<1>6. CASE StartCleanup \/ PurgeTickets
  BY <1>6 DEF StartCleanup, PurgeTickets, rows
<1>7. ASSUME NEW x \in Events, PurgeBlock(x) PROVE Judged(e)'
  BY <1>0, <1>7 DEF PurgeBlock
<1>8. CASE PurgeEvent   BY <1>0, <1>8 DEF PurgeEvent
<1>9. ASSUME NEW x \in Events, UnblockEvent(x) PROVE Judged(e)'
  BY <1>0, <1>9 DEF UnblockEvent
<1>10. CASE AdminUnmark  BY <1>0, <1>10 DEF AdminUnmark
<1>11. CASE Restart
  <2> Settling  BY <1>11 DEF Orderly
  <2> QED  BY KeysApart DEF Settling, InReview, NoReview
<1> QED
  BY Touching, <1>1, <1>2, <1>3, <1>4, <1>5, <1>6, <1>7, <1>8, <1>9, <1>10, <1>11

LEMMA Workless ==
    [Next]_vars => \/ UNCHANGED worker \/ Restart
                   \/ \E s \in Slots : Launch(s) \/ Review(s)
<1> SUFFICES ASSUME [Next]_vars, ~Restart, \A s \in Slots : ~Launch(s) /\ ~Review(s)
             PROVE  UNCHANGED worker
  OBVIOUS
<1> USE DEF actors
<1>1. CASE Author  BY <1>1 DEF Author, Publish, Enqueue, AuthorDelete, Withdraw
<1>2. CASE Loop    BY <1>2 DEF Loop, PollEvents, PollDisputes, Poll, Drain, Consider
<1>3. CASE Client
  BY <1>3 DEF Client, Submit, File, StoreCopy, StoreDispute, GetBlock, PutBlock, EnqueueDispute,
     FilingOthers
<1>4. CASE Purge \/ StartCleanup
  BY <1>4 DEF StartCleanup, Purge, PurgeBlock, PurgeTickets, PurgeEvent, CleanupOthers
<1>5. CASE Admin
  BY <1>5 DEF Admin, UnblockEvent, AdminDelete, AdminUnmark, AdminTickets, AdminOthers
<1>6. CASE Tick \/ UNCHANGED vars  BY <1>6 DEF Tick, vars
<1> QED  BY <1>1, <1>2, <1>3, <1>4, <1>5, <1>6 DEF Next

LEMMA StagedStep ==
    ASSUME Safe, Staged, [Next]_vars
    PROVE  Staged'
<1> USE KeysApart DEF Staged
<1>0. worker \in [Slots -> WorkerState] /\ loop \in LoopState
  BY DEF Safe, TypeOK
<1>1. CASE UNCHANGED worker  BY <1>1
<1>2. ASSUME NEW s \in Slots, Launch(s) PROVE Staged'
  BY <1>0, <1>2 DEF Launch, LoopState, WorkerState
<1>3. ASSUME NEW s \in Slots, Review(s) PROVE Staged'
  <2>1. ASSUME worker'[s].on \in Events
        PROVE  worker'[s].stage \in {"fetch", "judge", "mark", "ticket", "clear"}
    <3>1. worker'[s].on = worker[s].on /\ worker[s].on \in Events
      BY <1>0, <1>3, <2>1, Still DEF NoReview
    <3>2. worker[s].stage \in {"fetch", "judge", "mark", "ticket", "clear"} /\ worker'[s] # NoReview
      BY <2>1, <3>1 DEF NoReview
    <3>3. CASE Fetch(s) \/ Mark(s) \/ IssueTicket(s) \/ Clear(s)
      BY <1>0, <3>2, <3>3 DEF Fetch, Mark, IssueTicket, Clear, Go, Done, WorkerState
    <3>4. CASE Judge(s)
      <4> PICK answer \in Answers : Go(s, IF answer = "block" THEN "mark" ELSE "clear")
        BY <3>4 DEF Judge
      <4> QED  BY <1>0 DEF Go, WorkerState
    <3>5. ~(Recheck(s) \/ Refetch(s) \/ Rejudge(s) \/ Resolve(s) \/ Unmark(s) \/ Unticket(s))
      BY <3>2 DEF Recheck, Refetch, Rejudge, Resolve, Unmark, Unticket, At
    <3> QED  BY <1>3, <3>3, <3>4, <3>5 DEF Review
  <2> QED  BY <1>3, <2>1, Still
<1>4. CASE Restart  BY <1>4 DEF Restart, NoReview
<1> QED
  BY <1>1, <1>2, <1>3, <1>4, Workless

LEMMA JudgedStep ==
    ASSUME "error" \notin Answers,
           Safe, Staged, JudgedLast, Apart, Orderly, [Next]_vars
    PROVE  JudgedLast'
<1>0. worker \in [Slots -> WorkerState] /\ loop \in LoopState
  BY DEF Safe, TypeOK
<1> SUFFICES ASSUME NEW u \in Slots, NEW e \in Events,
                    worker'[u].on = e, worker'[u].stage \in {"ticket", "clear"}
             PROVE  Judged(e)'
  BY DEF JudgedLast
<1>1. CASE worker'[u] = worker[u]
  <2>1. Judged(e) /\ InReview(e)
    BY <1>1 DEF JudgedLast, InReview
  <2> QED  BY <2>1, JudgedStays
<1>2. ASSUME NEW s \in Slots, Launch(s) PROVE Judged(e)'
  <2>1. CASE s = u   BY <1>0, <1>2, <2>1 DEF Launch, WorkerState
  <2>2. CASE s # u   BY <1>0, <1>1, <1>2, <2>2 DEF Launch
  <2> QED  BY <2>1, <2>2
<1>3. CASE Review(u)
  <2>1. worker[u].on = e /\ worker'[u] # NoReview
    BY <1>3, Still, KeysApart DEF NoReview
  <2>2. CASE Judge(u)
    <3>1. PICK answer \in Answers :
             /\ Go(u, IF answer = "block" THEN "mark" ELSE "clear")
             /\ standing' = IF answer = "pass" /\ ~Blocked(e)
                            THEN [standing EXCEPT ![e] = "cleared"] ELSE standing
      BY <2>1, <2>2 DEF Judge
    <3>2. CASE answer = "pass"
      <4>1. blocked' = blocked /\ standing \in [Events -> Judgements]
        BY <2>2 DEF Judge, rows, Safe, TypeOK
      <4> QED  BY <2>1, <3>1, <3>2, <4>1 DEF Judged, Blocked
    <3>3. CASE answer = "block"
      BY <1>0, <3>1, <3>3 DEF Go, WorkerState
    <3> QED  BY <3>2, <3>3, AnswersAssumption
  <2>3. CASE Mark(u)
    <3>1. standing' = [standing EXCEPT ![e] = "failed"] /\ standing \in [Events -> Judgements]
      BY <2>1, <2>3 DEF Mark, Safe, TypeOK
    <3> QED  BY <2>1, <3>1 DEF Judged
  <2>4. CASE IssueTicket(u)
    <3>1. worker[u].stage = "ticket" /\ UNCHANGED <<standing, blocked>>
      BY <2>4 DEF IssueTicket, At
    <3> QED  BY <2>1, <3>1 DEF Judged, JudgedLast, Blocked
  <2>5. ~(Judge(u) \/ Mark(u) \/ IssueTicket(u)) => FALSE
    <3>1. worker[u].stage \in {"fetch", "judge", "mark", "ticket", "clear"}
      BY <2>1 DEF Staged
    <3>2. Fetch(u) => FALSE
      <4> SUFFICES ASSUME Fetch(u), ~ Done(u) PROVE FALSE
        BY <1>0, <2>1 DEF Done
      <4> QED  BY <1>0 DEF Fetch, Go, WorkerState
    <3>3. ~Clear(u)
      BY <1>0, <2>1 DEF Clear, Done
    <3> QED
      BY <1>3, <3>1, <3>2, <3>3 DEF Review, Recheck, Refetch, Rejudge, Resolve, Unmark,
         Unticket, At
  <2> QED  BY <2>2, <2>3, <2>4, <2>5
<1>4. CASE Restart  BY <1>4 DEF Restart, NoReview
<1> QED  BY <1>1, <1>2, <1>3, <1>4, Workless, Still

LEMMA NothingStep ==
    ASSUME Safe, CleanupReady, Reviewed, Apart, Orderly, [Next]_vars
    PROVE  NothingUnreviewed'
<1> SUFFICES ASSUME NEW e \in Events, e \in stored', standing'[e] = "new"
             PROVE  (Blocked(e) \/ Queued(e) \/ InReview(e) \/ BeingPurged(e))'
  BY SafeStep DEF NothingUnreviewed, Safe, TypeOK
<1> DEFINE Accounted == Blocked(e) \/ Queued(e) \/ InReview(e) \/ BeingPurged(e)
<1> USE NoValues, KeysApart DEF Blocked, Queued, InLoop, InReview, BeingPurged, rows, actors
<1>0. /\ blocked \in [Events -> Block \cup {Free}] /\ standing \in [Events -> Judgements]
      /\ worker \in [Slots -> WorkerState] /\ loop \in LoopState /\ cleanup \in CleanupState
      /\ e \in stored /\ standing[e] = "new" => Accounted
      /\ (e \in cleanup.todo \/ cleanup.on = e) => ~InReview(e)
      /\ admin.on = e => e \notin stored
  BY DEF Safe, TypeOK, Reviewed, NothingUnreviewed, Apart
<1>1. ASSUME NEW x \in Events, Publish(x) PROVE Accounted'
  BY <1>0, <1>1 DEF Publish
<1>2. ASSUME NEW x \in Events, Enqueue(x) PROVE Accounted'
  BY <1>0, <1>2 DEF Enqueue
<1>3. ASSUME NEW x \in Events, AuthorDelete(x) PROVE Accounted'
  BY <1>0, <1>3 DEF AuthorDelete
<1>20. ASSUME NEW d \in Disputes, Withdraw(d) PROVE Accounted'
  BY <1>0, <1>20 DEF Withdraw
<1>4. CASE PollEvents \/ PollDisputes
  BY <1>0, <1>4 DEF PollEvents, PollDisputes, Poll, LoopState, NoTask
<1>5. ASSUME NEW x \in Task, Drain(x) PROVE Accounted'
  BY <1>0, <1>5 DEF Drain, LoopState
<1>6. ASSUME NEW x \in Task, Consider(x) PROVE Accounted'
  BY <1>0, <1>6 DEF Consider, LoopState
<1>7. ASSUME NEW s \in Slots, Launch(s) PROVE Accounted'
  BY <1>0, <1>7 DEF Launch, LoopState, WorkerState, NoReview
<1>8. ASSUME NEW s \in Slots, Review(s) PROVE Accounted'
  <2>0. /\ UNCHANGED Others
        /\ \A u \in Slots \ {s} : worker'[u] = worker[u]
        /\ worker'[s] = NoReview \/ worker'[s].on = worker[s].on
    BY <1>8, Still
  <2>1. stored' = stored
    BY <1>8 DEF Review, Fetch, Judge, Mark, IssueTicket, Clear, Recheck, Refetch, Rejudge,
       Resolve, Unmark, Unticket
  <2>2. standing[e] = "new"
    BY <1>0, <1>8 DEF Review, Fetch, Judge, Mark, IssueTicket, Clear, Recheck, Refetch, Rejudge,
       Resolve, Unmark, Unticket
  <2>3. Accounted
    BY <1>0, <2>1, <2>2
  <2>4. Blocked(e) => Blocked(e)'
    <3>1. CASE Mark(s)    BY <1>0, <3>1 DEF Mark
    <3>2. CASE Unmark(s)  BY <1>0, <3>2 DEF Unmark
    <3> QED
      BY <1>8, <3>1, <3>2 DEF Review, Fetch, Judge, IssueTicket, Clear, Recheck, Refetch,
         Rejudge, Resolve, Unticket
  <2>5. CASE worker[s].on # e \/ worker'[s].on = e
    <3>1. InReview(e) => InReview(e)'
      BY <2>0, <2>5
    <3>2. Queued(e) => Queued(e)'
      <4>1. CASE Clear(s)
        <5>1. worker[s].on # e /\ pending' = pending \ {worker[s].on}
          BY <1>0, <2>5, <4>1 DEF Clear, Done, NoReview
        <5> QED  BY <2>0, <5>1 DEF Others
      <4>2. CASE ~Clear(s)
        BY <1>8, <2>0, <4>2 DEF Others, Review, Fetch, Judge, Mark, IssueTicket, Recheck, Refetch,
           Rejudge, Resolve, Unmark, Unticket
      <4> QED  BY <4>1, <4>2
    <3> QED  BY <2>0, <2>3, <2>4, <3>1, <3>2 DEF Others
  <2>6. CASE worker[s].on = e /\ worker'[s].on # e
    <3>1. worker[s].stage \in {"fetch", "judge", "mark", "ticket", "clear"}
      BY <2>6 DEF Reviewed, Staged
    <3>3. CASE Clear(s)
      <4>1. Judged(e)
        BY <2>6, <3>3 DEF Reviewed, JudgedLast, Clear, At
      <4> QED  BY <2>2, <2>4, <4>1 DEF Judged
    <3>4. CASE Fetch(s)
      BY <1>0, <2>1, <2>6, <3>4 DEF Fetch, Go, WorkerState
    <3>5. CASE ~Clear(s) /\ ~Fetch(s)
      <4>1. Judge(s) \/ Mark(s) \/ IssueTicket(s)
        BY <1>8, <3>1, <3>5 DEF Review, Recheck, Refetch, Rejudge, Resolve, Unmark, Unticket, At
      <4>2. \E to \in WorkerStages : Go(s, to)
        <5>1. CASE Judge(s)
          <6> PICK answer \in Answers : Go(s, IF answer = "block" THEN "mark" ELSE "clear")
            BY <5>1 DEF Judge
          <6> QED  BY Zenon DEF WorkerStages
        <5>2. CASE Mark(s) \/ IssueTicket(s)
          BY <5>2 DEF Mark, IssueTicket, WorkerStages
        <5> QED  BY <4>1, <5>1, <5>2
      <4> QED  BY <1>0, <2>6, <4>2 DEF Go, WorkerState
    <3> QED  BY <3>3, <3>4, <3>5
  <2> QED  BY <2>5, <2>6
<1>9. ASSUME NEW d \in Disputes, NEW t \in tickets, Submit(d, t) PROVE Accounted'
  BY <1>0, <1>9 DEF Submit
<1>10. ASSUME NEW d \in Disputes, File(d) PROVE Accounted'
  <2>1. CASE PutBlock(d)
    <3>1. filing[d].seen \in Block
      BY <1>10, <2>1 DEF PutBlock, Filing, Safe, HandlerReady
    <3>2. [until |-> filing[d].seen.until, dispute |-> TRUE] \in Block
      BY <3>1 DEF Block
    <3> QED  BY <1>0, <2>1, <3>2 DEF PutBlock, FilingOthers
  <2>2. CASE ~PutBlock(d)
    BY <1>0, <1>10, <2>2 DEF File, StoreCopy, StoreDispute, GetBlock, EnqueueDispute,
       FilingOthers
  <2> QED  BY <2>1, <2>2
<1>11. CASE StartCleanup \/ Tick \/ UNCHANGED vars
  BY <1>0, <1>11 DEF StartCleanup, NoPurge, Tick, vars
<1>12. ASSUME NEW x \in Events, PurgeBlock(x) PROVE Accounted'
  BY <1>0, <1>12 DEF PurgeBlock, CleanupOthers, CleanupState, CleanupReady
<1>13. CASE PurgeTickets
  BY <1>0, <1>13 DEF PurgeTickets, CleanupOthers, CleanupState
<1>14. CASE PurgeEvent
  BY <1>0, <1>14 DEF PurgeEvent, CleanupOthers, CleanupState
<1>15. ASSUME NEW x \in Events, UnblockEvent(x) PROVE Accounted'
  BY <1>0, <1>15 DEF UnblockEvent, AdminOthers
<1>16. ASSUME NEW x \in Events, AdminDelete(x) PROVE Accounted'
  BY <1>0, <1>16 DEF AdminDelete, AdminOthers
<1>17. CASE AdminUnmark
  BY <1>0, <1>17 DEF AdminUnmark, AdminOthers
<1>18. CASE AdminTickets
  BY <1>0, <1>18 DEF AdminTickets, AdminOthers
<1>19. CASE Restart
  <2>1. Settling
    BY <1>19 DEF Orderly
  <2>2. standing'[e] = standing[e]
    BY <1>19, <2>1 DEF Restart, Exposed, Settling, NoPurge
  <2> QED  BY <1>0, <1>19, <2>1, <2>2 DEF Restart, Settling, NoTask, NoReview, NoPurge
<1> QED
  BY <1>1, <1>2, <1>3, <1>4, <1>5, <1>6, <1>7, <1>8, <1>9, <1>10, <1>11, <1>12, <1>13, <1>14,
     <1>15, <1>16, <1>17, <1>18, <1>19, <1>20 DEF Next, Author, Loop, Client, Purge, Admin

LEMMA ReviewedInit == Init => Reviewed
  BY KeysApart DEF Init, Reviewed, Staged, JudgedLast, NothingUnreviewed, NoReview

\* The queue, the loop and the review goroutines between them lose no post: as
\* long as the media service answers, the relay is restarted only when nothing
\* is under way, and no post is reviewed while it is being deleted, a stored post
\* is blocked, on its way to or in a review, being purged, or was judged.  Posts
\* may be sent again, deleted by their authors, put back and disputed at any time.
THEOREM EveryPostReviewed ==
    ASSUME "error" \notin Answers
    PROVE  Spec /\ []Apart /\ [][Orderly]_vars => []NothingUnreviewed
<1> DEFINE I == Safe /\ Hidden /\ Reviewed
<1>1. I /\ Apart /\ [Next]_vars /\ [Orderly]_vars => I'
  <2> SUFFICES ASSUME I, Apart, [Next]_vars, [Orderly]_vars PROVE I'
    OBVIOUS
  <2>1. Safe' /\ Hidden'
    BY SafeStep, HiddenStep
  <2>2. CASE Orderly
    BY <2>1, <2>2, StagedStep, JudgedStep, NothingStep DEF Reviewed, Hidden
  <2>3. CASE UNCHANGED vars
    <3>1. count' = count /\ count \in Counts
      BY <2>3 DEF vars, Safe, TypeOK
    <3>2. ~Restart
      BY <3>1 DEF Restart, Counts
    <3> QED  BY <2>2, <3>2 DEF Orderly
  <2> QED  BY <2>2, <2>3
<1>2. Init => I
  BY SafeInit, HiddenInit, ReviewedInit
<1>3. I => NothingUnreviewed
  BY DEF Reviewed
<1> HIDE DEF I
<1> QED  BY <1>1, <1>2, <1>3, PTL DEF Spec
=============================================================================
