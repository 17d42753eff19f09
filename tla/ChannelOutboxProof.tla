------------------------- MODULE ChannelOutboxProof -------------------------
(***************************************************************************)
(* Proofs about ChannelOutbox, for every number of rows, every bound and   *)
(* every fault but "unclear": type correctness, that no row is ever posted *)
(* twice, and that a delivered message shows the text of its row.          *)
(* And, whatever the provider answers: the text a user sees falls back     *)
(* only when a request the gateway gave up on arrives late.                *)
(*                                                                         *)
(* AtMostOneMessage is not inductive.  SendInv adds what keeps a second    *)
(* send away: a row that still waits for its first message has not been    *)
(* sent at all, a job of the batch holds its row in SENDING until it is    *)
(* answered, and a job whose request ended without a clear answer leaves   *)
(* its row where nothing claims it.                                        *)
(***************************************************************************)
EXTENDS ChannelOutbox, TLAPS, FiniteSetTheorems

LEMMA BoundsAreNat == 0 \in Texts /\ MaxFaults \in Nat /\ MaxCrashes \in Nat
BY OutboxBounds DEF Texts

LEMMA TextBounds ==
    ASSUME NEW t \in Texts
    PROVE  t \in Nat /\ t <= MaxText /\ MaxText \in Nat /\ MaxText \in Texts /\ 1 \in Texts
           /\ (t < MaxText => t + 1 \in Texts)
BY OutboxBounds DEF Texts

-----------------------------------------------------------------------------
(* Type correctness.                                                       *)

LEMMA NoRowType == NoRow \in OutboxRows /\ NewRow \in OutboxRows
<1>1. 0 \in Texts /\ 1 \in Texts
  BY OutboxBounds DEF Texts
<1>. QED
  BY <1>1 DEF NoRow, NewRow, OutboxRows, Statuses

LEMMA TypeInit == Init => TypeOK
BY NoRowType, BoundsAreNat
   DEF Init, TypeOK, TableTypeOK, LoopTypeOK, ProviderTypeOK, HistoryTypeOK

(* What the updates of a row return is a row. *)
LEMMA UpdateTypes ==
    ASSUME NEW x \in OutboxRows, NEW job \in Jobs, NEW how
    PROVE  /\ Delivered(x, job) \in OutboxRows
           /\ Failed(x, how) \in OutboxRows
           /\ Recovered(x) \in OutboxRows
<1>1. Delivered(x, job) \in OutboxRows
  BY DEF Delivered, OutboxRows, Statuses
<1>2. Failed(x, how) \in OutboxRows
  BY DEF Failed, OutboxRows, Statuses
<1>3. Recovered(x) \in OutboxRows
  BY DEF Recovered, OutboxRows, Statuses
<1>. QED
  BY <1>1, <1>2, <1>3

LEMMA WriteTypes ==
    ASSUME NEW x \in OutboxRows, NEW t \in Texts, NEW b \in BOOLEAN
    PROVE  /\ [x EXCEPT !.desired = t, !.status = RewrittenStatus(x), !.due = b] \in OutboxRows
           /\ [x EXCEPT !.due = TRUE] \in OutboxRows
           /\ [x EXCEPT !.status = "SENDING", !.attempts = @ + 1] \in OutboxRows
<1>1. RewrittenStatus(x) \in Statuses
  BY DEF RewrittenStatus, OutboxRows, Statuses
<1>2. [x EXCEPT !.desired = t, !.status = RewrittenStatus(x), !.due = b] \in OutboxRows
  BY <1>1 DEF OutboxRows
<1>3. [x EXCEPT !.due = TRUE] \in OutboxRows
  BY DEF OutboxRows
<1>4. [x EXCEPT !.status = "SENDING", !.attempts = @ + 1] \in OutboxRows
  <2>1. x.attempts + 1 \in Nat
    BY DEF OutboxRows
  <2>. QED
    BY <2>1 DEF OutboxRows, Statuses
<1>. QED
  BY <1>2, <1>3, <1>4

(* What a claim returns is a sequence of jobs. *)
LEMMA ClaimType ==
    ASSUME TableTypeOK, Claim
    PROVE  /\ batch' \in Seq(Jobs)
           /\ \A i \in DOMAIN batch' : batch'[i].row \in Claimed /\ batch'[i] = JobFor(batch'[i].row)
           /\ \A i, j \in DOMAIN batch' : batch'[i].row = batch'[j].row => i = j
<1>1. Claimed \subseteq Rows /\ Claimed \subseteq Claimable
  BY DEF Claimed, Claimable
<1>2. IsFiniteSet(Claimed)
  <2>1. IsFiniteSet(Rows)
    BY OutboxBounds, FS_Interval DEF Rows
  <2>. QED
    BY <1>1, <2>1, FS_Subset
<1>3. Cardinality(Claimed) \in Nat
  BY <1>2, FS_CardinalityType
<1>4. PICK order \in [1 .. Cardinality(Claimed) -> Claimed] :
          /\ \A i, j \in DOMAIN order : i < j => order[i] < order[j]
          /\ batch' = [i \in DOMAIN order |-> JobFor(order[i])]
  BY DEF Claim
<1>5. \A r \in Claimed : JobFor(r) \in Jobs /\ JobFor(r).row = r
  <2>1. \A r \in Claimed : r \in Rows /\ row[r] \in OutboxRows
    BY <1>1 DEF TableTypeOK
  <2>. QED
    BY <2>1 DEF OutboxRows, JobFor, Jobs
<1>6. batch' \in [1 .. Cardinality(Claimed) -> Jobs] /\ DOMAIN batch' = DOMAIN order
  BY <1>4, <1>5
<1>7. \A i, j \in DOMAIN order : order[i] = order[j] => i = j
  <2>1. \A i \in DOMAIN order : order[i] \in Int
    <3>1. Claimed \subseteq Int
      BY <1>1, OutboxBounds DEF Rows
    <3>. QED
      BY <3>1
  <2>2. \A i, j \in DOMAIN order : i = j \/ i < j \/ j < i
    BY <1>3
  <2>. QED
    BY <2>1, <2>2, <1>4
<1>. QED
  BY <1>3, <1>4, <1>5, <1>6, <1>7

LEMMA JobType ==
    ASSUME LoopTypeOK, batch # <<>>
    PROVE  /\ Job \in Jobs /\ Job = batch[1] /\ 1 \in DOMAIN batch
           /\ Tail(batch) \in Seq(Jobs)
           /\ DOMAIN Tail(batch) = 1 .. Len(batch) - 1
           /\ \A i \in DOMAIN Tail(batch) : i + 1 \in DOMAIN batch /\ Tail(batch)[i] = batch[i + 1]
<1>1. batch \in Seq(Jobs)
  BY DEF LoopTypeOK
<1>2. /\ Head(batch) \in Jobs /\ Head(batch) = batch[1] /\ Tail(batch) \in Seq(Jobs)
      /\ Len(batch) \in Nat /\ Len(batch) >= 1 /\ DOMAIN batch = 1 .. Len(batch)
      /\ Len(Tail(batch)) = Len(batch) - 1
  BY <1>1
<1>3. \A i \in 1 .. Len(batch) - 1 : Tail(batch)[i] = batch[i + 1]
  BY <1>1, <1>2
<1>. QED
  BY <1>2, <1>3 DEF Job

LEMMA AcceptType ==
    ASSUME ProviderTypeOK, NEW job \in Jobs, Accept(job)
    PROVE  posts' \in [Rows -> Nat] /\ shown' \in [Rows -> Texts]
<1>1. job.row \in Rows /\ job.text \in Texts
  BY DEF Jobs
<1>2. shown' = [shown EXCEPT ![job.row] = job.text]
  BY DEF Accept
<1>3. posts' = posts \/ posts' = [posts EXCEPT ![job.row] = posts[job.row] + 1]
  BY DEF Accept
<1>. QED
  BY <1>1, <1>2, <1>3 DEF ProviderTypeOK

LEMMA AbandonedType ==
    ASSUME LoopTypeOK, ProviderTypeOK, batch # <<>>, Abandoned
    PROVE  ProviderTypeOK'
<1>1. CASE UNCHANGED <<posts, shown, late>>
  BY <1>1 DEF ProviderTypeOK
<1>2. CASE Accept(Job) /\ UNCHANGED late
  BY <1>2, AcceptType, JobType DEF ProviderTypeOK
<1>3. CASE late' = late \cup {Job} /\ UNCHANGED <<posts, shown>>
  BY <1>3, JobType DEF ProviderTypeOK
<1>. QED
  BY <1>1, <1>2, <1>3 DEF Abandoned

LEMMA TypeNext == TypeOK /\ [Next]_vars => TypeOK'
<1>. SUFFICES ASSUME TableTypeOK, LoopTypeOK, ProviderTypeOK, HistoryTypeOK, [Next]_vars
              PROVE  TypeOK'
  BY DEF TypeOK
<1>1. ASSUME NEW r \in Rows, Enqueue(r) PROVE TypeOK'
  <2>1. row' \in [Rows -> OutboxRows] /\ text' \in [Rows -> Texts]
    BY <1>1, NoRowType, TextBounds, BoundsAreNat DEF Enqueue, TableTypeOK
  <2>. QED
    BY <1>1, <2>1 DEF Enqueue, TypeOK, TableTypeOK, LoopTypeOK, ProviderTypeOK, HistoryTypeOK
<1>2. ASSUME NEW r \in Rows, RunProgresses(r) PROVE TypeOK'
  <2>1. text[r] \in Texts /\ text[r] < MaxText
    BY <1>2, OutboxBounds DEF RunProgresses, TableTypeOK, Texts
  <2>2. text' \in [Rows -> Texts]
    BY <1>2, <2>1, TextBounds DEF RunProgresses, TableTypeOK
  <2>. QED
    BY <1>2, <2>2 DEF RunProgresses, TypeOK, TableTypeOK, LoopTypeOK, ProviderTypeOK, HistoryTypeOK
<1>3. ASSUME NEW r \in Rows, Reduce(r) PROVE TypeOK'
  <2>. DEFINE x == [row[r] EXCEPT !.desired = text[r], !.status = RewrittenStatus(row[r]),
                                  !.due = text[r] = MaxText]
  <2>1. row[r] \in OutboxRows /\ text[r] \in Texts /\ (text[r] = MaxText) \in BOOLEAN
    BY DEF TableTypeOK
  <2>2. x \in OutboxRows
    BY <2>1, WriteTypes
  <2>3. row' = [row EXCEPT ![r] = x]
    BY <1>3 DEF Reduce, TableTypeOK
  <2>. HIDE DEF x
  <2>4. row' \in [Rows -> OutboxRows]
    BY <2>2, <2>3 DEF TableTypeOK
  <2>. QED
    BY <1>3, <2>4 DEF Reduce, TypeOK, TableTypeOK, LoopTypeOK, ProviderTypeOK, HistoryTypeOK
<1>4. ASSUME NEW r \in Rows, BecomesDue(r) PROVE TypeOK'
  <2>1. row' = [row EXCEPT ![r] = [row[r] EXCEPT !.due = TRUE]]
    BY <1>4 DEF BecomesDue, TableTypeOK
  <2>2. [row[r] EXCEPT !.due = TRUE] \in OutboxRows
    BY WriteTypes, BoundsAreNat DEF TableTypeOK
  <2>3. row' \in [Rows -> OutboxRows]
    BY <2>1, <2>2 DEF TableTypeOK
  <2>. QED
    BY <1>4, <2>3 DEF BecomesDue, TypeOK, TableTypeOK, LoopTypeOK, ProviderTypeOK, HistoryTypeOK
<1>5. CASE Claim
  <2>1. batch' \in Seq(Jobs) /\ call = "none" /\ call' = call /\ gateway' = gateway
    BY <1>5, ClaimType DEF Claim, LoopTypeOK
  <2>2. \A r \in Rows : /\ row[r] \in OutboxRows
                        /\ [row[r] EXCEPT !.status = "SENDING", !.attempts = @ + 1] \in OutboxRows
    BY WriteTypes, BoundsAreNat DEF TableTypeOK
  <2>3. row' = [r \in Rows |-> IF r \in Claimed
                  THEN [row[r] EXCEPT !.status = "SENDING", !.attempts = @ + 1] ELSE row[r]]
    BY <1>5 DEF Claim
  <2>4. row' \in [Rows -> OutboxRows]
    BY <2>2, <2>3
  <2>. QED
    BY <1>5, <2>1, <2>4 DEF Claim, TypeOK, TableTypeOK, LoopTypeOK, ProviderTypeOK, HistoryTypeOK
<1>6. CASE Request
  <2>1. Job.row \in Rows
    BY <1>6, JobType DEF Request, Jobs
  <2>. QED
    BY <1>6, <2>1 DEF Request, TypeOK, TableTypeOK, LoopTypeOK, ProviderTypeOK, HistoryTypeOK
<1>7. CASE Answered
  <2>1. batch # <<>> /\ Job \in Jobs /\ Job.row \in Rows /\ Tail(batch) \in Seq(Jobs)
    <3>1. batch # <<>>
      BY <1>7 DEF Answered, LoopTypeOK
    <3>. QED
      BY <3>1, JobType DEF Jobs
  <2>2. /\ \/ row' = [row EXCEPT ![Job.row] = Delivered(row[Job.row], Job)]
           \/ row' = [row EXCEPT ![Job.row] = Failed(row[Job.row], call)]
        /\ \/ misses' = [misses EXCEPT ![Job.row] = 0]
           \/ misses' = [misses EXCEPT ![Job.row] = misses[Job.row] + 1]
        /\ batch' = Tail(batch) /\ call' = "none"
        /\ UNCHANGED <<text, posts, shown, late, gateway, tried, faults, crashes, overtaken>>
    BY <1>7 DEF Answered
  <2>3. row' \in [Rows -> OutboxRows]
    <3>1. row[Job.row] \in OutboxRows
      BY <2>1 DEF TableTypeOK
    <3>2. /\ Delivered(row[Job.row], Job) \in OutboxRows
          /\ Failed(row[Job.row], call) \in OutboxRows
      BY <2>1, <3>1, UpdateTypes
    <3>. QED
      BY <2>1, <2>2, <3>2 DEF TableTypeOK
  <2>4. misses' \in [Rows -> Nat]
    BY <2>1, <2>2 DEF HistoryTypeOK
  <2>. QED
    BY <2>1, <2>2, <2>3, <2>4 DEF TypeOK, TableTypeOK, LoopTypeOK, ProviderTypeOK, HistoryTypeOK
<1>8. CASE ProviderAccepts
  <2>1. ProviderTypeOK' /\ batch # <<>>
    BY <1>8, JobType, AcceptType DEF ProviderAccepts, LoopTypeOK, ProviderTypeOK
  <2>. QED
    BY <1>8, <2>1 DEF ProviderAccepts, TypeOK, TableTypeOK, LoopTypeOK, HistoryTypeOK
<1>9. ASSUME NEW fault \in FaultKinds, ProviderFails(fault) PROVE TypeOK'
  <2>1. batch # <<>>
    BY <1>9 DEF ProviderFails, LoopTypeOK
  <2>2. ProviderTypeOK'
    <3>1. CASE fault = "lost"
      BY <1>9, <2>1, <3>1, AbandonedType DEF ProviderFails
    <3>2. CASE fault = "unclear"
      <4>1. Accept(Job) /\ late' = late
        BY <1>9, <3>2 DEF ProviderFails
      <4>. QED
        BY <4>1, <2>1, AcceptType, JobType DEF ProviderTypeOK
    <3>3. CASE fault \notin {"lost", "unclear"}
      <4>1. UNCHANGED <<posts, shown, late>>
        BY <1>9, <3>3 DEF ProviderFails
      <4>. QED
        BY <4>1 DEF ProviderTypeOK
    <3>. QED
      BY <3>1, <3>2, <3>3
  <2>3. /\ faults < MaxFaults /\ faults' = faults + 1
        /\ call' \in {"lost", "rejected", "refused"}
        /\ UNCHANGED <<row, text, batch, gateway, tried, misses, crashes, overtaken>>
    BY <1>9 DEF ProviderFails
  <2>4. HistoryTypeOK'
    BY <2>3, BoundsAreNat DEF HistoryTypeOK
  <2>. QED
    BY <2>1, <2>2, <2>3, <2>4 DEF TypeOK, TableTypeOK, LoopTypeOK
<1>10. CASE LateArrival
  <2>1. ProviderTypeOK'
    BY <1>10, AcceptType DEF LateArrival, ProviderTypeOK
  <2>2. overtaken' \subseteq Rows
    BY <1>10 DEF LateArrival, ProviderTypeOK, Jobs, HistoryTypeOK
  <2>. QED
    BY <1>10, <2>1, <2>2 DEF LateArrival, TypeOK, TableTypeOK, LoopTypeOK, HistoryTypeOK
<1>11. CASE Crash
  <2>1. /\ crashes < MaxCrashes /\ crashes' = crashes + 1
        /\ batch' = <<>> /\ call' = "none" /\ gateway' = "down"
        /\ UNCHANGED <<row, text, tried, misses, faults, overtaken>>
    BY <1>11 DEF Crash
  <2>2. ProviderTypeOK'
    <3>1. CASE call = "sent"
      BY <1>11, <3>1, AbandonedType DEF Crash, LoopTypeOK
    <3>2. CASE call # "sent"
      BY <1>11, <3>2 DEF Crash, ProviderTypeOK
    <3>. QED
      BY <3>1, <3>2
  <2>3. HistoryTypeOK'
    BY <2>1, BoundsAreNat DEF HistoryTypeOK
  <2>4. TableTypeOK'
    BY <2>1 DEF TableTypeOK
  <2>5. batch' \in Seq(Jobs)
    BY <2>1
  <2>6. LoopTypeOK'
    BY <2>1, <2>5 DEF LoopTypeOK
  <2>. QED
    BY <2>2, <2>3, <2>4, <2>6 DEF TypeOK
<1>12. CASE Boot
  <2>1. \A r \in Rows : Recovered(row[r]) \in OutboxRows
    <3>. TAKE r \in Rows
    <3>1. row[r] \in OutboxRows
      BY DEF TableTypeOK
    <3>. QED
      BY <3>1 DEF Recovered, OutboxRows, Statuses
  <2>2. row' \in [Rows -> OutboxRows]
    BY <1>12, <2>1 DEF Boot
  <2>. QED
    BY <1>12, <2>2 DEF Boot, TypeOK, TableTypeOK, LoopTypeOK, ProviderTypeOK, HistoryTypeOK
<1>13. CASE UNCHANGED vars
  BY <1>13 DEF vars, TypeOK, TableTypeOK, LoopTypeOK, ProviderTypeOK, HistoryTypeOK
<1>. QED
  BY <1>1, <1>2, <1>3, <1>4, <1>5, <1>6, <1>7, <1>8, <1>9, <1>10, <1>11, <1>12, <1>13
     DEF Next, Loop, Deliver, Provider

(* The tables and the delivery loop hold what their schema and code allow. *)
THEOREM TypeCorrect == Spec => []TypeOK
<1>. QED
  BY TypeInit, TypeNext, PTL DEF Spec

-----------------------------------------------------------------------------
(* No row is posted twice.                                                 *)

LEMMA SendInit == Init => SendInv
BY DEF Init, SendInv, LateInv, WaitingInv, BatchInv, Unsent, NoRow

(* The request in flight is for a row in SENDING that is known or unsent.  *)
LEMMA InFlight ==
    ASSUME TypeOK, SendInv, call \in {"sent", "rejected", "refused"}
    PROVE  /\ Job \in Jobs /\ Job.row \in Rows
           /\ row[Job.row].status = "SENDING" /\ row[Job.row].known = Job.known
           /\ ~Job.known => Unsent(Job.row)
           /\ \A i \in DOMAIN batch : batch[i].row = Job.row => i = 1
<1>1. batch # <<>>
  BY DEF TypeOK, LoopTypeOK
<1>2. Job \in Jobs /\ Job = batch[1] /\ 1 \in DOMAIN batch
  BY <1>1, JobType DEF TypeOK
<1>. QED
  BY <1>2 DEF SendInv, BatchInv, JobInv, Jobs

(* Whatever became of the request, no other row was touched. *)
LEMMA AcceptInv ==
    ASSUME TypeOK, SendInv, call = "sent", Accept(Job), UNCHANGED late
    PROVE  LateInv' /\ \A q \in Rows \ {Job.row} : Unsent(q) => Unsent(q)'
<1>1. CASE Job.known
  BY <1>1 DEF Accept, SendInv, LateInv, Unsent
<1>2. CASE ~Job.known
  <2>1. posts' = [posts EXCEPT ![Job.row] = posts[Job.row] + 1]
    BY <1>2 DEF Accept
  <2>2. Unsent(Job.row) /\ Job.row \in Rows
    BY <1>2, InFlight
  <2>3. posts \in [Rows -> Nat] /\ late \subseteq Jobs
    BY DEF TypeOK, ProviderTypeOK
  <2>4. posts'[Job.row] = 1 /\ \A q \in Rows \ {Job.row} : posts'[q] = posts[q]
    BY <2>1, <2>2, <2>3 DEF Unsent
  <2>5. \A job \in late : job.row \in Rows /\ (job.row = Job.row => job.known)
    BY <2>2, <2>3 DEF Unsent, Jobs
  <2>. QED
    BY <2>4, <2>5 DEF SendInv, LateInv, Unsent
<1>. QED
  BY <1>1, <1>2

LEMMA AbandonedInv ==
    ASSUME TypeOK, SendInv, call = "sent", Abandoned
    PROVE  LateInv' /\ \A q \in Rows \ {Job.row} : Unsent(q) => Unsent(q)'
<1>1. CASE UNCHANGED <<posts, shown, late>>
  BY <1>1 DEF SendInv, LateInv, Unsent
<1>2. CASE Accept(Job) /\ UNCHANGED late
  BY <1>2, AcceptInv
<1>3. CASE late' = late \cup {Job} /\ UNCHANGED <<posts, shown>>
  <2>1. /\ ~Job.known => posts[Job.row] = 0
        /\ ~Job.known => \A job \in late : job.row = Job.row => job.known
    BY InFlight DEF Unsent
  <2>2. \A j, k \in late' : (~j.known /\ ~k.known /\ j.row = k.row) => j = k
    BY <1>3, <2>1 DEF SendInv, LateInv
  <2>. QED
    BY <1>3, <2>1, <2>2 DEF SendInv, LateInv, Unsent
<1>. QED
  BY <1>1, <1>2, <1>3 DEF Abandoned

LEMMA BatchRows ==
    ASSUME TypeOK
    PROVE  \A i \in DOMAIN batch : i \in Nat /\ batch[i].row \in Rows
<1>1. batch \in Seq(Jobs)
  BY DEF TypeOK, LoopTypeOK
<1>2. Len(batch) \in Nat /\ DOMAIN batch = 1 .. Len(batch) /\ \A i \in 1 .. Len(batch) : batch[i] \in Jobs
  BY <1>1
<1>3. \A job \in Jobs : job.row \in Rows
  BY DEF Jobs
<1>. QED
  BY <1>2, <1>3

(* A row that is not in SENDING is not of the batch. *)
LEMMA NotInBatch ==
    ASSUME SendInv, NEW r, row[r].status # "SENDING"
    PROVE  \A i \in DOMAIN batch : batch[i].row # r
BY DEF SendInv, BatchInv, JobInv

LEMMA SendNext ==
    ASSUME "unclear" \notin Faults
    PROVE  TypeOK /\ SendInv /\ [Next]_vars => SendInv'
<1>. SUFFICES ASSUME TypeOK, SendInv, [Next]_vars PROVE SendInv'
  OBVIOUS
<1>r. row \in [Rows -> OutboxRows] /\ batch \in Seq(Jobs)
  BY DEF TypeOK, TableTypeOK, LoopTypeOK
<1>1. ASSUME NEW r \in Rows, Enqueue(r) PROVE SendInv'
  <2>1. /\ row' = [row EXCEPT ![r] = NewRow] /\ row[r].status = "absent"
        /\ UNCHANGED <<batch, call, posts, late, gateway>>
    BY <1>1 DEF Enqueue
  <2>2. \A i \in DOMAIN batch : batch[i].row # r
    BY <2>1, NotInBatch
  <2>3. \A i \in DOMAIN batch : batch[i].row \in Rows
    BY BatchRows
  <2>4. \A q \in Rows \ {r} : row'[q] = row[q]
    BY <1>r, <2>1
  <2>5. row'[r] = NewRow /\ Unsent(r)
    BY <1>r, <2>1 DEF SendInv, WaitingInv
  <2>6. LateInv' /\ \A q \in Rows : Unsent(q)' <=> Unsent(q)
    BY <2>1 DEF SendInv, LateInv, Unsent
  <2>7. WaitingInv'
    BY <2>4, <2>5, <2>6 DEF SendInv, WaitingInv, NewRow
  <2>8. BatchInv'
    <3>1. ASSUME NEW i \in DOMAIN batch PROVE JobInv(i)'
      <4>1. JobInv(i) /\ batch[i].row \in Rows \ {r}
        BY <2>2, <2>3 DEF SendInv, BatchInv
      <4>. QED
        BY <2>1, <2>4, <2>6, <4>1 DEF JobInv
    <3>. QED
      BY <2>1, <3>1 DEF SendInv, BatchInv
  <2>. QED
    BY <2>6, <2>7, <2>8 DEF SendInv
<1>2. ASSUME NEW r \in Rows, RunProgresses(r) PROVE SendInv'
  BY <1>2 DEF RunProgresses, SendInv, LateInv, WaitingInv, BatchInv, JobInv, Unsent
<1>3. ASSUME NEW r \in Rows, Reduce(r) PROVE SendInv'
  <2>1. /\ row' = [row EXCEPT ![r] = [row[r] EXCEPT !.desired = text[r], !.status = RewrittenStatus(row[r]),
                                                   !.due = text[r] = MaxText]]
        /\ UNCHANGED <<batch, call, posts, late, gateway>>
    BY <1>3, <1>r DEF Reduce
  <2>2. row'[r].status = RewrittenStatus(row[r]) /\ row'[r].known = row[r].known
    <3>1. row[r] \in OutboxRows
      BY <1>r
    <3>. QED
      BY <2>1, <1>r, <3>1 DEF OutboxRows
  <2>3. \A q \in Rows \ {r} : row'[q] = row[q]
    BY <1>r, <2>1
  <2>4. LateInv' /\ \A q \in Rows : Unsent(q)' <=> Unsent(q)
    BY <2>1 DEF SendInv, LateInv, Unsent
  <2>5. row[r].status \in Statuses /\ row[r].known \in BOOLEAN
    BY <1>r DEF OutboxRows
  <2>6. WaitingInv'
    BY <2>2, <2>3, <2>4, <2>5 DEF SendInv, WaitingInv, RewrittenStatus, Statuses
  <2>7. \A i \in DOMAIN batch : batch[i].row \in Rows
    BY BatchRows
  <2>8. BatchInv'
    <3>1. ASSUME NEW i \in DOMAIN batch PROVE JobInv(i)'
      <4>1. JobInv(i) /\ batch[i].row \in Rows
        BY <2>7 DEF SendInv, BatchInv
      <4>2. row[batch[i].row].status = "SENDING"
        BY <4>1 DEF JobInv
      <4>3. /\ row'[batch[i].row].status = "SENDING"
            /\ row'[batch[i].row].known = row[batch[i].row].known
        BY <2>2, <2>3, <4>1, <4>2 DEF RewrittenStatus
      <4>. QED
        BY <2>1, <2>4, <4>1, <4>3 DEF JobInv
    <3>. QED
      BY <2>1, <3>1 DEF SendInv, BatchInv
  <2>. QED
    BY <2>4, <2>6, <2>8 DEF SendInv
<1>4. ASSUME NEW r \in Rows, BecomesDue(r) PROVE SendInv'
  <2>1. /\ row' = [row EXCEPT ![r] = [row[r] EXCEPT !.due = TRUE]]
        /\ UNCHANGED <<batch, call, posts, late, gateway>>
    BY <1>4, <1>r DEF BecomesDue
  <2>2. \A q \in Rows : row'[q].status = row[q].status /\ row'[q].known = row[q].known
    <3>1. row[r] \in OutboxRows
      BY <1>r
    <3>. QED
      BY <2>1, <1>r, <3>1 DEF OutboxRows
  <2>3. LateInv' /\ \A q \in Rows : Unsent(q)' <=> Unsent(q)
    BY <2>1 DEF SendInv, LateInv, Unsent
  <2>4. \A i \in DOMAIN batch : batch[i].row \in Rows
    BY BatchRows
  <2>. QED
    BY <2>1, <2>2, <2>3, <2>4 DEF SendInv, WaitingInv, BatchInv, JobInv
<1>5. CASE Claim
  <2>1. /\ row' = [q \in Rows |-> IF q \in Claimed
                     THEN [row[q] EXCEPT !.status = "SENDING", !.attempts = @ + 1] ELSE row[q]]
        /\ gateway = "up" /\ UNCHANGED <<call, posts, late, gateway>>
    BY <1>5 DEF Claim
  <2>2. /\ \A i \in DOMAIN batch' : batch'[i].row \in Claimed /\ batch'[i] = JobFor(batch'[i].row)
        /\ \A i, j \in DOMAIN batch' : batch'[i].row = batch'[j].row => i = j
    BY <1>5, ClaimType DEF TypeOK
  <2>3. \A q \in Claimed : q \in Rows /\ row[q].status \in {"PENDING", "RETRY_WAIT"}
    BY DEF Claimed, Claimable
  <2>4. \A q \in Rows : /\ row'[q].known = row[q].known
                        /\ row'[q].status = IF q \in Claimed THEN "SENDING" ELSE row[q].status
    <3>. TAKE q \in Rows
    <3>1. row[q] \in OutboxRows
      BY <1>r
    <3>. QED
      BY <2>1, <3>1 DEF OutboxRows
  <2>5. LateInv' /\ \A q \in Rows : Unsent(q)' <=> Unsent(q)
    BY <2>1 DEF SendInv, LateInv, Unsent
  <2>6. WaitingInv'
    BY <2>4, <2>5 DEF SendInv, WaitingInv
  <2>7. \A i \in DOMAIN batch' : batch'[i].known = row[batch'[i].row].known
    BY <2>2 DEF JobFor
  <2>8. \A q \in Claimed : ~row[q].known => Unsent(q)
    BY <2>3 DEF SendInv, WaitingInv
  <2>9. BatchInv'
    BY <2>1, <2>2, <2>3, <2>4, <2>5, <2>7, <2>8 DEF BatchInv, JobInv
  <2>. QED
    BY <2>5, <2>6, <2>9 DEF SendInv
<1>6. CASE Request
  BY <1>6 DEF Request, SendInv, LateInv, WaitingInv, BatchInv, JobInv, Unsent
<1>7. CASE Answered
  <2>. DEFINE r == Job.row
  <2>1. /\ gateway = "up" /\ call \notin {"none", "sent"}
        /\ batch' = Tail(batch) /\ call' = "none"
        /\ UNCHANGED <<posts, late, gateway>>
    BY <1>7 DEF Answered
  <2>2. batch # <<>>
    BY <2>1 DEF TypeOK, LoopTypeOK
  <2>3. /\ Job \in Jobs /\ Job = batch[1] /\ 1 \in DOMAIN batch
        /\ DOMAIN batch' = 1 .. Len(batch) - 1
        /\ \A i \in DOMAIN batch' : i + 1 \in DOMAIN batch /\ batch'[i] = batch[i + 1]
    BY <2>1, <2>2, JobType DEF TypeOK
  <2>4. r \in Rows /\ \A i \in DOMAIN batch : batch[i].row \in Rows
    BY <2>3, BatchRows DEF Jobs
  <2>5. \A i \in DOMAIN batch' : i \in Nat /\ i + 1 > 1 /\ batch'[i].row # r
    <3>1. Len(batch) \in Nat
      BY <1>r
    <3>. QED
      <4>1. \A i \in DOMAIN batch' : i \in Nat /\ i + 1 > 1 /\ i + 1 # 1
        BY <2>3, <3>1
      <4>2. \A i \in DOMAIN batch' : batch[i + 1].row = r => i + 1 = 1
        BY <2>3 DEF SendInv, BatchInv, JobInv
      <4>. QED
        BY <2>3, <4>1, <4>2
  <2>6. LateInv' /\ \A q \in Rows : Unsent(q)' <=> Unsent(q)
    BY <2>1 DEF SendInv, LateInv, Unsent
  <2>7. \A q \in Rows \ {r} : row'[q] = row[q]
    BY <1>7, <1>r DEF Answered
  <2>8. WaitingInv'
    <3>1. row[r] \in OutboxRows /\ row[r].known = Job.known
      BY <1>r, <2>3, <2>4 DEF SendInv, BatchInv, JobInv
    <3>2. CASE call \in {"accepted", "not modified"}
      <4>1. row' = [row EXCEPT ![r] = Delivered(row[r], Job)]
        BY <1>7, <3>2 DEF Answered
      <4>2. Delivered(row[r], Job).known /\ Delivered(row[r], Job).status \in {"DELIVERED", "PENDING"}
        BY <3>1 DEF Delivered, OutboxRows
      <4>3. row'[r] = Delivered(row[r], Job)
        BY <4>1, <2>4, <1>r
      <4>. QED
        BY <4>2, <4>3, <2>6, <2>7 DEF SendInv, WaitingInv
    <3>3. CASE call \in {"lost", "rejected", "refused"}
      <4>1. row' = [row EXCEPT ![r] = Failed(row[r], call)]
        BY <1>7, <3>3 DEF Answered
      <4>2. /\ Failed(row[r], call).known = row[r].known
            /\ Failed(row[r], call).status \in {"UNCERTAIN", "FAILED", "RETRY_WAIT"}
            /\ call = "lost" /\ ~row[r].known => Failed(row[r], call).status = "UNCERTAIN"
        BY <3>1 DEF Failed, OutboxRows
      <4>3. row'[r] = Failed(row[r], call)
        BY <4>1, <2>4, <1>r
      <4>4. call # "lost" /\ ~Job.known => Unsent(r)
        BY <3>3, InFlight
      <4>. QED
        BY <3>1, <4>2, <4>3, <4>4, <2>6, <2>7 DEF SendInv, WaitingInv
    <3>. QED
      BY <2>1, <3>2, <3>3 DEF TypeOK, LoopTypeOK
  <2>9. BatchInv'
    <3>1. gateway' # "down"
      BY <2>1
    <3>2. ASSUME NEW i \in DOMAIN batch' PROVE JobInv(i)'
      <4>1. i + 1 \in DOMAIN batch /\ i + 1 # 1 /\ batch'[i] = batch[i + 1]
        BY <2>3, <2>5
      <4>2. JobInv(i + 1) /\ batch'[i].row \in Rows \ {r}
        BY <4>1, <2>4, <2>5 DEF SendInv, BatchInv
      <4>. QED
        BY <2>1, <4>1, <4>2, <2>6, <2>7 DEF JobInv
    <3>3. ASSUME NEW i \in DOMAIN batch', NEW j \in DOMAIN batch', batch'[i].row = batch'[j].row
          PROVE  i = j
      <4>1. /\ i + 1 \in DOMAIN batch /\ j + 1 \in DOMAIN batch
            /\ batch[i + 1].row = batch[j + 1].row
        BY <3>3, <2>3
      <4>2. i + 1 = j + 1
        BY <4>1 DEF SendInv, BatchInv
      <4>. QED
        BY <4>2, <2>5
    <3>. QED
      BY <3>1, <3>2, <3>3 DEF BatchInv
  <2>. QED
    BY <2>6, <2>8, <2>9 DEF SendInv
<1>8. CASE ProviderAccepts
  <2>1. /\ gateway = "up" /\ call = "sent" /\ Accept(Job) /\ call' \in {"accepted", "not modified"}
        /\ UNCHANGED <<row, batch, late, gateway>>
    BY <1>8 DEF ProviderAccepts
  <2>2. LateInv' /\ \A q \in Rows \ {Job.row} : Unsent(q) => Unsent(q)'
    BY <2>1, AcceptInv
  <2>3. /\ row[Job.row].status = "SENDING"
        /\ \A i \in DOMAIN batch : batch[i].row = Job.row => i = 1
        /\ \A i \in DOMAIN batch : batch[i].row \in Rows /\ i \in Nat
    BY <2>1, InFlight, BatchRows
  <2>4. WaitingInv'
    BY <2>1, <2>2, <2>3 DEF SendInv, WaitingInv
  <2>5. BatchInv'
    <3>1. ASSUME NEW i \in DOMAIN batch PROVE JobInv(i)'
      <4>1. JobInv(i)
        BY DEF SendInv, BatchInv
      <4>2. CASE i = 1
        BY <2>1, <4>1, <4>2 DEF JobInv
      <4>3. CASE i # 1
        <5>1. batch[i].row \in Rows \ {Job.row}
          BY <2>3, <4>3
        <5>. QED
          BY <2>1, <2>2, <4>1, <4>3, <5>1 DEF JobInv
      <4>. QED
        BY <4>2, <4>3
    <3>. QED
      BY <2>1, <3>1 DEF SendInv, BatchInv
  <2>. QED
    BY <2>2, <2>4, <2>5 DEF SendInv
<1>9. ASSUME NEW fault \in FaultKinds, ProviderFails(fault) PROVE SendInv'
  <2>1. /\ gateway = "up" /\ call = "sent"
        /\ UNCHANGED <<row, batch, gateway>>
    BY <1>9 DEF ProviderFails
  <2>2. /\ row[Job.row].status = "SENDING"
        /\ \A i \in DOMAIN batch : batch[i].row = Job.row => i = 1
        /\ \A i \in DOMAIN batch : batch[i].row \in Rows /\ i \in Nat
    BY <2>1, InFlight, BatchRows
  <2>3. CASE fault = "lost"
    <3>1. Abandoned /\ call' = "lost"
      BY <1>9, <2>3 DEF ProviderFails
    <3>2. LateInv' /\ \A q \in Rows \ {Job.row} : Unsent(q) => Unsent(q)'
      BY <2>1, <3>1, AbandonedInv
    <3>3. WaitingInv'
      BY <2>1, <2>2, <3>2 DEF SendInv, WaitingInv
    <3>4. BatchInv'
      BY <2>1, <2>2, <3>1, <3>2 DEF SendInv, BatchInv, JobInv
    <3>. QED
      BY <3>2, <3>3, <3>4 DEF SendInv
  <2>4. CASE fault # "lost"
    <3>1. fault # "unclear"
      BY <1>9 DEF ProviderFails
    <3>2. UNCHANGED <<posts, late>>
      BY <1>9, <2>4, <3>1 DEF ProviderFails
    <3>. QED
      BY <2>1, <3>2 DEF SendInv, LateInv, WaitingInv, BatchInv, JobInv, Unsent
  <2>. QED
    BY <2>3, <2>4
<1>10. CASE LateArrival
  <2>1. PICK job \in late : Accept(job) /\ late' = late \ {job}
    BY <1>10 DEF LateArrival
  <2>2. UNCHANGED <<row, batch, call, gateway>>
    BY <1>10 DEF LateArrival
  <2>3. posts \in [Rows -> Nat] /\ late \subseteq Jobs /\ job.row \in Rows
    BY <2>1 DEF TypeOK, ProviderTypeOK, Jobs
  <2>4. LateInv' /\ \A q \in Rows : Unsent(q) => Unsent(q)'
    <3>1. CASE job.known
      BY <2>1, <3>1 DEF Accept, SendInv, LateInv, Unsent
    <3>2. CASE ~job.known
      <4>1. posts' = [posts EXCEPT ![job.row] = posts[job.row] + 1] /\ posts[job.row] = 0
        BY <2>1, <3>2 DEF Accept, SendInv, LateInv
      <4>2. posts'[job.row] = 1 /\ \A q \in Rows \ {job.row} : posts'[q] = posts[q]
        BY <4>1, <2>3
      <4>3. \A k \in late' : k \in late /\ k.row \in Rows /\ (~k.known => k.row # job.row)
        BY <2>1, <2>3, <3>2 DEF SendInv, LateInv, Jobs
      <4>4. \A q \in Rows : Unsent(q) => q # job.row
        BY <2>1, <3>2 DEF Unsent
      <4>. QED
        BY <4>2, <4>3, <4>4 DEF SendInv, LateInv, Unsent
    <3>. QED
      BY <3>1, <3>2
  <2>5. \A i \in DOMAIN batch : batch[i].row \in Rows
    BY BatchRows
  <2>. QED
    BY <2>2, <2>4, <2>5 DEF SendInv, WaitingInv, BatchInv, JobInv
<1>11. CASE Crash
  <2>1. batch' = <<>> /\ UNCHANGED row
    BY <1>11 DEF Crash
  <2>2. BatchInv'
    BY <2>1 DEF BatchInv, JobInv
  <2>3. CASE call = "sent"
    <3>1. LateInv' /\ \A q \in Rows \ {Job.row} : Unsent(q) => Unsent(q)'
      BY <1>11, <2>3, AbandonedInv DEF Crash
    <3>2. row[Job.row].status = "SENDING"
      BY <2>3, InFlight
    <3>3. WaitingInv'
      BY <2>1, <3>1, <3>2 DEF SendInv, WaitingInv
    <3>. QED
      BY <2>2, <3>1, <3>3 DEF SendInv
  <2>4. CASE call # "sent"
    <3>1. UNCHANGED <<posts, late>>
      BY <1>11, <2>4 DEF Crash
    <3>. QED
      BY <2>1, <2>2, <3>1 DEF SendInv, LateInv, WaitingInv, Unsent
  <2>. QED
    BY <2>3, <2>4
<1>12. CASE Boot
  <2>1. /\ row' = [q \in Rows |-> Recovered(row[q])]
        /\ gateway = "down" /\ UNCHANGED <<batch, call, posts, late>>
    BY <1>12 DEF Boot
  <2>2. batch' = <<>>
    BY <2>1 DEF SendInv, BatchInv, JobInv
  <2>3. LateInv' /\ \A q \in Rows : Unsent(q)' <=> Unsent(q)
    BY <2>1 DEF SendInv, LateInv, Unsent
  <2>4. ASSUME NEW q \in Rows
        PROVE  /\ row'[q].known = row[q].known
               /\ \/ row'[q].status = row[q].status
                  \/ row'[q].status = "UNCERTAIN"
                  \/ row'[q].status = "PENDING" /\ row[q].known
    <3>1. row[q] \in OutboxRows
      BY <1>r
    <3>. QED
      BY <2>1, <3>1 DEF Recovered, OutboxRows
  <2>5. WaitingInv'
    BY <2>3, <2>4 DEF SendInv, WaitingInv
  <2>6. BatchInv'
    BY <2>2 DEF BatchInv, JobInv
  <2>. QED
    BY <2>3, <2>5, <2>6 DEF SendInv
<1>13. CASE UNCHANGED vars
  BY <1>13 DEF vars, SendInv, LateInv, WaitingInv, BatchInv, JobInv, Unsent
<1>. QED
  BY <1>1, <1>2, <1>3, <1>4, <1>5, <1>6, <1>7, <1>8, <1>9, <1>10, <1>11, <1>12, <1>13
     DEF Next, Loop, Deliver, Provider

(* A lost acknowledgement, a crash at any point, and a request carried out *)
(* long after it was given up never put two messages in the chat for one   *)
(* row, provided that an error answer means that nothing was done.         *)
THEOREM NoSecondMessage ==
    ASSUME "unclear" \notin Faults
    PROVE  Spec => []AtMostOneMessage
<1>1. TypeOK /\ SendInv /\ [Next]_vars => TypeOK' /\ SendInv'
  BY TypeNext, SendNext
<1>2. Init => TypeOK /\ SendInv
  BY TypeInit, SendInit
<1>3. SendInv => AtMostOneMessage
  BY DEF SendInv, LateInv, AtMostOneMessage
<1>. QED
  BY <1>1, <1>2, <1>3, PTL DEF Spec

-----------------------------------------------------------------------------
(* What is delivered is current.                                           *)

(* The request that was answered well did what it asked, unless a late     *)
(* edit came after it; a row that is known by a message has one.           *)
Current ==
    /\ DeliveredIsCurrent
    /\ \A r \in Rows : row[r].known => posts[r] = 1
    /\ call \in {"accepted", "not modified"} =>
          /\ posts[Job.row] = 1
          /\ Job.row \in overtaken \/ shown[Job.row] = Job.text

LEMMA CurrentInit == Init => Current
BY DEF Init, Current, DeliveredIsCurrent, NoRow

(* What the provider does for a request in flight concerns a row that is   *)
(* not DELIVERED; if it carries the request out, the row has a message.    *)
LEMMA AcceptCurrent ==
    ASSUME TypeOK, SendInv, Current, call = "sent",
           Accept(Job) \/ UNCHANGED <<posts, shown>>,
           UNCHANGED <<row, overtaken>>
    PROVE  /\ DeliveredIsCurrent' /\ \A r \in Rows : row'[r].known => posts'[r] = 1
           /\ Accept(Job) => posts'[Job.row] = 1 /\ shown'[Job.row] = Job.text
<1>1. /\ Job.row \in Rows /\ row[Job.row].status = "SENDING" /\ row[Job.row].known = Job.known
      /\ ~Job.known => posts[Job.row] = 0
  BY InFlight DEF Unsent
<1>2. posts \in [Rows -> Nat] /\ shown \in [Rows -> Texts]
  BY DEF TypeOK, ProviderTypeOK
<1>3. ASSUME Accept(Job)
      PROVE  /\ posts'[Job.row] = 1 /\ shown'[Job.row] = Job.text
             /\ \A q \in Rows \ {Job.row} : posts'[q] = posts[q] /\ shown'[q] = shown[q]
  <2>1. shown' = [shown EXCEPT ![Job.row] = Job.text]
    BY <1>3 DEF Accept
  <2>2. CASE Job.known
    <3>1. posts' = posts /\ posts[Job.row] = 1
      BY <1>1, <1>3, <2>2 DEF Accept, Current
    <3>. QED
      BY <1>1, <1>2, <2>1, <3>1
  <2>3. CASE ~Job.known
    <3>1. posts' = [posts EXCEPT ![Job.row] = posts[Job.row] + 1] /\ posts[Job.row] = 0
      BY <1>1, <1>3, <2>3 DEF Accept
    <3>. QED
      BY <1>1, <1>2, <2>1, <3>1
  <2>. QED
    BY <2>2, <2>3
<1>4. ASSUME NEW q \in Rows, row[q].known PROVE posts'[q] = 1
  BY <1>3, <1>4 DEF Current
<1>5. ASSUME NEW q \in Rows, row[q].status = "DELIVERED"
      PROVE  posts'[q] = 1 /\ row[q].known /\ (q \in overtaken \/ shown'[q] = row[q].desired)
  <2>1. q # Job.row
    BY <1>1, <1>5
  <2>. QED
    BY <1>3, <1>5, <2>1 DEF Current, DeliveredIsCurrent
<1>. QED
  BY <1>3, <1>4, <1>5 DEF DeliveredIsCurrent

LEMMA CurrentNext ==
    ASSUME "unclear" \notin Faults
    PROVE  TypeOK /\ SendInv /\ Current /\ [Next]_vars => Current'
<1>. SUFFICES ASSUME TypeOK, SendInv, Current, [Next]_vars PROVE Current'
  OBVIOUS
<1>r. row \in [Rows -> OutboxRows]
  BY DEF TypeOK, TableTypeOK
<1>a. ASSUME UNCHANGED <<batch, call, posts, shown, overtaken>>,
             \A q \in Rows : row'[q].known => row[q].known,
             \A q \in Rows : row'[q].status = "DELIVERED" =>
                row[q].status = "DELIVERED" /\ row'[q].known /\ row'[q].desired = row[q].desired
      PROVE  Current'
  BY <1>a DEF Current, DeliveredIsCurrent, Job
<1>1. ASSUME NEW r \in Rows, Enqueue(r) PROVE Current'
  <2>1. row' = [row EXCEPT ![r] = NewRow] /\ UNCHANGED <<batch, call, posts, shown, overtaken>>
    BY <1>1 DEF Enqueue
  <2>2. \A q \in Rows : row'[q] = IF q = r THEN NewRow ELSE row[q]
    BY <1>r, <2>1
  <2>3. \A q \in Rows : row[q].status = "DELIVERED" => row[q].known
    BY DEF Current, DeliveredIsCurrent
  <2>. QED
    BY <1>a, <2>1, <2>2, <2>3 DEF NewRow
<1>2. ASSUME NEW r \in Rows, RunProgresses(r) PROVE Current'
  BY <1>2 DEF RunProgresses, Current, DeliveredIsCurrent, Job
<1>3. ASSUME NEW r \in Rows, Reduce(r) PROVE Current'
  <2>. DEFINE x == [row[r] EXCEPT !.desired = text[r], !.status = RewrittenStatus(row[r]),
                                  !.due = text[r] = MaxText]
  <2>1. row' = [row EXCEPT ![r] = x] /\ UNCHANGED <<batch, call, posts, shown, overtaken>>
    BY <1>3, <1>r DEF Reduce
  <2>2. row[r] \in OutboxRows
    BY <1>r
  <2>3. x.known = row[r].known /\ x.status # "DELIVERED"
    BY <2>2 DEF OutboxRows, RewrittenStatus
  <2>. HIDE DEF x
  <2>4. \A q \in Rows : row'[q] = IF q = r THEN x ELSE row[q]
    BY <1>r, <2>1
  <2>5. \A q \in Rows : row[q].status = "DELIVERED" => row[q].known
    BY DEF Current, DeliveredIsCurrent
  <2>. QED
    BY <1>a, <2>1, <2>3, <2>4, <2>5
<1>4. ASSUME NEW r \in Rows, BecomesDue(r) PROVE Current'
  <2>. DEFINE x == [row[r] EXCEPT !.due = TRUE]
  <2>1. row' = [row EXCEPT ![r] = x] /\ UNCHANGED <<batch, call, posts, shown, overtaken>>
    BY <1>4, <1>r DEF BecomesDue
  <2>2. x.known = row[r].known /\ x.status = row[r].status /\ x.desired = row[r].desired
    <3>1. row[r] \in OutboxRows
      BY <1>r
    <3>. QED
      BY <3>1 DEF OutboxRows
  <2>. HIDE DEF x
  <2>3. \A q \in Rows : row'[q] = IF q = r THEN x ELSE row[q]
    BY <1>r, <2>1
  <2>4. \A q \in Rows : row[q].status = "DELIVERED" => row[q].known
    BY DEF Current, DeliveredIsCurrent
  <2>. QED
    BY <1>a, <2>1, <2>2, <2>3, <2>4
<1>5. CASE Claim
  <2>1. /\ row' = [q \in Rows |-> IF q \in Claimed
                     THEN [row[q] EXCEPT !.status = "SENDING", !.attempts = @ + 1] ELSE row[q]]
        /\ UNCHANGED <<call, posts, shown, overtaken>> /\ call = "none"
    <3>1. batch = <<>>
      BY <1>5 DEF Claim
    <3>. QED
      BY <1>5, <3>1 DEF Claim, TypeOK, LoopTypeOK
  <2>2. \A q \in Rows : /\ row'[q].known = row[q].known /\ row'[q].desired = row[q].desired
                        /\ row'[q].status = IF q \in Claimed THEN "SENDING" ELSE row[q].status
    <3>. TAKE q \in Rows
    <3>1. row[q] \in OutboxRows
      BY <1>r
    <3>. QED
      BY <2>1, <3>1 DEF OutboxRows
  <2>u. UNCHANGED <<posts, shown, overtaken>>
    BY <2>1
  <2>3. DeliveredIsCurrent'
    <3>1. ASSUME NEW q \in Rows, row'[q].status = "DELIVERED"
          PROVE  row[q].status = "DELIVERED" /\ row'[q].known = row[q].known
                 /\ row'[q].desired = row[q].desired
      BY <2>2, <3>1
    <3>. QED
      BY <2>u, <3>1 DEF Current, DeliveredIsCurrent
  <2>4. \A q \in Rows : row'[q].known => posts'[q] = 1
    BY <2>1, <2>2 DEF Current
  <2>5. call' = "none"
    BY <2>1
  <2>. QED
    BY <2>3, <2>4, <2>5 DEF Current
<1>6. CASE Request
  BY <1>6 DEF Request, Current, DeliveredIsCurrent
<1>7. CASE Answered
  <2>. DEFINE r == Job.row
  <2>1. /\ call \notin {"none", "sent"} /\ call' = "none"
        /\ UNCHANGED <<posts, shown, overtaken>> /\ batch # <<>>
    BY <1>7 DEF Answered, TypeOK, LoopTypeOK
  <2>2. Job \in Jobs /\ r \in Rows /\ row[r] \in OutboxRows /\ row[r].status = "SENDING"
    <3>1. Job \in Jobs /\ Job = batch[1] /\ 1 \in DOMAIN batch
      BY <2>1, JobType DEF TypeOK
    <3>2. row[r].status = "SENDING"
      BY <3>1 DEF SendInv, BatchInv, JobInv
    <3>. QED
      BY <1>r, <3>1, <3>2 DEF Jobs
  <2>3. CASE call \in {"accepted", "not modified"}
    <3>1. \A q \in Rows : row'[q] = IF q = r THEN Delivered(row[r], Job) ELSE row[q]
      BY <1>7, <1>r, <2>2, <2>3 DEF Answered
    <3>2. /\ Delivered(row[r], Job).known /\ Delivered(row[r], Job).desired = row[r].desired
          /\ Delivered(row[r], Job).status = "DELIVERED" => row[r].desired = Job.text
      BY <2>2 DEF Delivered, OutboxRows
    <3>3. posts[r] = 1 /\ (r \in overtaken \/ shown[r] = Job.text)
      BY <2>3 DEF Current
    <3>. QED
      BY <2>1, <3>1, <3>2, <3>3 DEF Current, DeliveredIsCurrent
  <2>4. CASE call \notin {"accepted", "not modified"}
    <3>1. \A q \in Rows : row'[q] = IF q = r THEN Failed(row[r], call) ELSE row[q]
      BY <1>7, <1>r, <2>2, <2>4 DEF Answered
    <3>2. Failed(row[r], call).known = row[r].known /\ Failed(row[r], call).status # "DELIVERED"
      BY <2>2 DEF Failed, OutboxRows
    <3>. QED
      BY <2>1, <3>1, <3>2 DEF Current, DeliveredIsCurrent
  <2>. QED
    BY <2>3, <2>4
<1>8. CASE ProviderAccepts
  <2>1. /\ call = "sent" /\ Accept(Job) /\ UNCHANGED <<row, batch, overtaken>>
    BY <1>8 DEF ProviderAccepts
  <2>2. /\ DeliveredIsCurrent' /\ \A q \in Rows : row'[q].known => posts'[q] = 1
        /\ posts'[Job.row] = 1 /\ shown'[Job.row] = Job.text
    BY <2>1, AcceptCurrent
  <2>. QED
    BY <2>1, <2>2 DEF Current, Job
<1>9. ASSUME NEW fault \in FaultKinds, ProviderFails(fault) PROVE Current'
  <2>1. /\ call = "sent" /\ call' \in {"lost", "rejected", "refused"}
        /\ UNCHANGED <<row, overtaken>>
    BY <1>9 DEF ProviderFails
  <2>2. fault # "unclear"
    BY <1>9 DEF ProviderFails
  <2>3. Accept(Job) \/ UNCHANGED <<posts, shown>>
    BY <1>9, <2>2 DEF ProviderFails, Abandoned
  <2>. QED
    BY <2>1, <2>3, AcceptCurrent DEF Current
<1>10. CASE LateArrival
  <2>1. PICK job \in late :
           /\ Accept(job)
           /\ overtaken' = IF job.known THEN overtaken \cup {job.row} ELSE overtaken
    BY <1>10 DEF LateArrival
  <2>2. UNCHANGED <<row, batch, call>>
    BY <1>10 DEF LateArrival
  <2>3. posts \in [Rows -> Nat] /\ shown \in [Rows -> Texts] /\ job.row \in Rows
    BY <2>1 DEF TypeOK, ProviderTypeOK, Jobs
  <2>4. /\ overtaken \subseteq overtaken'
        /\ \A q \in Rows : posts[q] = 1 =>
              /\ posts'[q] = 1
              /\ q \in overtaken' \/ shown'[q] = shown[q]
    <3>1. shown' = [shown EXCEPT ![job.row] = job.text]
      BY <2>1 DEF Accept
    <3>2. CASE job.known
      <4>1. posts' = posts
        BY <2>1, <3>2 DEF Accept
      <4>. QED
        BY <2>1, <2>3, <3>1, <3>2, <4>1
    <3>3. CASE ~job.known
      <4>1. posts[job.row] = 0 /\ posts' = [posts EXCEPT ![job.row] = posts[job.row] + 1]
        BY <2>1, <3>3 DEF Accept, SendInv, LateInv
      <4>. QED
        BY <2>1, <2>3, <3>1, <3>3, <4>1
    <3>. QED
      BY <3>2, <3>3
  <2>5. call \in {"accepted", "not modified"} => Job.row \in Rows
    <3>1. call # "none" => batch # <<>>
      BY DEF TypeOK, LoopTypeOK
    <3>. QED
      BY <3>1, JobType DEF TypeOK, Jobs
  <2>. QED
    BY <2>2, <2>4, <2>5 DEF Current, DeliveredIsCurrent, Job
<1>11. CASE Crash
  <2>1. call' = "none" /\ UNCHANGED <<row, overtaken>>
    BY <1>11 DEF Crash
  <2>2. CASE call = "sent"
    <3>1. Accept(Job) \/ UNCHANGED <<posts, shown>>
      BY <1>11, <2>2 DEF Crash, Abandoned
    <3>. QED
      BY <2>1, <2>2, <3>1, AcceptCurrent DEF Current
  <2>3. CASE call # "sent"
    <3>1. UNCHANGED <<posts, shown>>
      BY <1>11, <2>3 DEF Crash
    <3>. QED
      BY <2>1, <3>1 DEF Current, DeliveredIsCurrent
  <2>. QED
    BY <2>2, <2>3
<1>12. CASE Boot
  <2>1. /\ row' = [q \in Rows |-> Recovered(row[q])]
        /\ UNCHANGED <<batch, call, posts, shown, overtaken>>
    BY <1>12 DEF Boot
  <2>2. ASSUME NEW q \in Rows
        PROVE  /\ row'[q].known = row[q].known /\ row'[q].desired = row[q].desired
               /\ row'[q].status = "DELIVERED" => row[q].status = "DELIVERED"
    <3>1. row[q] \in OutboxRows
      BY <1>r
    <3>. QED
      BY <2>1, <3>1 DEF Recovered, OutboxRows
  <2>3. \A q \in Rows : row[q].status = "DELIVERED" => row[q].known
    BY DEF Current, DeliveredIsCurrent
  <2>. QED
    BY <1>a, <2>1, <2>2, <2>3
<1>13. CASE UNCHANGED vars
  BY <1>13 DEF vars, Current, DeliveredIsCurrent, Job
<1>. QED
  BY <1>1, <1>2, <1>3, <1>4, <1>5, <1>6, <1>7, <1>8, <1>9, <1>10, <1>11, <1>12, <1>13
     DEF Next, Loop, Deliver, Provider

(* A row counts as DELIVERED only while its one message shows the text the *)
(* row calls for, whatever was rewritten, lost or recovered meanwhile.     *)
(* What a late edit rewrote is excepted, and as for NoSecondMessage an     *)
(* error answer must mean that nothing was done.                           *)
THEOREM DeliveredShowsTheText ==
    ASSUME "unclear" \notin Faults
    PROVE  Spec => []DeliveredIsCurrent
<1>1. TypeOK /\ SendInv /\ Current /\ [Next]_vars => TypeOK' /\ SendInv' /\ Current'
  BY TypeNext, SendNext, CurrentNext
<1>2. Init => TypeOK /\ SendInv /\ Current
  BY TypeInit, SendInit, CurrentInit
<1>3. Current => DeliveredIsCurrent
  BY DEF Current
<1>. QED
  BY <1>1, <1>2, <1>3, PTL DEF Spec

-----------------------------------------------------------------------------
(* What is shown never falls back.                                         *)

(* Texts grow along their way: what the provider shows of a row, or may    *)
(* yet be made to show by a request given up, is no newer than the text    *)
(* the loop carries for it, and this no newer than the row's.              *)
Ascending ==
    /\ \A r \in Rows : /\ shown[r] <= row[r].desired
                       /\ row[r].status = "absent" => row[r].desired = 0 /\ text[r] = 0
    /\ \A job \in late : job.text <= row[job.row].desired
    /\ \A i \in DOMAIN batch :
          /\ shown[batch[i].row] <= batch[i].text /\ batch[i].text <= row[batch[i].row].desired
          /\ \A job \in late : job.row = batch[i].row => job.text <= batch[i].text
    /\ \A i, j \in DOMAIN batch : batch[i].row = batch[j].row => i = j

LEMMA AscendingInit == Init => Ascending
BY DEF Init, Ascending, NoRow

LEMMA TextsOfRows ==
    ASSUME TypeOK
    PROVE  /\ row \in [Rows -> OutboxRows] /\ text \in [Rows -> Nat] /\ shown \in [Rows -> Nat]
           /\ \A r \in Rows : row[r].desired \in Nat /\ row[r].status \in Statuses
           /\ \A job \in late \cup {batch[i] : i \in DOMAIN batch} :
                 job.row \in Rows /\ job.text \in Nat
           /\ batch \in Seq(Jobs)
<1>1. Texts \subseteq Nat
  BY OutboxBounds DEF Texts
<1>2. \A job \in Jobs : job.row \in Rows /\ job.text \in Nat
  BY <1>1 DEF Jobs
<1>3. batch \in Seq(Jobs) /\ late \subseteq Jobs
  BY DEF TypeOK, LoopTypeOK, ProviderTypeOK
<1>4. \A i \in DOMAIN batch : batch[i] \in Jobs
  BY <1>3
<1>5. row \in [Rows -> OutboxRows] /\ text \in [Rows -> Texts] /\ shown \in [Rows -> Texts]
  BY DEF TypeOK, TableTypeOK, ProviderTypeOK
<1>6. \A x \in OutboxRows : x.desired \in Nat /\ x.status \in Statuses
  BY <1>1 DEF OutboxRows
<1>. QED
  BY <1>1, <1>2, <1>3, <1>4, <1>5, <1>6

(* A row may be rewritten, to a newer text, while its job is under way. *)
LEMMA Rewriting ==
    ASSUME TypeOK, Ascending, UNCHANGED <<batch, shown, late>>,
           \A r \in Rows : /\ row'[r].desired \in Nat /\ row'[r].desired >= row[r].desired
                           /\ row'[r].status = "absent" =>
                                 /\ row[r].status = "absent"
                                 /\ row'[r].desired = row[r].desired /\ text'[r] = text[r]
    PROVE  Ascending'
<1>1. \A r \in Rows : /\ shown'[r] <= row'[r].desired
                      /\ row'[r].status = "absent" => row'[r].desired = 0 /\ text'[r] = 0
  BY TextsOfRows DEF Ascending
<1>2. \A job \in late \cup {batch[i] : i \in DOMAIN batch} :
         job.text <= row[job.row].desired => job.text <= row'[job.row].desired
  BY TextsOfRows
<1>. QED
  BY <1>1, <1>2 DEF Ascending

(* What becomes of the request for the head of the batch. *)
LEMMA Sending ==
    ASSUME TypeOK, Ascending, batch # <<>>, UNCHANGED <<row, text>>,
           Accept(Job) \/ UNCHANGED shown, late' \subseteq late \cup {Job},
           batch' = batch \/ batch' = <<>>
    PROVE  Ascending' /\ \A r \in Rows : shown'[r] >= shown[r]
<1>1. Job = batch[1] /\ 1 \in DOMAIN batch
  BY JobType DEF TypeOK
<1>2. Job.row \in Rows /\ Job.text \in Nat
  BY <1>1, TextsOfRows
<1>3. /\ shown[Job.row] <= Job.text /\ Job.text <= row[Job.row].desired
      /\ \A i \in DOMAIN batch : batch[i].row = Job.row => batch[i] = Job
  BY <1>1 DEF Ascending
<1>4. \A r \in Rows : shown'[r] = shown[r] \/ (r = Job.row /\ shown'[r] = Job.text)
  BY <1>2, TextsOfRows DEF Accept
<1>5. \A r \in Rows : shown'[r] >= shown[r] /\ shown'[r] <= row[r].desired
  BY <1>2, <1>3, <1>4, TextsOfRows DEF Ascending
<1>6. \A job \in late' : job.text <= row[job.row].desired
  BY <1>3 DEF Ascending
<1>7. ASSUME NEW i \in DOMAIN batch
      PROVE  /\ shown'[batch[i].row] <= batch[i].text
             /\ \A job \in late' : job.row = batch[i].row => job.text <= batch[i].text
  <2>1. batch[i].row \in Rows /\ batch[i].text \in Nat
    BY TextsOfRows
  <2>2. CASE batch[i].row = Job.row
    BY <1>2, <1>3, <1>4, <2>2 DEF Ascending
  <2>3. CASE batch[i].row # Job.row
    BY <1>4, <2>1, <2>3 DEF Ascending
  <2>. QED
    BY <2>2, <2>3
<1>8. CASE batch' = batch
  BY <1>5, <1>6, <1>7, <1>8 DEF Ascending
<1>9. CASE batch' = <<>>
  BY <1>5, <1>6, <1>9 DEF Ascending
<1>. QED
  BY <1>5, <1>8, <1>9

LEMMA AscendingNext ==
    TypeOK /\ Ascending /\ [Next]_vars
        => Ascending' /\ \A r \in Rows : shown'[r] >= shown[r] \/ late' # late
<1>. SUFFICES ASSUME TypeOK, Ascending, [Next]_vars
              PROVE  Ascending' /\ \A r \in Rows : shown'[r] >= shown[r] \/ late' # late
  OBVIOUS
<1>r. /\ row \in [Rows -> OutboxRows] /\ \A r \in Rows : row[r] \in OutboxRows
      /\ shown \in [Rows -> Nat] /\ \A r \in Rows : shown[r] >= shown[r]
  BY TextsOfRows
<1>1. ASSUME NEW r \in Rows, Enqueue(r) PROVE Ascending' /\ UNCHANGED shown
  <2>1. \A q \in Rows : row'[q] = IF q = r THEN NewRow ELSE row[q]
    BY <1>1, <1>r DEF Enqueue
  <2>2. row[r].desired = 0 /\ NewRow.desired = 1 /\ NewRow.status # "absent"
    BY <1>1 DEF Enqueue, Ascending, NewRow
  <2>3. \A q \in Rows \ {r} : text'[q] = text[q]
    BY <1>1, TextsOfRows DEF Enqueue
  <2>. QED
    BY <1>1, <2>1, <2>2, <2>3, TextsOfRows, Rewriting DEF Enqueue
<1>2. ASSUME NEW r \in Rows, RunProgresses(r) PROVE Ascending' /\ UNCHANGED shown
  <2>1. \A q \in Rows : row[q].status = "absent" => text'[q] = text[q]
    BY <1>2, TextsOfRows DEF RunProgresses, Ascending
  <2>. QED
    BY <1>2, <2>1, TextsOfRows, Rewriting DEF RunProgresses
<1>3. ASSUME NEW r \in Rows, Reduce(r) PROVE Ascending' /\ UNCHANGED shown
  <2>. DEFINE x == [row[r] EXCEPT !.desired = text[r], !.status = RewrittenStatus(row[r]),
                                  !.due = text[r] = MaxText]
  <2>1. row' = [row EXCEPT ![r] = x] /\ UNCHANGED <<batch, shown, late, text>>
    BY <1>3, <1>r DEF Reduce
  <2>2. text[r] > row[r].desired /\ text[r] \in Nat /\ row[r].desired \in Nat
    BY <1>3, TextsOfRows DEF Reduce
  <2>3. row[r].status # "absent"
    BY <2>2 DEF Ascending
  <2>4. x.desired = text[r] /\ x.status # "absent"
    BY <1>r, <2>3 DEF OutboxRows, RewrittenStatus
  <2>. HIDE DEF x
  <2>5. \A q \in Rows : row'[q] = IF q = r THEN x ELSE row[q]
    BY <1>r, <2>1
  <2>. QED
    BY <2>1, <2>2, <2>4, <2>5, TextsOfRows, Rewriting
<1>4. ASSUME NEW r \in Rows, BecomesDue(r) PROVE Ascending' /\ UNCHANGED shown
  <2>. DEFINE x == [row[r] EXCEPT !.due = TRUE]
  <2>1. row' = [row EXCEPT ![r] = x] /\ UNCHANGED <<batch, shown, late, text>>
    BY <1>4, <1>r DEF BecomesDue
  <2>2. x.desired = row[r].desired /\ x.status = row[r].status
    BY <1>r DEF OutboxRows
  <2>. HIDE DEF x
  <2>3. \A q \in Rows : row'[q] = IF q = r THEN x ELSE row[q]
    BY <1>r, <2>1
  <2>. QED
    BY <2>1, <2>2, <2>3, TextsOfRows, Rewriting
<1>5. CASE Claim
  <2>1. UNCHANGED <<text, shown, late>>
    BY <1>5 DEF Claim
  <2>2. \A q \in Rows : /\ row'[q].desired = row[q].desired
                        /\ row'[q].status = IF q \in Claimed THEN "SENDING" ELSE row[q].status
    <3>1. row' = [q \in Rows |-> IF q \in Claimed
                    THEN [row[q] EXCEPT !.status = "SENDING", !.attempts = @ + 1] ELSE row[q]]
      BY <1>5 DEF Claim
    <3>. TAKE q \in Rows
    <3>. QED
      BY <1>r, <3>1 DEF OutboxRows
  <2>3. /\ \A i \in DOMAIN batch' :
              /\ batch'[i].row \in Rows /\ batch'[i].text = row[batch'[i].row].desired
        /\ \A i, j \in DOMAIN batch' : batch'[i].row = batch'[j].row => i = j
    <3>1. \A i \in DOMAIN batch' : /\ batch'[i].row \in Claimed
                                   /\ batch'[i] = JobFor(batch'[i].row)
      BY <1>5, ClaimType DEF TypeOK
    <3>2. \A i \in DOMAIN batch' : batch'[i].text = JobFor(batch'[i].row).text
      BY <3>1
    <3>3. \A i \in DOMAIN batch' : batch'[i].text = row[batch'[i].row].desired
      BY <3>2 DEF JobFor
    <3>. QED
      BY <1>5, <3>1, <3>3, ClaimType DEF TypeOK, Claimed, Claimable
  <2>4. \A r \in Rows : /\ shown'[r] <= row'[r].desired
                        /\ row'[r].status = "absent" => row'[r].desired = 0 /\ text'[r] = 0
    BY <2>1, <2>2 DEF Ascending
  <2>5. \A job \in late' : job.text <= row[job.row].desired /\ job.text <= row'[job.row].desired
    BY <2>1, <2>2, TextsOfRows DEF Ascending
  <2>6. ASSUME NEW i \in DOMAIN batch'
        PROVE  /\ shown'[batch'[i].row] <= batch'[i].text
               /\ batch'[i].text <= row'[batch'[i].row].desired
               /\ \A job \in late' : job.row = batch'[i].row => job.text <= batch'[i].text
    <3>1. /\ batch'[i].row \in Rows /\ batch'[i].text = row[batch'[i].row].desired
          /\ batch'[i].text \in Nat
      BY <2>3, TextsOfRows
    <3>. QED
      BY <2>1, <2>2, <2>5, <3>1 DEF Ascending
  <2>. QED
    BY <2>1, <2>3, <2>4, <2>5, <2>6, <1>r DEF Ascending
<1>6. CASE Request
  <2>1. UNCHANGED <<row, text, batch, shown, late>>
    BY <1>6 DEF Request
  <2>. QED
    BY <2>1, TextsOfRows DEF Ascending
<1>7. CASE Answered
  <2>1. /\ batch # <<>> /\ batch' = Tail(batch) /\ UNCHANGED <<text, shown, late>>
    BY <1>7 DEF Answered, TypeOK, LoopTypeOK
  <2>2. Job \in Jobs /\ Job.row \in Rows
    BY <2>1, JobType DEF TypeOK, Jobs
  <2>3. \A q \in Rows : row'[q].desired = row[q].desired
                        /\ (row'[q].status = "absent" => row[q].status = "absent")
    <3>1. row' = [row EXCEPT ![Job.row] = Delivered(row[Job.row], Job)]
            \/ row' = [row EXCEPT ![Job.row] = Failed(row[Job.row], call)]
      BY <1>7 DEF Answered
    <3>2. /\ Delivered(row[Job.row], Job).desired = row[Job.row].desired
          /\ Failed(row[Job.row], call).desired = row[Job.row].desired
          /\ Delivered(row[Job.row], Job).status # "absent"
          /\ Failed(row[Job.row], call).status # "absent"
      BY <1>r, <2>2 DEF Delivered, Failed, OutboxRows
    <3>3. \A q \in Rows : row'[q] = row[q]
            \/ (q = Job.row /\ row'[q] \in {Delivered(row[Job.row], Job), Failed(row[Job.row], call)})
      BY <1>r, <2>2, <3>1
    <3>. QED
      BY <3>2, <3>3
  <2>4. /\ \A i \in DOMAIN batch' : i + 1 \in DOMAIN batch /\ batch'[i] = batch[i + 1]
        /\ \A i \in DOMAIN batch' : i \in Int
    BY <2>1, JobType DEF TypeOK
  <2>5. \A job \in late \cup {batch[i] : i \in DOMAIN batch} :
           row'[job.row].desired = row[job.row].desired
    BY <2>3, TextsOfRows
  <2>6. \A i, j \in DOMAIN batch' : batch'[i].row = batch'[j].row => i = j
    <3>1. ASSUME NEW i \in DOMAIN batch', NEW j \in DOMAIN batch', batch'[i].row = batch'[j].row
          PROVE  i + 1 = j + 1
      BY <2>4, <3>1 DEF Ascending
    <3>. QED
      BY <2>4, <3>1
  <2>7. \A i \in DOMAIN batch' :
           /\ shown'[batch'[i].row] <= batch'[i].text
           /\ batch'[i].text <= row'[batch'[i].row].desired
           /\ \A job \in late' : job.row = batch'[i].row => job.text <= batch'[i].text
    BY <2>1, <2>4, <2>5 DEF Ascending
  <2>. QED
    BY <2>1, <2>3, <2>5, <2>6, <2>7, <1>r DEF Ascending
<1>8. CASE ProviderAccepts
  <2>1. /\ batch # <<>> /\ Accept(Job) /\ UNCHANGED <<row, text, batch, late>>
    BY <1>8 DEF ProviderAccepts, TypeOK, LoopTypeOK
  <2>. QED
    BY <2>1, Sending
<1>9. ASSUME NEW fault \in FaultKinds, ProviderFails(fault)
      PROVE  Ascending' /\ \A r \in Rows : shown'[r] >= shown[r]
  <2>1. batch # <<>> /\ UNCHANGED <<row, text, batch>>
    BY <1>9 DEF ProviderFails, TypeOK, LoopTypeOK
  <2>2. (Accept(Job) \/ UNCHANGED shown) /\ late' \subseteq late \cup {Job}
    BY <1>9 DEF ProviderFails, Abandoned
  <2>. QED
    BY <2>1, <2>2, Sending
<1>10. CASE LateArrival
  <2>1. PICK job \in late : Accept(job) /\ late' = late \ {job}
    BY <1>10 DEF LateArrival
  <2>2. UNCHANGED <<row, text, batch>> /\ late' # late
    BY <1>10, <2>1 DEF LateArrival
  <2>3. job.row \in Rows /\ job.text \in Nat
    BY TextsOfRows
  <2>4. \A r \in Rows : shown'[r] = IF r = job.row THEN job.text ELSE shown[r]
    BY <1>r, <2>1, <2>3 DEF Accept
  <2>5. \A i \in DOMAIN batch : batch[i].row \in Rows
    BY TextsOfRows
  <2>. QED
    BY <2>1, <2>2, <2>3, <2>4, <2>5 DEF Ascending
<1>11. CASE Crash
  <2>1. batch' = <<>> /\ UNCHANGED <<row, text>>
    BY <1>11 DEF Crash
  <2>2. CASE call = "sent"
    <3>1. batch # <<>>
      BY <2>2 DEF TypeOK, LoopTypeOK
    <3>2. (Accept(Job) \/ UNCHANGED shown) /\ late' \subseteq late \cup {Job}
      BY <1>11, <2>2 DEF Crash, Abandoned
    <3>. QED
      BY <2>1, <3>1, <3>2, Sending
  <2>3. CASE call # "sent"
    <3>1. UNCHANGED <<shown, late>>
      BY <1>11, <2>3 DEF Crash
    <3>. QED
      BY <2>1, <3>1, <1>r DEF Ascending
  <2>. QED
    BY <2>2, <2>3
<1>12. CASE Boot
  <2>1. /\ row' = [q \in Rows |-> Recovered(row[q])] /\ UNCHANGED <<text, batch, shown, late>>
    BY <1>12 DEF Boot
  <2>2. \A q \in Rows : /\ row'[q].desired = row[q].desired
                        /\ row'[q].status = "absent" => row[q].status = "absent"
    <3>. TAKE q \in Rows
    <3>. QED
      BY <1>r, <2>1 DEF Recovered, OutboxRows
  <2>. QED
    BY <2>1, <2>2, <1>r, TextsOfRows, Rewriting
<1>13. CASE UNCHANGED vars
  BY <1>13, <1>r DEF vars, Ascending
<1>. QED
  BY <1>1, <1>2, <1>3, <1>4, <1>5, <1>6, <1>7, <1>8, <1>9, <1>10, <1>11, <1>12, <1>13, <1>r
     DEF Next, Loop, Deliver, Provider

(* The user never sees a message fall back to an older text: no retry, no  *)
(* recovery and no request made in between brings one back, whatever the   *)
(* provider answers; only a request given up can, when it arrives late.    *)
THEOREM TextsOnlyAdvance == Spec => NeverBackwards
<1>1. Init => TypeOK /\ Ascending
  BY TypeInit, AscendingInit
<1>2. TypeOK /\ Ascending /\ [Next]_vars => TypeOK' /\ Ascending'
  BY TypeNext, AscendingNext
<1>3. TypeOK /\ Ascending /\ [Next]_vars => \A r \in Rows : shown'[r] >= shown[r] \/ late' # late
  BY AscendingNext
<1>. QED
  BY <1>1, <1>2, <1>3, PTL DEF Spec, NeverBackwards
=============================================================================
