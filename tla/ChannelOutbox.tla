--------------------------- MODULE ChannelOutbox ---------------------------
(***************************************************************************)
(* The durable outbox of a channel: rows claimed in batches, sent or       *)
(* edited by the delivery loop one after the other, while the presentation *)
(* loop rewrites what a run's row should say and the gateway may die.      *)
(*                                                                         *)
(* A text is the number of the update that wrote it, which also stands for *)
(* delivery_version.  Only the delivery loop claims, and it marks every    *)
(* row of a batch before the next claim, so the lease clauses of           *)
(* claim_outbox find nothing in one process and are left out.              *)
(***************************************************************************)
EXTENDS Integers, Sequences, FiniteSets

CONSTANTS
    MaxRows,    \* bound: rows are numbered 1 .. MaxRows in order of creation
    Live,       \* the rows that present a run; the others are messages
    MaxText,    \* bound: the texts a run goes through; the last one is final
    BatchLimit, \* rows one claim takes (20)
    RetryLimit, \* attempts before a retryable failure is final (8)
    Faults,     \* what the provider or the network may do besides accepting
    MaxFaults,  \* bound: how often they do
    MaxCrashes  \* bound: crashes of the gateway

Rows == 1 .. MaxRows
FaultKinds == {"lost",     \* the answer never arrives; the request may have
               "rejected", \* 429 or 5xx, and nothing was done
               "unclear",  \* 5xx or no message id, after it was done
               "refused",  \* any other error
               "late"}     \* as "lost", but the request is carried out later

ASSUME OutboxBounds ==
    /\ MaxRows \in Nat /\ Live \subseteq Rows /\ MaxText \in Nat \ {0}
    /\ BatchLimit \in Nat \ {0} /\ RetryLimit \in Nat \ {0}
    /\ MaxFaults \in Nat /\ MaxCrashes \in Nat
ASSUME OutboxFaults == Faults \subseteq FaultKinds

VARIABLES
    row,      \* the channel_outbox table
    text,     \* the text each row's run or command calls for by now
    batch,    \* what claim_outbox returned and deliver_once has not finished
    call,     \* the adapter's request for the head of the batch
    posts,    \* the messages the provider holds for each row
    shown,    \* the text they show
    late,     \* given-up requests the provider may yet carry out
    gateway,  \* "down" or "up"
    (* bounds and history *)
    tried,    \* the rows some request was made for
    misses,   \* failed deliveries of a row since it was last delivered
    faults, crashes,
    overtaken \* the rows a late edit was carried out for

vars == <<row, text, batch, call, posts, shown, late, gateway, tried, misses, faults, crashes, overtaken>>

NoRow == [status |-> "absent", known |-> FALSE, desired |-> 0, attempts |-> 0, due |-> FALSE]
NewRow == [status |-> "PENDING", known |-> FALSE, desired |-> 1, attempts |-> 0, due |-> TRUE]

Init ==
    /\ row = [r \in Rows |-> NoRow]
    /\ text = [r \in Rows |-> 0]
    /\ batch = <<>>
    /\ call = "none"
    /\ posts = [r \in Rows |-> 0]
    /\ shown = [r \in Rows |-> 0]
    /\ late = {}
    /\ gateway = "up"
    /\ tried = {}
    /\ misses = [r \in Rows |-> 0]
    /\ faults = 0 /\ crashes = 0 /\ overtaken = {}

Final(r) == IF r \in Live THEN MaxText ELSE 1

(* ingest or enqueue_scheduled_notification inserts the row. *)
Enqueue(r) ==
    /\ gateway = "up"
    /\ row[r].status = "absent"
    /\ r > 1 => row[r - 1].status # "absent"
    /\ row' = [row EXCEPT ![r] = NewRow]
    /\ text' = [text EXCEPT ![r] = 1]
    /\ UNCHANGED <<batch, call, posts, shown, late, gateway, tried, misses, faults, crashes, overtaken>>

(* The run of a presentation moves on. *)
RunProgresses(r) ==
    /\ gateway = "up"
    /\ r \in Live /\ text[r] \in 1 .. MaxText - 1
    /\ text' = [text EXCEPT ![r] = @ + 1]
    /\ UNCHANGED <<row, batch, call, posts, shown, late, gateway, tried, misses, faults, crashes, overtaken>>

(* Slip: what was delivered once is not put back in the queue. *)
RewrittenStatusKept(x) == x.status

(* update_presentation's status: a row in flight stays so, one that can    *)
(* never get its first message stays undelivered, any other is due again.  *)
RewrittenStatus(x) ==
    IF x.status = "SENDING" \/ (x.status \in {"UNCERTAIN", "FAILED"} /\ ~x.known)
    THEN x.status ELSE "PENDING"

(* reduce_once, for one row.  Texts of a live run are held back a second.  *)
Reduce(r) ==
    /\ gateway = "up"
    /\ r \in Live /\ text[r] > row[r].desired
    /\ row' = [row EXCEPT ![r].desired = text[r],
                          ![r].status = RewrittenStatus(row[r]),
                          ![r].due = text[r] = MaxText]
    /\ UNCHANGED <<text, batch, call, posts, shown, late, gateway, tried, misses, faults, crashes, overtaken>>

(* available_at goes by. *)
BecomesDue(r) ==
    /\ row[r].status # "absent" /\ ~row[r].due
    /\ row' = [row EXCEPT ![r].due = TRUE]
    /\ UNCHANGED <<text, batch, call, posts, shown, late, gateway, tried, misses, faults, crashes, overtaken>>

JobFor(r) == [row |-> r, text |-> row[r].desired, known |-> row[r].known]
Claimable == {r \in Rows : row[r].status \in {"PENDING", "RETRY_WAIT"} /\ row[r].due}
Claimed == {r \in Claimable : Cardinality({q \in Claimable : q < r}) < BatchLimit}

(* claim_outbox: the oldest due rows, each with the text it has now. *)
Claim ==
    /\ gateway = "up" /\ batch = <<>> /\ Claimable # {}
    /\ \E order \in [1 .. Cardinality(Claimed) -> Claimed] :
          /\ \A i, j \in DOMAIN order : i < j => order[i] < order[j]
          /\ batch' = [i \in DOMAIN order |-> JobFor(order[i])]
    /\ row' = [r \in Rows |-> IF r \in Claimed
                 THEN [row[r] EXCEPT !.status = "SENDING", !.attempts = @ + 1] ELSE row[r]]
    /\ UNCHANGED <<text, call, posts, shown, late, gateway, tried, misses, faults, crashes, overtaken>>

-----------------------------------------------------------------------------
(* _deliver: one request for the head of the batch.                        *)

Job == Head(batch)

Request ==
    /\ gateway = "up" /\ batch # <<>> /\ call = "none"
    /\ call' = "sent"
    /\ tried' = tried \cup {Job.row}
    /\ UNCHANGED <<row, text, batch, posts, shown, late, gateway, misses, faults, crashes, overtaken>>

(* The provider posts a message or rewrites the one the row is known by.   *)
Accept(job) ==
    /\ shown' = [shown EXCEPT ![job.row] = job.text]
    /\ posts' = IF job.known THEN posts ELSE [posts EXCEPT ![job.row] = @ + 1]

ProviderAccepts ==
    /\ gateway = "up" /\ call = "sent"
    /\ Accept(Job)
    /\ call' = IF Job.known /\ shown[Job.row] = Job.text THEN "not modified" ELSE "accepted"
    /\ UNCHANGED <<row, text, batch, late, gateway, tried, misses, faults, crashes, overtaken>>

(* Nobody waits for the answer any more. *)
Abandoned ==
    \/ UNCHANGED <<posts, shown, late>>
    \/ Accept(Job) /\ UNCHANGED late
    \/ "late" \in Faults /\ late' = late \cup {Job} /\ UNCHANGED <<posts, shown>>

ProviderFails(fault) ==
    /\ gateway = "up" /\ call = "sent"
    /\ fault \in Faults \ {"late"} /\ faults < MaxFaults
    /\ faults' = faults + 1
    /\ call' = IF fault = "lost" THEN "lost"
                ELSE IF fault = "refused" THEN "refused" ELSE "rejected"
    /\ CASE fault = "lost" -> Abandoned
         [] fault = "unclear" -> Accept(Job) /\ UNCHANGED late
         [] OTHER -> UNCHANGED <<posts, shown, late>>
    /\ UNCHANGED <<row, text, batch, gateway, tried, misses, crashes, overtaken>>

LateArrival ==
    /\ \E job \in late :
          /\ Accept(job) /\ late' = late \ {job}
          /\ overtaken' = IF job.known THEN overtaken \cup {job.row} ELSE overtaken
    /\ UNCHANGED <<row, text, batch, call, gateway, tried, misses, faults, crashes>>

(* Slip: a row is done whatever was written to it meanwhile. *)
DeliveredAnyway(x, job) == [x EXCEPT !.known = TRUE, !.due = TRUE, !.status = "DELIVERED"]

(* mark_delivered: a row rewritten during the request is pending again. *)
Delivered(x, job) ==
    [x EXCEPT !.known = TRUE, !.due = TRUE,
              !.status = IF x.desired = job.text THEN "DELIVERED" ELSE "PENDING"]

(* Slip: a first message whose answer was lost is sent again. *)
FailedRetries(x, how) ==
    [x EXCEPT !.due = FALSE,
              !.status = IF how = "refused" \/ x.attempts >= RetryLimit THEN "FAILED"
                         ELSE "RETRY_WAIT"]

(* mark_retry: only what cannot have arrived, or is an edit, is retried. *)
Failed(x, how) ==
    [x EXCEPT !.due = FALSE,
              !.status = IF how = "lost" /\ ~x.known THEN "UNCERTAIN"
                         ELSE IF how = "refused" \/ x.attempts >= RetryLimit THEN "FAILED"
                         ELSE "RETRY_WAIT"]

Answered ==
    /\ gateway = "up" /\ call \notin {"none", "sent"}
    /\ LET r == Job.row IN
       IF call \in {"accepted", "not modified"}
       THEN /\ row' = [row EXCEPT ![r] = Delivered(@, Job)]
            /\ misses' = [misses EXCEPT ![r] = 0]
       ELSE /\ row' = [row EXCEPT ![r] = Failed(@, call)]
            /\ misses' = [misses EXCEPT ![r] = @ + 1]
    /\ batch' = Tail(batch)
    /\ call' = "none"
    /\ UNCHANGED <<text, posts, shown, late, gateway, tried, faults, crashes, overtaken>>

-----------------------------------------------------------------------------

(* recover_deliveries: a first message in flight may have been posted. *)
Recovered(x) ==
    CASE x.status = "SENDING" /\ ~x.known -> [x EXCEPT !.status = "UNCERTAIN"]
      [] x.status = "SENDING" /\ x.known -> [x EXCEPT !.status = "PENDING", !.due = TRUE]
      [] OTHER -> x

(* The request in flight may still be carried out. *)
Crash ==
    /\ gateway = "up" /\ crashes < MaxCrashes
    /\ gateway' = "down"
    /\ crashes' = crashes + 1
    /\ IF call = "sent" THEN Abandoned ELSE UNCHANGED <<posts, shown, late>>
    /\ batch' = <<>> /\ call' = "none"
    /\ UNCHANGED <<row, text, tried, misses, faults, overtaken>>

Boot ==
    /\ gateway = "down"
    /\ gateway' = "up"
    /\ row' = [r \in Rows |-> Recovered(row[r])]
    /\ UNCHANGED <<text, batch, call, posts, shown, late, tried, misses, faults, crashes, overtaken>>

Deliver == Claim \/ Request \/ Answered
Provider == ProviderAccepts \/ \E fault \in FaultKinds : ProviderFails(fault)
Loop == Deliver \/ Provider

Next ==
    \/ \E r \in Rows : Enqueue(r) \/ RunProgresses(r) \/ Reduce(r) \/ BecomesDue(r)
    \/ Loop \/ LateArrival \/ Crash \/ Boot

Spec == Init /\ [][Next]_vars

(* The loops run on, the provider's calls end by timeout at the latest,    *)
(* and the service manager restarts the gateway.                           *)
LiveSpec ==
    /\ Spec
    /\ WF_vars(Loop) /\ WF_vars(Boot)
    /\ \A r \in Rows : WF_vars(Reduce(r)) /\ WF_vars(BecomesDue(r))

-----------------------------------------------------------------------------
Statuses == {"absent", "PENDING", "SENDING", "RETRY_WAIT", "DELIVERED", "UNCERTAIN", "FAILED"}
Texts == 0 .. MaxText
OutboxRows == [status : Statuses, known : BOOLEAN, desired : Texts, attempts : Nat, due : BOOLEAN]
Jobs == [row : Rows, text : Texts, known : BOOLEAN]

TableTypeOK == row \in [Rows -> OutboxRows] /\ text \in [Rows -> Texts]

LoopTypeOK ==
    /\ batch \in Seq(Jobs)
    /\ call \in {"none", "sent", "accepted", "not modified", "lost", "rejected", "refused"}
    /\ call # "none" => batch # <<>>
    /\ gateway \in {"down", "up"}

ProviderTypeOK == posts \in [Rows -> Nat] /\ shown \in [Rows -> Texts] /\ late \subseteq Jobs

HistoryTypeOK ==
    /\ tried \subseteq Rows /\ misses \in [Rows -> Nat]
    /\ faults \in 0 .. MaxFaults /\ crashes \in 0 .. MaxCrashes
    /\ overtaken \subseteq Rows

(* The tables and the delivery loop hold what their schema and code allow. *)
TypeOK == TableTypeOK /\ LoopTypeOK /\ ProviderTypeOK /\ HistoryTypeOK

(* docs/milestone-4.md: a lost acknowledgement or a restart creates no     *)
(* second message: the provider never holds two for one row.  (Not so when *)
(* it answers "unclear", which _call takes for a rejection.)               *)
AtMostOneMessage == \A r \in Rows : posts[r] <= 1

(* No message of the row exists or is under way on its own. *)
Unsent(r) == posts[r] = 0 /\ \A job \in late : job.row = r => job.known

(* A late first message is the only one of its row. *)
LateInv ==
    /\ \A r \in Rows : posts[r] \in {0, 1}
    /\ \A job \in late : ~job.known => posts[job.row] = 0
    /\ \A j, k \in late : (~j.known /\ ~k.known /\ j.row = k.row) => j = k

(* Rows nothing was sent for. *)
WaitingInv ==
    \A r \in Rows :
       /\ row[r].status = "DELIVERED" => row[r].known
       /\ row[r].status = "absent" => Unsent(r)
       /\ row[r].status \in {"PENDING", "RETRY_WAIT"} /\ ~row[r].known => Unsent(r)

(* The i-th job of the batch: its row is held, and unsent while it is not  *)
(* known, unless its own request was answered or lost.                     *)
JobInv(i) ==
    /\ row[batch[i].row].status = "SENDING"
    /\ row[batch[i].row].known = batch[i].known
    /\ (~batch[i].known /\ ~(i = 1 /\ call \in {"accepted", "not modified", "lost"}))
          => Unsent(batch[i].row)

BatchInv ==
    /\ gateway = "down" => batch = <<>>
    /\ \A i \in DOMAIN batch : JobInv(i)
    /\ \A i, j \in DOMAIN batch : batch[i].row = batch[j].row => i = j

(* Why no row is posted twice: a waiting row is unsent, and a job's row    *)
(* stays in SENDING until the job is answered.                             *)
SendInv == LateInv /\ WaitingInv /\ BatchInv

(* A row is DELIVERED only while its one message shows its current text,   *)
(* whatever the presentation loop wrote while requests were in flight.     *)
(* (A given-up edit that the provider carries out late is beyond repair.)  *)
DeliveredIsCurrent ==
    \A r \in Rows : row[r].status = "DELIVERED" =>
       posts[r] = 1 /\ row[r].known /\ (r \in overtaken \/ shown[r] = row[r].desired)

(* The user never sees a message fall back to an older text, by a retry or *)
(* a recovery.                                                             *)
NeverBackwards == [][\A r \in Rows : shown'[r] >= shown[r] \/ late' # late]_vars

(* A run's final text, or a message, is eventually shown unless its row    *)
(* ends UNCERTAIN or FAILED, or a late edit hides it again.                *)
FinalTextShown ==
    \A r \in Rows : text[r] = Final(r) ~>
       shown[r] = Final(r) \/ row[r].status \in {"UNCERTAIN", "FAILED"} \/ r \in overtaken

(* docs/milestone-4.md:31: UNCERTAIN is for sends that lost their          *)
(* acknowledgement, so there was a send.                                   *)
UncertainWasSent == \A r \in Rows : row[r].status = "UNCERTAIN" => r \in tried

(* docs/milestone-4.md:32: edits to a known message are safely retried: a  *)
(* single retryable failure after a delivery is not the end of a row.      *)
FirstFailureIsRetried ==
    [][\A r \in Rows :
         (row[r].known /\ misses[r] = 0 /\ misses'[r] = 1 /\ call \in {"lost", "rejected"})
            => row'[r].status # "FAILED"]_vars
=============================================================================
