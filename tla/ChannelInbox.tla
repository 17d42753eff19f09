---------------------------- MODULE ChannelInbox ----------------------------
(***************************************************************************)
(* What a channel turns into runs and cancellations: the poll loop with    *)
(* its durable cursor, ingest as one transaction, the download of          *)
(* attachments, and the loop that carries out cancellation requests, over  *)
(* the run queue of RunLifecycle.  The gateway may die at any await.       *)
(*                                                                         *)
(* An update is its number, the text of a message its kind.  One chat of   *)
(* one workspace, whose main conversation is the first.                    *)
(***************************************************************************)
EXTENDS Integers, Sequences, FiniteSets

CONSTANTS
    MaxUpdates,   \* bound: updates are numbered 1 .. MaxUpdates as they arrive
    MaxRuns,      \* bound: runs of the store
    MaxConvs,     \* bound: conversations
    SentKinds,    \* what the updates may ask for
    CancelLimit,  \* attempts before a cancellation request is FAILED (8)
    Faults,       \* what may go wrong besides crashes
    MaxFaults,    \* bound: how often
    MaxCrashes    \* bound: crashes of the gateway

Updates == 1 .. MaxUpdates
Runs == 1 .. MaxRuns
Convs == 1 .. MaxConvs
Nobodys == {"other",      \* nothing the adapter makes a message of
            "stranger"}   \* a message of somebody else
Messages == {"text", "file"}
Kinds == Nobodys \cup Messages \cup
         {"photo",        \* attachments and no text
          "stop", "new", "workspace", "chat",
          "status"}       \* a command that only answers
FaultKinds == {"stop",         \* stopping the worker, or reading it out, raises
               "download",     \* an attachment cannot be had
               "redelivery"}   \* updates handled before are polled again

ASSUME InboxBounds ==
    /\ MaxUpdates \in Nat /\ MaxRuns \in Nat /\ MaxConvs \in Nat \ {0}
    /\ CancelLimit \in Nat \ {0} /\ MaxFaults \in Nat /\ MaxCrashes \in Nat
ASSUME InboxKinds == SentKinds \subseteq Kinds /\ Faults \subseteq FaultKinds

VARIABLES
    sent,      \* the kinds of the updates the provider has, in order
    cursor,    \* channel_cursors.last_update_id
    inbox,     \* the updates with a channel_inbox row
    bound,     \* the conversation of the binding, 0 without one
    convs,     \* how many conversations there are
    conv, status,   \* the runs, as in RunLifecycle
    origin,    \* the update each run was submitted for
    linked,    \* the runs whose attachments were tried
    requests,  \* the cancellation_requests table, oldest first
    woken,     \* conversations with a dispatch scheduled
    todo,      \* the polled updates the poll loop has still to handle
    fetching,  \* the run whose attachments it downloads, or 0
    cancels,   \* the claimed requests cancel_once has still to handle
    stopping,  \* it awaits the stop of the first one's worker
    hasDefault, \* a default workspace is configured, for good
    gateway, faults, crashes

chat == <<sent, cursor, inbox, bound, convs, hasDefault>>
runs == <<conv, status, origin>>
poller == <<todo, fetching>>
canceller == <<cancels, stopping>>
bounds == <<faults, crashes>>
vars == <<chat, runs, linked, requests, woken, poller, canceller, gateway, bounds>>

RunQueue == INSTANCE RunLifecycle WITH Conversations <- Convs

Init ==
    /\ sent = <<>> /\ cursor = 0 /\ inbox = {} /\ bound = 0 /\ convs = 1
    /\ RunQueue!Init
    /\ origin = <<>> /\ linked = {}
    /\ requests = <<>>
    /\ woken = {}
    /\ todo = {} /\ fetching = 0
    /\ cancels = {} /\ stopping = FALSE
    /\ hasDefault \in BOOLEAN
    /\ gateway = "up" /\ faults = 0 /\ crashes = 0

Goes(f) == f \in Faults /\ faults < MaxFaults /\ faults' = faults + 1
In(c, s) == {r \in DOMAIN conv : conv[r] = c /\ status[r] = s}
First(S) == CHOOSE x \in S : \A y \in S : x <= y

(* The provider numbers what it receives. *)
UserSends(k) ==
    /\ Len(sent) < MaxUpdates
    /\ sent' = Append(sent, k)
    /\ UNCHANGED <<cursor, inbox, bound, convs, hasDefault, runs, linked, requests, woken, poller,
                   canceller, gateway, bounds>>

-----------------------------------------------------------------------------
(* The poll loop.                                                          *)

(* Slip: what was polled counts as handled. *)
PolledIsHandled == cursor' = Len(sent)

(* Polling tells the provider where to go on and records nothing. *)
PollRecords == UNCHANGED cursor

Poll ==
    /\ gateway = "up" /\ todo = {}
    /\ \/ todo' = {u \in DOMAIN sent : u > cursor} /\ UNCHANGED faults
       \/ todo' = DOMAIN sent /\ Goes("redelivery")
    /\ todo' # {}
    /\ PollRecords
    /\ UNCHANGED <<sent, inbox, bound, convs, hasDefault, runs, linked, requests, woken, fetching, canceller,
                   gateway, crashes>>

Current == First(todo)
Asks(K) == gateway = "up" /\ todo # {} /\ fetching = 0 /\ sent[Current] \in K
NextUpdate == todo' = todo \ {Current}

(* Slip: a message that arrives twice is taken for a new one. *)
NeverBefore(u) == u \notin Updates

Before(u) == u \in inbox

(* _advance_cursor_tx *)
Advanced(u) == IF cursor < u THEN u ELSE cursor

(* Nothing for the agent: the cursor moves on. *)
Ignore ==
    /\ Asks(Nobodys) \/ (Asks(Kinds \ {"photo"}) /\ Before(Current))
    /\ cursor' = Advanced(Current)
    /\ NextUpdate
    /\ UNCHANGED <<sent, inbox, bound, convs, hasDefault, runs, linked, requests, woken, fetching, canceller,
                   gateway, bounds>>

(* ingest raises for a message without text, and the loop polls again. *)
Refuse ==
    /\ Asks({"photo"})
    /\ todo' = {}
    /\ UNCHANGED <<chat, runs, linked, requests, woken, fetching, canceller, gateway, bounds>>

(* The rest of ingest is one transaction. *)
Record(K) ==
    /\ Asks(K)
    /\ ~Before(Current)
    /\ inbox' = inbox \cup {Current}
    /\ cursor' = Advanced(Current)
    /\ UNCHANGED <<sent, hasDefault, canceller, gateway, bounds>>

(* The binding a message finds: a default workspace makes one. *)
Binding == IF bound = 0 /\ hasDefault THEN 1 ELSE bound

(* A message becomes a queued run.  One with attachments is activated when *)
(* they have been tried.                                                   *)
Message ==
    /\ Record(Messages)
    /\ Binding # 0 /\ bound' = Binding
    /\ RunQueue!Submit(Binding)
    /\ origin' = Append(origin, Current)
    /\ IF sent[Current] = "file"
       THEN fetching' = Len(conv') /\ UNCHANGED <<woken, todo>>
       ELSE woken' = woken \cup {Binding} /\ NextUpdate /\ UNCHANGED fetching
    /\ UNCHANGED <<convs, linked, requests>>

(* What only changes the binding, to a conversation of the workspace. *)
Bind(K, choices) ==
    /\ Record(K) /\ bound' \in choices
    /\ NextUpdate
    /\ UNCHANGED <<runs, linked, requests, woken, fetching>>

(* To its main conversation, or nowhere under an alias nobody knows. *)
SwitchWorkspace == Bind({"workspace"}, {1, bound}) /\ UNCHANGED convs

(* To one of its chats by number or name, or nowhere. *)
SwitchChat == Binding # 0 /\ Bind({"chat"}, 1 .. convs) /\ UNCHANGED convs

(* _create_conversation_tx *)
Created == convs + 1

NewConversation ==
    /\ Binding # 0 /\ Created \in Convs
    /\ Bind({"new"}, {Created})
    /\ convs' = Created

(* A command that only answers, and what cannot be done without a binding. *)
Answer ==
    /\ Bind(IF Binding = 0 THEN Messages \cup {"stop", "new", "chat", "status"} ELSE {"status"},
            {Binding})
    /\ UNCHANGED convs

(* _active_run_tx: the running run of the conversation, else its oldest    *)
(* queued one, else 0.                                                     *)
Target ==
    LET live(s) == In(Binding, s)
    IN  IF live("running") # {} THEN First(live("running"))
        ELSE IF live("queued") # {} THEN First(live("queued")) ELSE 0

NewRequest(r) == [run |-> r, state |-> "PENDING", attempts |-> 0]

(* RunManager.activate, whether or not the attachments could be had. *)
Activated(r, had) == IF status[r] = "queued" THEN woken \cup {conv[r]} ELSE woken

(* A run has one request: asking again while it has one changes nothing.   *)
(* ingest names the run, so that it is activated too.  Attachments sent    *)
(* with /stop, which would be linked to it, are left out.                  *)
Stop ==
    /\ Record({"stop"})
    /\ Binding # 0 /\ bound' = Binding
    /\ requests' = IF Target # 0 /\ \A i \in DOMAIN requests : requests[i].run # Target
                   THEN Append(requests, NewRequest(Target)) ELSE requests
    /\ woken' = IF Target # 0 THEN Activated(Target, TRUE) ELSE woken
    /\ NextUpdate
    /\ UNCHANGED <<convs, runs, linked, fetching>>

Fetched(had) ==
    /\ gateway = "up" /\ fetching # 0
    /\ IF had THEN UNCHANGED faults ELSE Goes("download")
    /\ linked' = linked \cup {fetching}
    /\ woken' = Activated(fetching, had)
    /\ fetching' = 0
    /\ NextUpdate
    /\ UNCHANGED <<chat, runs, requests, canceller, gateway, crashes>>

-----------------------------------------------------------------------------
(* The cancellation loop.                                                  *)

ClaimCancellations ==
    /\ gateway = "up" /\ cancels = {}
    /\ cancels' = {i \in DOMAIN requests : requests[i].state = "PENDING"}
    /\ cancels' # {}
    /\ requests' = [i \in DOMAIN requests |->
          IF i \in cancels'
          THEN [requests[i] EXCEPT !.state = "PROCESSING", !.attempts = @ + 1] ELSE requests[i]]
    /\ UNCHANGED <<chat, runs, linked, woken, poller, stopping, gateway, bounds>>

(* finish_cancellation *)
Finished(i, ok) ==
    [requests EXCEPT ![i].state =
        IF ok THEN "COMPLETED" ELSE IF requests[i].attempts >= CancelLimit THEN "FAILED" ELSE "PENDING"]

Doing(i) == gateway = "up" /\ cancels # {} /\ i = First(cancels)
Done(i, ok) ==
    /\ requests' = Finished(i, ok)
    /\ cancels' = cancels \ {i}
    /\ stopping' = FALSE
    /\ UNCHANGED <<chat, conv, origin, linked, poller, gateway, crashes>>

(* A queued run is cancelled at once; one that has ended is left alone. *)
CancelAtOnce(i, r) ==
    /\ Doing(i) /\ ~stopping /\ r = requests[i].run
    /\ \/ RunQueue!CancelQueued(r) /\ woken' = woken \cup {conv[r]}
       \/ status[r] \in RunQueue!Outcomes /\ UNCHANGED <<status, woken>>
    /\ Done(i, TRUE)
    /\ UNCHANGED faults

(* A running run's worker is stopped first, an await. *)
CancelRunning(i) ==
    /\ Doing(i) /\ ~stopping
    /\ status[requests[i].run] = "running"
    /\ stopping' = TRUE
    /\ UNCHANGED <<chat, runs, linked, requests, woken, poller, cancels, gateway, bounds>>

(* transition_run(..., expected=("running",)) *)
Cancelled(r) == IF status[r] = "running" THEN [status EXCEPT ![r] = "cancelled"] ELSE status

StopAnswered(i, r) ==
    /\ Doing(i) /\ stopping /\ r = requests[i].run
    /\ status' = Cancelled(r)
    /\ woken' = woken \cup {conv[r]}
    /\ Done(i, TRUE)
    /\ UNCHANGED faults

StopRaises(i) ==
    /\ Doing(i) /\ stopping
    /\ Goes("stop")
    /\ Done(i, FALSE)
    /\ UNCHANGED <<status, woken>>

-----------------------------------------------------------------------------
(* The run manager, as far as the channel sees it.                         *)

Dispatch(c) ==
    /\ gateway = "up" /\ c \in woken
    /\ woken' = woken \ {c}
    /\ \/ \E r \in In(c, "queued") : RunQueue!Start(r)
       \/ (In(c, "queued") = {} \/ In(c, "running") # {}) /\ UNCHANGED <<conv, status>>
    /\ UNCHANGED <<chat, origin, linked, requests, poller, canceller, gateway, bounds>>

RunEnds(r) ==
    /\ gateway = "up" /\ r \in DOMAIN conv
    /\ RunQueue!Settle({r})
    /\ woken' = woken \cup {conv[r]}
    /\ UNCHANGED <<chat, origin, linked, requests, poller, canceller, gateway, bounds>>

Crash ==
    /\ gateway = "up" /\ crashes < MaxCrashes
    /\ gateway' = "down" /\ crashes' = crashes + 1
    /\ woken' = {}
    /\ todo' = {} /\ fetching' = 0
    /\ cancels' = {} /\ stopping' = FALSE
    /\ UNCHANGED <<chat, runs, linked, requests, faults>>

(* Slip: a request that was being processed is left so. *)
RequestsAsLeft == requests

(* recover_cancellations *)
Recovered == [i \in DOMAIN requests |-> IF requests[i].state = "PROCESSING"
                 THEN [requests[i] EXCEPT !.state = "PENDING"] ELSE requests[i]]

(* reconcile dispatches every conversation with queued runs. *)
Boot ==
    /\ gateway = "down" /\ gateway' = "up"
    /\ woken' = {conv[r] : r \in {q \in DOMAIN conv : status[q] = "queued"}}
    /\ requests' = Recovered
    /\ UNCHANGED <<chat, runs, linked, poller, canceller, bounds>>

HandleUpdate ==
    \/ Ignore \/ Refuse \/ Message \/ Stop
    \/ SwitchWorkspace \/ SwitchChat \/ NewConversation \/ Answer
Cancellation ==
    \/ \E i \in DOMAIN requests :
          \/ \E r \in Runs : CancelAtOnce(i, r) \/ StopAnswered(i, r)
          \/ CancelRunning(i)
    \/ ClaimCancellations

Next ==
    \/ \E k \in SentKinds : UserSends(k)
    \/ Poll \/ HandleUpdate \/ \E had \in BOOLEAN : Fetched(had)
    \/ Cancellation \/ \E i \in DOMAIN requests : StopRaises(i)
    \/ \E c \in Convs : Dispatch(c)
    \/ \E r \in Runs : RunEnds(r)
    \/ Crash \/ Boot

Spec == Init /\ [][Next]_vars

(* The loops poll and are scheduled, the downloads time out, systemd       *)
(* restarts the gateway.  Nothing makes the user send or a run end.        *)
LiveSpec ==
    /\ Spec
    /\ WF_vars(Poll) /\ WF_vars(HandleUpdate) /\ WF_vars(\E had \in BOOLEAN : Fetched(had))
    /\ WF_vars(Cancellation)
    /\ \A c \in Convs : WF_vars(Dispatch(c))
    /\ WF_vars(Boot)

-----------------------------------------------------------------------------
(* Properties.                                                             *)

(* Every part of the state stays in its range. *)
TypeOK ==
    /\ sent \in Seq(SentKinds) /\ Len(sent) <= MaxUpdates
    /\ cursor \in 0 .. Len(sent) /\ inbox \subseteq DOMAIN sent
    /\ convs \in Convs /\ bound \in 0 .. convs
    /\ conv \in Seq(1 .. convs) /\ Len(conv) <= MaxRuns
    /\ status \in [Runs -> {"absent", "queued", "running"} \cup RunQueue!Outcomes]
    /\ origin \in Seq(inbox) /\ Len(origin) = Len(conv)
    /\ linked \subseteq DOMAIN conv
    /\ requests \in Seq([run : DOMAIN conv, state : {"PENDING", "PROCESSING", "COMPLETED", "FAILED"},
                         attempts : Nat])
    /\ woken \subseteq 1 .. convs
    /\ todo \subseteq DOMAIN sent /\ fetching \in {0} \cup DOMAIN conv
    /\ cancels \subseteq DOMAIN requests /\ stopping \in BOOLEAN
    /\ hasDefault \in BOOLEAN
    /\ gateway \in {"up", "down"} /\ faults \in 0 .. MaxFaults /\ crashes \in 0 .. MaxCrashes

(* However often an update is delivered and wherever the gateway dies, it  *)
(* makes one run at most, and runs are submitted in the order the user     *)
(* wrote (the inbox key, the cursor and the run in one transaction).       *)
OneRunPerUpdate == \A r, q \in DOMAIN origin : r < q => origin[r] < origin[q]

(* The cursor passes no message that is not recorded, and with a default   *)
(* workspace no message that has not become a run.                         *)
NothingSkipped ==
    \A u \in 1 .. cursor : sent[u] \notin Nobodys =>
        /\ u \in inbox
        /\ hasDefault /\ sent[u] \in Messages => \E r \in DOMAIN origin : origin[r] = u

(* A cancellation request is reported as completed only when its run has   *)
(* ended, though stop may fail and the run may end during it.              *)
CompletedMeansEnded ==
    \A i \in DOMAIN requests : requests[i].state = "COMPLETED" =>
        status[requests[i].run] \in RunQueue!Outcomes

(* Messages, stops and restarts drive the queue only as RunLifecycle       *)
(* allows: in order, one at a time, and a run that has ended keeps its     *)
(* outcome even when it ended while its worker was being stopped.          *)
RunQueueSpec == RunQueue!Spec

(* While stop fails fewer times than the limit allows, a requested         *)
(* cancellation ends its run, across crashes.                              *)
StopTakesEffect ==
    \A i \in 1 .. MaxUpdates :
        (i \in DOMAIN requests) ~> (i \in DOMAIN requests /\ status[requests[i].run] \in RunQueue!Outcomes)

(* No queued run is forgotten: it starts or ends, or something runs in its *)
(* conversation, also when its attachments fail or the gateway dies while  *)
(* they are downloaded.                                                    *)
QueueMoves ==
    \A r \in Runs : (status[r] = "queued")
        ~> (status[r] # "queued" \/ \E q \in DOMAIN conv : conv[q] = conv[r] /\ status[q] = "running")

(* Every update is handled, whatever fails, up to the first one without    *)
(* text.                                                                   *)
UpdatesHandled ==
    \A u \in Updates : (u <= Len(sent)) ~> 
        (u <= cursor \/ \E p \in DOMAIN sent : p <= u /\ sent[p] = "photo")

(* "Accept text messages, photo messages, and document messages": every    *)
(* update is handled.                                                      *)
EveryUpdateHandled == \A u \in Updates : (u <= Len(sent)) ~> (u <= cursor)

(* "Cancellation requested": after /stop its run has an open request.      *)
StopIsPursued ==
    [][\A u \in inbox' \ inbox : sent[u] = "stop" /\ Target # 0 =>
          \E i \in DOMAIN requests' :
             requests'[i].run = Target /\ requests'[i].state \in {"PENDING", "PROCESSING"}]_vars

(* "Download Telegram attachments and link them to the run's user          *)
(* message": a run starts after that was tried.                            *)
AttachmentsReachTheRun ==
    [][\A r \in Runs : status[r] = "queued" /\ status'[r] = "running" /\ sent[origin[r]] = "file"
          => r \in linked]_vars
=============================================================================
