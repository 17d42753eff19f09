-------------------------- MODULE ChannelInboxProof --------------------------
(***************************************************************************)
(* Proofs about ChannelInbox, for every number of updates, runs and        *)
(* conversations, all kinds of messages, every fault and every bound.      *)
(*                                                                         *)
(* That nothing is skipped is not inductive by itself: the cursor may only *)
(* move to the update handled because the loop has handled or holds every  *)
(* one between them (NoGap below).                                         *)
(***************************************************************************)
EXTENDS ChannelInbox, FiniteSetTheorems, SequenceTheorems, TLAPS

Outcomes == {"completed", "failed", "cancelled", "interrupted", "orphaned"}
Statuses == {"absent", "queued", "running"} \cup Outcomes
Requests(n) == [run : 1 .. n, state : {"PENDING", "PROCESSING", "COMPLETED", "FAILED"},
                attempts : Nat]

(* What TypeOK says, part by part. *)
ChatTyped ==
    /\ sent \in Seq(SentKinds) /\ Len(sent) <= MaxUpdates
    /\ cursor \in 0 .. Len(sent) /\ inbox \subseteq 1 .. Len(sent)
    /\ convs \in Convs /\ bound \in 0 .. convs
    /\ todo \subseteq 1 .. Len(sent)
    /\ hasDefault \in BOOLEAN
RunsTyped ==
    /\ conv \in Seq(1 .. convs) /\ Len(conv) <= MaxRuns
    /\ status \in [Runs -> Statuses]
    /\ origin \in Seq(inbox) /\ Len(origin) = Len(conv)
    /\ linked \subseteq 1 .. Len(conv) /\ fetching \in 0 .. Len(conv)
    /\ woken \subseteq 1 .. convs
CancelsTyped ==
    /\ requests \in Seq(Requests(Len(conv)))
    /\ cancels \subseteq 1 .. Len(requests) /\ stopping \in BOOLEAN
Bounded == gateway \in {"up", "down"} /\ faults \in 0 .. MaxFaults /\ crashes \in 0 .. MaxCrashes

Typed == ChatTyped /\ RunsTyped /\ CancelsTyped /\ Bounded

(* What the loop still holds has no gap behind the cursor. *)
NoGap == \A v \in todo, u \in DOMAIN sent : cursor < u /\ u < v => u \in todo

(* What the cursor has passed is recorded, and what is recorded has run. *)
Handled ==
    /\ \A u \in inbox : u <= cursor
    /\ \A u \in 1 .. cursor : sent[u] \notin Nobodys => u \in inbox
    /\ \A u \in inbox : hasDefault /\ sent[u] \in Messages => \E r \in DOMAIN origin : origin[r] = u

(* A stop is awaited of a run that was running then. *)
StopOfRunning ==
    stopping => /\ cancels # {}
                /\ \A i \in DOMAIN requests : i = First(cancels) =>
                      status[requests[i].run] \in {"running"} \cup Outcomes

(* Attachments are downloaded for the update that was just recorded. *)
Fetching == fetching # 0 => todo # {} /\ Current \in inbox

Polled == NoGap /\ Handled /\ OneRunPerUpdate
Cancelling == CompletedMeansEnded /\ StopOfRunning

IInv == Typed /\ Polled /\ Fetching /\ Cancelling

-----------------------------------------------------------------------------
(* Facts about types, numbers and sequences.                               *)

LEMMA TypeParts == TypeOK <=> Typed
<1>1. \A S : \A s \in Seq(S) : Len(s) \in Nat /\ DOMAIN s = 1 .. Len(s)
  BY LenProperties
<1>2. ASSUME TypeOK PROVE ChatTyped /\ RunsTyped /\ CancelsTyped /\ Bounded
  <2>1. /\ DOMAIN sent = 1 .. Len(sent) /\ DOMAIN conv = 1 .. Len(conv)
        /\ DOMAIN requests = 1 .. Len(requests) /\ Len(conv) \in Nat
    BY <1>1, <1>2 DEF TypeOK
  <2>2. ChatTyped
    BY <1>2, <2>1 DEF TypeOK, ChatTyped
  <2>3. RunsTyped
    BY <1>2, <2>1 DEF TypeOK, RunsTyped, RunQueue!Outcomes, Outcomes, Statuses
  <2>4. CancelsTyped
    BY <1>2, <2>1 DEF TypeOK, CancelsTyped, Requests
  <2>5. Bounded
    BY <1>2 DEF TypeOK, Bounded
  <2>. QED
    BY <2>2, <2>3, <2>4, <2>5
<1>3. ASSUME ChatTyped, RunsTyped, CancelsTyped, Bounded PROVE TypeOK
  <2>1. /\ DOMAIN sent = 1 .. Len(sent) /\ DOMAIN conv = 1 .. Len(conv)
        /\ DOMAIN requests = 1 .. Len(requests) /\ Len(conv) \in Nat
    BY <1>1, <1>3 DEF ChatTyped, RunsTyped, CancelsTyped
  <2>. QED
    BY <1>3, <2>1 DEF TypeOK, ChatTyped, RunsTyped, CancelsTyped, Bounded, Requests,
                      RunQueue!Outcomes, Outcomes, Statuses
<1>. QED
  BY <1>2, <1>3 DEF Typed

LEMMA LongerSeq ==
    ASSUME NEW S, NEW T, S \subseteq T, NEW s \in Seq(S)
    PROVE  s \in Seq(T)
BY SMT

(* Every nonempty set of numbers has its first: the sets of elements below *)
(* each of its elements are finite, and one of them is the smallest.       *)
LEMMA LeastElement ==
    ASSUME NEW S \in SUBSET Nat, S # {}
    PROVE  \E m \in S : \A x \in S : m <= x
<1>. DEFINE Below(x) == {y \in S : y < x}
            Sets == {Below(x) : x \in S}
<1>1. Sets \subseteq FiniteSubsetsOf(S) /\ Sets # {}
  <2>1. ASSUME NEW x \in S PROVE Below(x) \in FiniteSubsetsOf(S)
    <3>1. \A y \in Nat : y < x => y \in 0 .. x
      OBVIOUS
    <3>2. Below(x) \subseteq 0 .. x
      BY <3>1
    <3>3. IsFiniteSet(0 .. x)
      <4>1. 0 \in Int /\ x \in Int
        OBVIOUS
      <4>. QED
        BY <4>1, FS_Interval
    <3>. QED
      BY <3>2, <3>3, FS_Subset DEF FiniteSubsetsOf
  <2>. QED
    BY <2>1
<1>2. PICK T \in Sets : \A U \in Sets : <<U, T>> \notin StrictSubsetOrdering(S)
  BY <1>1, FS_StrictSubsetOrderingWellFounded, WFMin
<1>3. PICK m \in S : T = Below(m)
  BY <1>2
<1>4. ASSUME NEW x \in S, x < m PROVE FALSE
  <2>1. \A y \in Nat : y < x => y < m
    BY <1>4
  <2>2. Below(x) \subseteq Below(m)
    BY <2>1
  <2>3. x \in Below(m) /\ x \notin Below(x)
    BY <1>4
  <2>4. <<Below(x), Below(m)>> \in StrictSubsetOrdering(S)
    BY <2>2, <2>3 DEF StrictSubsetOrdering
  <2>. QED
    BY <2>4, <1>2, <1>3
<1>. QED
  BY <1>4

LEMMA FirstIsLeast ==
    ASSUME NEW S, NEW n, S \subseteq 1 .. n, S # {}
    PROVE  First(S) \in S /\ \A x \in S : First(S) <= x
<1>1. S \in SUBSET Nat
  OBVIOUS
<1>2. \E m \in S : \A x \in S : m <= x
  BY <1>1, LeastElement
<1>. QED
  BY <1>2 DEF First

(* The loop comes to the next update it has not handled, or to one it had. *)
LEMMA CurrentFacts ==
    ASSUME Typed, Polled, todo # {}
    PROVE  /\ Current \in todo /\ Current \in 1 .. Len(sent) /\ Len(sent) \in Nat
           /\ \A v \in todo : Current <= v
           /\ Current <= cursor \/ Current = cursor + 1
<1>1. todo \subseteq 1 .. Len(sent) /\ cursor \in 0 .. Len(sent) /\ sent \in Seq(SentKinds)
  BY DEF Typed, ChatTyped
<1>2. Len(sent) \in Nat /\ DOMAIN sent = 1 .. Len(sent)
  BY <1>1, LenProperties
<1>3. Current \in todo /\ \A v \in todo : Current <= v
  BY <1>1, FirstIsLeast DEF Current
<1>4. ASSUME cursor + 1 < Current PROVE FALSE
  <2>1. cursor + 1 \in DOMAIN sent
    BY <1>1, <1>2, <1>3, <1>4
  <2>2. cursor + 1 \in todo
    BY <1>1, <1>2, <1>3, <1>4, <2>1 DEF Polled, NoGap
  <2>. QED
    BY <1>1, <1>2, <1>3, <1>4, <2>2
<1>. QED
  BY <1>1, <1>2, <1>3, <1>4

-----------------------------------------------------------------------------
(* The poll loop.                                                          *)

LEMMA AppendFacts ==
    ASSUME NEW S, NEW s \in Seq(S), NEW e
    PROVE  /\ Append(s, e) \in Seq(S \cup {e})
           /\ Len(Append(s, e)) = Len(s) + 1 /\ Len(s) \in Nat
           /\ Append(s, e)[Len(s) + 1] = e
           /\ \A i \in 1 .. Len(s) : Append(s, e)[i] = s[i]
           /\ DOMAIN s = 1 .. Len(s) /\ DOMAIN Append(s, e) = 1 .. Len(s) + 1
<1>1. s \in Seq(S \cup {e})
  BY LongerSeq
<1>. QED
  BY <1>1, AppendProperties, LenProperties

(* What ends the handling of an update: the cursor is on it, it is         *)
(* recorded if it asked for something, and a message has made its run.     *)
LEMMA Advances ==
    ASSUME Typed, Polled, todo # {}, UNCHANGED <<sent, hasDefault>>,
           cursor' = Advanced(Current), todo' \in {todo, todo \ {Current}},
           inbox' \in {inbox, inbox \cup {Current}},
           sent[Current] \in Nobodys \/ Current \in inbox',
           \/ origin' = origin /\ (Current \in inbox \/ ~hasDefault \/ sent[Current] \notin Messages)
           \/ /\ origin' = Append(origin, Current) /\ Current \in inbox' \ inbox
              /\ sent[Current] \notin Nobodys
    PROVE  /\ Polled'
           /\ cursor' \in 0 .. Len(sent) /\ inbox' \subseteq 1 .. Len(sent) /\ inbox \subseteq inbox'
           /\ todo' \subseteq 1 .. Len(sent)
           /\ origin' \in Seq(inbox')
<1>1. /\ Current \in todo /\ Current \in 1 .. Len(sent) /\ Len(sent) \in Nat
      /\ \A v \in todo : Current <= v
      /\ Current <= cursor \/ Current = cursor + 1
  BY CurrentFacts
<1>2. /\ cursor \in 0 .. Len(sent) /\ inbox \subseteq 1 .. Len(sent) /\ todo \subseteq 1 .. Len(sent)
      /\ origin \in Seq(inbox) /\ DOMAIN sent = 1 .. Len(sent)
  BY LenProperties DEF Typed, ChatTyped, RunsTyped
<1>3. PICK u : u = Current
  OBVIOUS
<1>4. /\ cursor' = IF cursor < u THEN u ELSE cursor
      /\ cursor' \in 0 .. Len(sent) /\ inbox' \subseteq 1 .. Len(sent) /\ inbox \subseteq inbox'
      /\ todo' \subseteq 1 .. Len(sent)
  BY <1>1, <1>2, <1>3 DEF Advanced
<1>5. /\ Append(origin, u) \in Seq(inbox \cup {u}) /\ Len(Append(origin, u)) = Len(origin) + 1
      /\ Len(origin) \in Nat /\ Append(origin, u)[Len(origin) + 1] = u
      /\ \A i \in 1 .. Len(origin) : Append(origin, u)[i] = origin[i] /\ origin[i] \in inbox
      /\ DOMAIN origin = 1 .. Len(origin) /\ DOMAIN Append(origin, u) = 1 .. Len(origin) + 1
  <2>1. \A i \in 1 .. Len(origin) : origin[i] \in inbox
    BY <1>2, ElementOfSeq
  <2>. QED
    BY <1>2, <2>1, AppendFacts
<1>a. \/ /\ origin' = origin /\ DOMAIN origin' = 1 .. Len(origin)
         /\ u \in inbox \/ ~hasDefault \/ sent[u] \notin Messages
      \/ /\ u \in inbox' \ inbox /\ sent[u] \notin Nobodys
         /\ origin' \in Seq(inbox \cup {u}) /\ DOMAIN origin' = 1 .. Len(origin) + 1
         /\ origin'[Len(origin) + 1] = u
         /\ \A i \in 1 .. Len(origin) : origin'[i] = origin[i]
  <2>1. CASE origin' = origin /\ (Current \in inbox \/ ~hasDefault \/ sent[Current] \notin Messages)
    BY <1>3, <1>5, <2>1
  <2>2. CASE origin' = Append(origin, Current) /\ Current \in inbox' \ inbox /\ sent[Current] \notin Nobodys
    <3>1. origin' = Append(origin, u)
      BY <1>3, <2>2
    <3>. QED
      BY <1>3, <1>5, <2>2, <3>1
  <2>. QED
    BY <2>1, <2>2
<1>6. origin' \in Seq(inbox')
  <2>1. CASE origin' = origin
    BY <1>2, <1>4, <2>1, LongerSeq
  <2>2. CASE origin' \in Seq(inbox \cup {u}) /\ u \in inbox'
    <3>1. inbox \cup {u} \subseteq inbox'
      BY <1>4, <2>2
    <3>. QED
      BY <2>2, <3>1, LongerSeq
  <2>. QED
    BY <1>a, <2>1, <2>2
<1>7. NoGap'
  <2>. SUFFICES ASSUME NEW v \in todo', NEW w \in DOMAIN sent, cursor' < w, w < v
                PROVE  w \in todo'
    BY DEF NoGap
  <2>1. v \in todo /\ cursor < w /\ w # u
    BY <1>1, <1>2, <1>3, <1>4
  <2>2. w \in todo
    BY <2>1 DEF Polled, NoGap
  <2>. QED
    BY <1>3, <2>1, <2>2
<1>8. \A x \in inbox' : x <= cursor'
  <2>1. \A x \in inbox : x <= cursor
    BY DEF Polled, Handled
  <2>. QED
    BY <1>1, <1>2, <1>3, <1>4, <2>1
<1>9. \A x \in 1 .. cursor' : sent[x] \notin Nobodys => x \in inbox'
  <2>1. \A x \in 1 .. cursor : sent[x] \notin Nobodys => x \in inbox
    BY DEF Polled, Handled
  <2>. QED
    BY <1>1, <1>2, <1>3, <1>4, <2>1
<1>10. \A x \in inbox' : hasDefault /\ sent[x] \in Messages => \E r \in DOMAIN origin' : origin'[r] = x
  <2>. SUFFICES ASSUME NEW x \in inbox', hasDefault, sent[x] \in Messages
                PROVE  \E r \in DOMAIN origin' : origin'[r] = x
    OBVIOUS
  <2>1. CASE x \in inbox
    <3>1. PICK r \in DOMAIN origin : origin[r] = x
      BY <2>1 DEF Polled, Handled
    <3>2. r \in DOMAIN origin' /\ origin'[r] = x
      BY <1>a, <1>5, <3>1
    <3>. QED
      BY <3>2
  <2>2. CASE x \notin inbox
    <3>1. x = u
      BY <1>3, <2>2
    <3>2. Len(origin) + 1 \in DOMAIN origin' /\ origin'[Len(origin) + 1] = x
      BY <1>a, <1>5, <2>2, <3>1
    <3>. QED
      BY <3>2
  <2>. QED
    BY <2>1, <2>2
<1>11. Handled'
  BY <1>8, <1>9, <1>10 DEF Handled
<1>12. OneRunPerUpdate'
  <2>1. CASE origin' = origin
    BY <2>1 DEF Polled, OneRunPerUpdate
  <2>2. CASE /\ u \in inbox' \ inbox /\ sent[u] \notin Nobodys /\ DOMAIN origin' = 1 .. Len(origin) + 1
             /\ origin'[Len(origin) + 1] = u
             /\ \A i \in 1 .. Len(origin) : origin'[i] = origin[i]
    <3>1. cursor < u
      <4>1. u \in 1 .. cursor => u \in inbox
        BY <2>2 DEF Polled, Handled
      <4>. QED
        BY <1>1, <1>2, <1>3, <2>2, <4>1
    <3>2. \A i \in 1 .. Len(origin) : origin[i] <= cursor /\ origin[i] \in Int
      <4>1. \A x \in inbox : x <= cursor /\ x \in Int
        BY <1>2 DEF Polled, Handled
      <4>2. \A i \in 1 .. Len(origin) : origin[i] \in inbox
        BY <1>2, ElementOfSeq
      <4>. QED
        BY <4>1, <4>2
    <3>3. \A r, q \in 1 .. Len(origin) : r < q => origin[r] < origin[q]
      BY <1>5 DEF Polled, OneRunPerUpdate
    <3>. SUFFICES ASSUME NEW r \in 1 .. Len(origin) + 1, NEW q \in 1 .. Len(origin) + 1, r < q
                  PROVE  origin'[r] < origin'[q]
      BY <2>2 DEF OneRunPerUpdate
    <3>5. r \in 1 .. Len(origin) /\ origin'[r] = origin[r]
      BY <1>5, <2>2
    <3>6. CASE q \in 1 .. Len(origin)
      BY <2>2, <3>3, <3>5, <3>6
    <3>7. CASE q = Len(origin) + 1
      <4>1. origin[r] <= cursor /\ origin[r] \in Int /\ u \in Int /\ cursor \in Int
        BY <1>1, <1>2, <1>3, <3>2, <3>5
      <4>. QED
        BY <2>2, <3>1, <3>5, <3>7, <4>1
    <3>. QED
      BY <1>5, <3>6, <3>7
  <2>. QED
    BY <1>a, <2>1, <2>2
<1>. QED
  BY <1>4, <1>6, <1>7, <1>11, <1>12 DEF Polled

LEMMA PolledStays ==
    ASSUME Polled, UNCHANGED <<sent, cursor, inbox, origin, hasDefault>>,
           todo' \in {todo, {}}
    PROVE  Polled'
BY DEF Polled, NoGap, Handled, OneRunPerUpdate

LEMMA CancellingStays ==
    ASSUME Cancelling, UNCHANGED <<status, requests, canceller>>
    PROVE  Cancelling'
BY DEF Cancelling, CompletedMeansEnded, StopOfRunning, First, canceller

LEMMA FetchingStays ==
    ASSUME Fetching, UNCHANGED <<todo, inbox, fetching>>
    PROVE  Fetching'
BY DEF Fetching, Current, First

LEMMA UserSendsInv ==
    ASSUME IInv, NEW k \in SentKinds, UserSends(k)
    PROVE  IInv'
<1>1. /\ Len(sent) < MaxUpdates /\ sent' = Append(sent, k)
      /\ UNCHANGED <<cursor, inbox, bound, convs, hasDefault, conv, status, origin, linked, requests,
                     woken, todo, fetching, cancels, stopping, gateway, faults, crashes>>
  BY DEF UserSends, runs, poller, canceller, bounds
<1>2. ChatTyped /\ RunsTyped /\ CancelsTyped /\ Bounded
  BY DEF Typed, IInv
<1>3. /\ sent' \in Seq(SentKinds) /\ Len(sent') = Len(sent) + 1 /\ Len(sent) \in Nat
      /\ DOMAIN sent = 1 .. Len(sent) /\ DOMAIN sent' = 1 .. Len(sent) + 1
      /\ \A i \in 1 .. Len(sent) : sent'[i] = sent[i]
  BY <1>1, <1>2, AppendProperties, LenProperties DEF ChatTyped
<1>4. ChatTyped'
  BY <1>1, <1>2, <1>3, InboxBounds DEF ChatTyped
<1>5. Typed'
  BY <1>1, <1>2, <1>4 DEF Typed, RunsTyped, CancelsTyped, Bounded
<1>6. Polled'
  <2>1. NoGap'
    BY <1>1, <1>2, <1>3 DEF IInv, Polled, NoGap, ChatTyped
  <2>2. Handled'
    BY <1>1, <1>2, <1>3 DEF IInv, Polled, Handled, ChatTyped
  <2>. QED
    BY <1>1, <2>1, <2>2 DEF IInv, Polled, OneRunPerUpdate
<1>. QED
  BY <1>1, <1>5, <1>6, FetchingStays, CancellingStays DEF IInv, canceller

LEMMA PollInv ==
    ASSUME IInv, Poll
    PROVE  IInv'
<1>1. /\ \/ todo' = {u \in DOMAIN sent : u > cursor} /\ faults' = faults
         \/ todo' = DOMAIN sent /\ faults < MaxFaults /\ faults' = faults + 1
      /\ todo = {}
      /\ UNCHANGED <<sent, cursor, inbox, bound, convs, hasDefault, conv, status, origin, linked,
                     requests, woken, fetching, cancels, stopping, gateway, crashes>>
  BY DEF Poll, Goes, PollRecords, runs, canceller
<1>2. ChatTyped /\ RunsTyped /\ CancelsTyped /\ Bounded /\ DOMAIN sent = 1 .. Len(sent)
  BY LenProperties DEF Typed, IInv, ChatTyped
<1>3. ChatTyped' /\ Bounded'
  BY <1>1, <1>2, InboxBounds DEF ChatTyped, Bounded
<1>4. Typed'
  BY <1>1, <1>2, <1>3 DEF Typed, RunsTyped, CancelsTyped
<1>5. Polled'
  <2>1. NoGap'
    BY <1>1, <1>2 DEF NoGap
  <2>. QED
    BY <1>1, <2>1 DEF IInv, Polled, Handled, OneRunPerUpdate
<1>6. Fetching'
  BY <1>1 DEF IInv, Fetching
<1>. QED
  BY <1>1, <1>4, <1>5, <1>6, CancellingStays DEF IInv, canceller

LEMMA IgnoreInv ==
    ASSUME IInv, Ignore \/ Refuse
    PROVE  IInv'
<1>1. ChatTyped /\ RunsTyped /\ CancelsTyped /\ Bounded
  BY DEF Typed, IInv
<1>2. CASE Ignore
  <2>1. /\ todo # {} /\ (sent[Current] \in Nobodys \/ Current \in inbox)
        /\ cursor' = Advanced(Current) /\ todo' = todo \ {Current}
        /\ UNCHANGED <<sent, inbox, bound, convs, hasDefault, conv, status, origin, linked, requests,
                       woken, fetching, cancels, stopping, gateway, faults, crashes>>
    BY <1>2 DEF Ignore, Asks, Before, NextUpdate, runs, canceller, bounds
  <2>2. todo # {} /\ fetching = 0
    BY <1>2 DEF Ignore, Asks
  <2>3. /\ Polled' /\ cursor' \in 0 .. Len(sent) /\ todo' \subseteq 1 .. Len(sent)
    <3>1. \/ origin' = origin /\ (Current \in inbox \/ ~hasDefault \/ sent[Current] \notin Messages)
      BY <2>1 DEF Nobodys, Messages
    <3>. QED
      BY <2>1, <2>2, <3>1, Advances DEF IInv
  <2>4. Typed'
    BY <1>1, <2>1, <2>3 DEF Typed, ChatTyped, RunsTyped, CancelsTyped, Bounded
  <2>. QED
    BY <2>1, <2>2, <2>3, <2>4, CancellingStays DEF IInv, Fetching, canceller
<1>3. CASE Refuse
  <2>1. /\ todo' = {} /\ fetching = 0
        /\ UNCHANGED <<sent, cursor, inbox, bound, convs, hasDefault, conv, status, origin, linked,
                       requests, woken, fetching, cancels, stopping, gateway, faults, crashes>>
    BY <1>3 DEF Refuse, Asks, chat, runs, canceller, bounds
  <2>2. Typed'
    BY <1>1, <2>1 DEF Typed, ChatTyped, RunsTyped, CancelsTyped, Bounded
  <2>. QED
    BY <2>1, <2>2, PolledStays, CancellingStays DEF IInv, Fetching, canceller
<1>. QED
  BY <1>2, <1>3

-----------------------------------------------------------------------------
(* What ingest records.                                                    *)

LEMMA RecordFacts ==
    ASSUME Typed, NEW K, Record(K)
    PROVE  /\ todo # {} /\ sent[Current] \in K /\ Current \notin inbox /\ fetching = 0
           /\ inbox' = inbox \cup {Current} /\ cursor' = Advanced(Current)
           /\ UNCHANGED <<sent, hasDefault, cancels, stopping, gateway, faults, crashes>>
BY DEF Record, Asks, Before, canceller, bounds

(* What leaves the runs alone and makes none of a message there is a       *)
(* workspace for.                                                          *)
LEMMA BindInv ==
    ASSUME IInv, NEW K, NEW choices, Bind(K, choices),
           convs' \in Convs, convs <= convs', choices \subseteq 0 .. convs',
           ~hasDefault \/ K \cap Messages = {}
    PROVE  IInv'
<1>1. /\ todo # {} /\ sent[Current] \in K /\ Current \notin inbox /\ fetching = 0
      /\ inbox' = inbox \cup {Current} /\ cursor' = Advanced(Current)
      /\ todo' = todo \ {Current} /\ bound' \in 0 .. convs'
      /\ UNCHANGED <<sent, hasDefault, conv, status, origin, linked, requests, woken, fetching,
                     cancels, stopping, gateway, faults, crashes>>
  BY RecordFacts DEF IInv, Bind, NextUpdate, runs
<1>2. ChatTyped /\ RunsTyped /\ CancelsTyped /\ Bounded
  BY DEF IInv, Typed
<1>3. /\ Polled' /\ cursor' \in 0 .. Len(sent) /\ inbox' \subseteq 1 .. Len(sent)
      /\ todo' \subseteq 1 .. Len(sent) /\ origin' \in Seq(inbox')
  BY <1>1, Advances DEF IInv
<1>4. ChatTyped'
  BY <1>1, <1>2, <1>3 DEF ChatTyped
<1>5. RunsTyped'
  <2>1. 1 .. convs \subseteq 1 .. convs'
    BY <1>2 DEF ChatTyped, Convs
  <2>2. conv' \in Seq(1 .. convs')
    BY <1>1, <1>2, <2>1, LongerSeq DEF RunsTyped
  <2>. QED
    BY <1>1, <1>2, <1>3, <2>1, <2>2 DEF RunsTyped
<1>6. Typed'
  BY <1>1, <1>2, <1>4, <1>5 DEF Typed, CancelsTyped, Bounded
<1>. QED
  BY <1>1, <1>3, <1>6, CancellingStays DEF IInv, Fetching, canceller

LEMMA AnswerInv ==
    ASSUME IInv, SwitchWorkspace \/ SwitchChat \/ NewConversation \/ Answer
    PROVE  IInv'
<1>1. convs \in Convs /\ bound \in 0 .. convs /\ Convs \subseteq Nat \ {0} /\ hasDefault \in BOOLEAN
  BY InboxBounds DEF IInv, Typed, ChatTyped, Convs
<1>2. CASE SwitchWorkspace
  <2>1. Bind({"workspace"}, {1, bound}) /\ convs' = convs
    BY <1>2 DEF SwitchWorkspace
  <2>2. {1, bound} \subseteq 0 .. convs' /\ {"workspace"} \cap Messages = {}
    BY <1>1, <2>1 DEF Messages
  <2>. QED
    BY <1>1, <2>1, <2>2, BindInv
<1>3. CASE SwitchChat
  <2>1. Bind({"chat"}, 1 .. convs) /\ convs' = convs
    BY <1>3 DEF SwitchChat
  <2>2. 1 .. convs \subseteq 0 .. convs' /\ {"chat"} \cap Messages = {}
    BY <1>1, <2>1 DEF Messages
  <2>. QED
    BY <1>1, <2>1, <2>2, BindInv
<1>4. CASE NewConversation
  <2>1. Bind({"new"}, {Created}) /\ convs' = convs + 1 /\ convs' \in Convs
    BY <1>4 DEF NewConversation, Created
  <2>2. {Created} \subseteq 0 .. convs' /\ convs <= convs' /\ {"new"} \cap Messages = {}
    BY <1>1, <2>1 DEF Messages, Created
  <2>. QED
    BY <2>1, <2>2, BindInv
<1>5. CASE Answer
  <2>1. convs' = convs
    BY <1>5 DEF Answer
  <2>2. Binding \in 0 .. convs'
    BY <1>1, <2>1 DEF Binding
  <2>3. CASE Binding = 0
    <3>1. Bind(Messages \cup {"stop", "new", "chat", "status"}, {Binding})
      BY <1>5, <2>3 DEF Answer
    <3>2. ~hasDefault
      BY <1>1, <2>3 DEF Binding
    <3>. QED
      BY <1>1, <2>1, <2>2, <3>1, <3>2, BindInv
  <2>4. CASE Binding # 0
    <3>1. Bind({"status"}, {Binding}) /\ {"status"} \cap Messages = {}
      BY <1>5, <2>4 DEF Answer, Messages
    <3>. QED
      BY <1>1, <2>1, <2>2, <3>1, BindInv
  <2>. QED
    BY <2>3, <2>4
<1>. QED
  BY <1>2, <1>3, <1>4, <1>5

(* Requests of completed cancellations stay about runs that have ended,    *)
(* and an awaited stop about a run that was running: outcomes are kept.    *)
OutcomesKept ==
    \A r \in 1 .. Len(conv) : /\ status[r] \in Outcomes => status'[r] = status[r]
                              /\ status[r] = "running" => status'[r] \in {"running"} \cup Outcomes
RequestsKept ==
    /\ Len(requests) <= Len(requests')
    /\ \A i \in 1 .. Len(requests) :
          /\ requests'[i].run = requests[i].run
          /\ requests'[i].state = "COMPLETED" => requests[i].state = "COMPLETED"
    /\ \A i \in 1 .. Len(requests') : i > Len(requests) => requests'[i].state # "COMPLETED"

LEMMA RequestFacts ==
    ASSUME Typed
    PROVE  /\ DOMAIN requests = 1 .. Len(requests) /\ Len(requests) \in Nat /\ Len(conv) \in Nat
           /\ \A i \in 1 .. Len(requests) :
                 requests[i] \in Requests(Len(conv)) /\ requests[i].run \in 1 .. Len(conv)
<1>1. requests \in Seq(Requests(Len(conv))) /\ conv \in Seq(1 .. convs)
  BY DEF Typed, CancelsTyped, RunsTyped
<1>2. \A i \in 1 .. Len(requests) : requests[i] \in Requests(Len(conv))
  BY <1>1, ElementOfSeq
<1>. QED
  BY <1>1, <1>2, LenProperties DEF Requests

LEMMA CompletedKept ==
    ASSUME Typed, Typed', CompletedMeansEnded, OutcomesKept, RequestsKept
    PROVE  CompletedMeansEnded'
<1>1. /\ DOMAIN requests = 1 .. Len(requests) /\ Len(requests) \in Nat
      /\ \A i \in 1 .. Len(requests) : requests[i].run \in 1 .. Len(conv)
  BY RequestFacts
<1>2. DOMAIN requests' = 1 .. Len(requests') /\ Len(requests') \in Nat
  BY LenProperties DEF Typed, CancelsTyped
<1>. SUFFICES ASSUME NEW i \in 1 .. Len(requests'), requests'[i].state = "COMPLETED"
              PROVE  status'[requests'[i].run] \in Outcomes
  BY <1>2 DEF CompletedMeansEnded, RunQueue!Outcomes, Outcomes
<1>3. i \in 1 .. Len(requests)
  BY <1>1, <1>2 DEF RequestsKept
<1>4. requests'[i].run = requests[i].run /\ requests[i].state = "COMPLETED"
  BY <1>3 DEF RequestsKept
<1>5. status[requests[i].run] \in Outcomes
  BY <1>1, <1>3, <1>4 DEF CompletedMeansEnded, RunQueue!Outcomes, Outcomes
<1>. QED
  BY <1>1, <1>3, <1>4, <1>5 DEF OutcomesKept

LEMMA StopKept ==
    ASSUME Typed, Typed', StopOfRunning, OutcomesKept, RequestsKept, UNCHANGED <<cancels, stopping>>
    PROVE  StopOfRunning'
<1>1. /\ DOMAIN requests = 1 .. Len(requests) /\ Len(requests) \in Nat
      /\ \A i \in 1 .. Len(requests) : requests[i].run \in 1 .. Len(conv)
  BY RequestFacts
<1>. SUFFICES ASSUME stopping PROVE cancels # {} /\ status'[requests'[First(cancels)].run] \in {"running"} \cup Outcomes
  BY DEF StopOfRunning, First
<1>2. cancels # {} /\ cancels \subseteq 1 .. Len(requests)
  BY DEF StopOfRunning, Typed, CancelsTyped
<1>3. PICK i \in 1 .. Len(requests) : i = First(cancels)
  BY <1>1, <1>2, FirstIsLeast
<1>4. status[requests[i].run] \in {"running"} \cup Outcomes
  BY <1>1, <1>3 DEF StopOfRunning
<1>5. requests'[i].run = requests[i].run
  BY DEF RequestsKept
<1>. QED
  BY <1>1, <1>2, <1>3, <1>4, <1>5 DEF OutcomesKept

(* A message: its run is the last of the queue and of its update.          *)
LEMMA MessageInv ==
    ASSUME IInv, Message
    PROVE  IInv'
<1>1. /\ todo # {} /\ sent[Current] \in Messages /\ Current \notin inbox /\ fetching = 0
      /\ inbox' = inbox \cup {Current} /\ cursor' = Advanced(Current)
      /\ Binding # 0 /\ bound' = Binding /\ Len(conv) < MaxRuns
      /\ conv' = Append(conv, Binding) /\ status' = [status EXCEPT ![Len(conv) + 1] = "queued"]
      /\ origin' = Append(origin, Current)
      /\ \/ fetching' = Len(conv') /\ UNCHANGED <<woken, todo>>
         \/ woken' = woken \cup {Binding} /\ todo' = todo \ {Current} /\ fetching' = fetching
      /\ UNCHANGED <<sent, hasDefault, convs, linked, requests, cancels, stopping, gateway, faults, crashes>>
  BY RecordFacts DEF IInv, Message, RunQueue!Submit, NextUpdate
<1>2. ChatTyped /\ RunsTyped /\ CancelsTyped /\ Bounded
  BY DEF IInv, Typed
<1>3. /\ Polled' /\ cursor' \in 0 .. Len(sent) /\ inbox' \subseteq 1 .. Len(sent)
      /\ todo' \subseteq 1 .. Len(sent) /\ origin' \in Seq(inbox')
  <2>1. Current \in inbox' \ inbox /\ sent[Current] \notin Nobodys
    BY <1>1 DEF Messages, Nobodys
  <2>2. todo' \in {todo, todo \ {Current}}
    BY <1>1
  <2>. QED
    BY <1>1, <2>1, <2>2, Advances DEF IInv
<1>4. Binding \in 1 .. convs /\ convs \in Nat
  BY <1>1, <1>2, InboxBounds DEF Binding, ChatTyped, Convs
<1>5. /\ conv' \in Seq(1 .. convs) /\ Len(conv') = Len(conv) + 1 /\ Len(conv) \in Nat
  BY <1>1, <1>2, <1>4, AppendProperties, LenProperties DEF RunsTyped
<1>6. Len(origin') = Len(origin) + 1
  BY <1>1, <1>2, AppendFacts DEF RunsTyped
<1>7. /\ status' \in [Runs -> Statuses]
      /\ \A r \in 1 .. Len(conv) : status'[r] = status[r]
  <2>1. Len(conv) \in Nat /\ MaxRuns \in Nat /\ "queued" \in Statuses
    BY <1>5, InboxBounds DEF Statuses
  <2>2. 1 .. Len(conv) \subseteq Runs /\ \A r \in 1 .. Len(conv) : r # Len(conv) + 1
    BY <1>1, <2>1 DEF Runs
  <2>. QED
    BY <1>1, <1>2, <2>1, <2>2 DEF RunsTyped
<1>8. ChatTyped'
  BY <1>1, <1>2, <1>3, <1>4 DEF ChatTyped
<1>9. RunsTyped'
  <2>1. linked \subseteq 1 .. Len(conv') /\ fetching \in 0 .. Len(conv') /\ Len(conv') \in 0 .. Len(conv')
    BY <1>2, <1>5 DEF RunsTyped
  <2>3. woken' \subseteq 1 .. convs
    BY <1>1, <1>2, <1>4 DEF RunsTyped
  <2>4. fetching' \in 0 .. Len(conv')
    BY <1>1, <2>1
  <2>2. Len(conv') <= MaxRuns
    BY <1>1, <1>5, InboxBounds
  <2>. QED
    BY <1>1, <1>2, <1>3, <1>5, <1>6, <1>7, <2>1, <2>2, <2>3, <2>4 DEF RunsTyped
<1>10. CancelsTyped'
  <2>1. Requests(Len(conv)) \subseteq Requests(Len(conv'))
    BY <1>5 DEF Requests
  <2>2. requests' \in Seq(Requests(Len(conv')))
    BY <1>1, <1>2, <2>1, LongerSeq DEF CancelsTyped
  <2>. QED
    BY <1>1, <1>2, <2>2 DEF CancelsTyped
<1>11. Typed'
  BY <1>1, <1>2, <1>8, <1>9, <1>10 DEF Typed, Bounded
<1>12. OutcomesKept
  BY <1>7 DEF OutcomesKept
<1>13. RequestsKept
  <2>1. Len(requests) \in Nat
    BY RequestFacts DEF IInv
  <2>. QED
    BY <1>1, <2>1 DEF RequestsKept
<1>14. Fetching'
  <2>1. CASE fetching' = fetching
    BY <1>1, <2>1 DEF Fetching
  <2>2. CASE todo' = todo
    BY <1>1, <2>2 DEF Fetching, Current, First
  <2>. QED
    BY <1>1, <2>1, <2>2
<1>. QED
  BY <1>1, <1>3, <1>11, <1>12, <1>13, <1>14, CompletedKept, StopKept DEF IInv, Cancelling

LEMMA StopInv ==
    ASSUME IInv, Stop
    PROVE  IInv'
<1>1. /\ todo # {} /\ fetching = 0 /\ sent[Current] = "stop" /\ Current \notin inbox
      /\ inbox' = inbox \cup {Current} /\ cursor' = Advanced(Current)
      /\ Binding # 0 /\ bound' = Binding
      /\ \/ requests' = requests
         \/ Target # 0 /\ requests' = Append(requests, NewRequest(Target))
      /\ todo' = todo \ {Current}
      /\ \/ woken' = woken
         \/ Target # 0 /\ woken' = woken \cup {conv[Target]}
      /\ UNCHANGED <<sent, hasDefault, convs, conv, status, origin, linked, fetching,
                     cancels, stopping, gateway, faults, crashes>>
  BY RecordFacts DEF IInv, Stop, Activated, NextUpdate, runs
<1>2. ChatTyped /\ RunsTyped /\ CancelsTyped /\ Bounded
  BY DEF IInv, Typed
<1>3. /\ Polled' /\ cursor' \in 0 .. Len(sent) /\ inbox' \subseteq 1 .. Len(sent)
      /\ todo' \subseteq 1 .. Len(sent) /\ origin' \in Seq(inbox')
  <2>1. sent[Current] \notin Messages
    BY <1>1 DEF Messages
  <2>. QED
    BY <1>1, <2>1, Advances DEF IInv
<1>4. Binding \in 0 .. convs
  BY <1>1, <1>2 DEF Binding, ChatTyped, Convs
<1>5. /\ DOMAIN requests = 1 .. Len(requests) /\ Len(requests) \in Nat /\ Len(conv) \in Nat
      /\ DOMAIN conv = 1 .. Len(conv)
  BY RequestFacts, LenProperties DEF IInv, Typed, RunsTyped
<1>6. Target # 0 => Target \in 1 .. Len(conv)
  <2>1. \A c, s : In(c, s) # {} => First(In(c, s)) \in 1 .. Len(conv)
    <3>. SUFFICES ASSUME NEW c, NEW s, In(c, s) # {} PROVE First(In(c, s)) \in 1 .. Len(conv)
      OBVIOUS
    <3>1. In(c, s) \subseteq 1 .. Len(conv)
      BY <1>5 DEF In
    <3>2. First(In(c, s)) \in In(c, s)
      BY <3>1, FirstIsLeast
    <3>. QED
      BY <3>1, <3>2
  <2>. QED
    BY <2>1 DEF Target
<1>7. ASSUME Target # 0, requests' = Append(requests, NewRequest(Target))
      PROVE  /\ requests' \in Seq(Requests(Len(conv))) /\ Len(requests') = Len(requests) + 1
             /\ \A i \in 1 .. Len(requests) : requests'[i] = requests[i]
             /\ requests'[Len(requests) + 1].state = "PENDING"
  <2>1. NewRequest(Target) \in Requests(Len(conv)) /\ NewRequest(Target).state = "PENDING"
    BY <1>6, <1>7 DEF NewRequest, Requests
  <2>2. PICK e \in Requests(Len(conv)) : e = NewRequest(Target)
    BY <2>1
  <2>3. requests' = Append(requests, e) /\ requests \in Seq(Requests(Len(conv))) /\ e.state = "PENDING"
    BY <1>2, <1>7, <2>1, <2>2 DEF CancelsTyped
  <2>. QED
    BY <1>5, <2>3, AppendProperties
<1>8. ChatTyped'
  BY <1>1, <1>2, <1>3, <1>4 DEF ChatTyped
<1>9. RunsTyped'
  <2>1. woken' \subseteq 1 .. convs
    <3>1. Target # 0 => conv[Target] \in 1 .. convs
      BY <1>2, <1>6, ElementOfSeq DEF RunsTyped
    <3>. QED
      BY <1>1, <1>2, <3>1 DEF RunsTyped
  <2>. QED
    BY <1>1, <1>2, <1>3, <2>1 DEF RunsTyped
<1>10. CancelsTyped'
  <2>1. requests' \in Seq(Requests(Len(conv))) /\ 1 .. Len(requests) \subseteq 1 .. Len(requests')
    BY <1>1, <1>2, <1>5, <1>7 DEF CancelsTyped
  <2>. QED
    BY <1>1, <1>2, <2>1 DEF CancelsTyped
<1>11. Typed'
  BY <1>1, <1>2, <1>8, <1>9, <1>10 DEF Typed, Bounded
<1>12. OutcomesKept
  BY <1>1 DEF OutcomesKept
<1>13. RequestsKept
  <2>1. CASE requests' = requests
    BY <1>5, <2>1 DEF RequestsKept
  <2>2. CASE Target # 0 /\ requests' = Append(requests, NewRequest(Target))
    BY <1>5, <1>7, <2>2 DEF RequestsKept
  <2>. QED
    BY <1>1, <2>1, <2>2
<1>. QED
  BY <1>1, <1>3, <1>11, <1>12, <1>13, CompletedKept, StopKept DEF IInv, Fetching, Cancelling

LEMMA FetchedInv ==
    ASSUME IInv, NEW had \in BOOLEAN, Fetched(had)
    PROVE  IInv'
<1>1. /\ fetching # 0 /\ linked' = linked \cup {fetching} /\ fetching' = 0
      /\ woken' \in {woken, woken \cup {conv[fetching]}} /\ todo' = todo \ {Current}
      /\ faults' = faults \/ (faults < MaxFaults /\ faults' = faults + 1)
      /\ UNCHANGED <<sent, cursor, inbox, bound, convs, hasDefault, conv, status, origin, requests,
                     cancels, stopping, gateway, crashes>>
  BY DEF Fetched, Goes, Activated, NextUpdate, chat, runs, canceller
<1>2. ChatTyped /\ RunsTyped /\ CancelsTyped /\ Bounded
  BY DEF IInv, Typed
<1>3. fetching \in 1 .. Len(conv) /\ conv[fetching] \in 1 .. convs
  <2>1. conv \in Seq(1 .. convs) /\ fetching \in 0 .. Len(conv) /\ Len(conv) \in Nat
    BY <1>2, LenProperties DEF RunsTyped
  <2>2. fetching \in 1 .. Len(conv)
    BY <1>1, <2>1
  <2>. QED
    BY <2>1, <2>2, ElementOfSeq
<1>4. Typed'
  <2>1. ChatTyped' /\ CancelsTyped'
    BY <1>1, <1>2 DEF ChatTyped, CancelsTyped
  <2>2. RunsTyped'
    BY <1>1, <1>2, <1>3, LenProperties DEF RunsTyped
  <2>3. Bounded'
    BY <1>1, <1>2, InboxBounds DEF Bounded
  <2>. QED
    BY <2>1, <2>2, <2>3 DEF Typed
<1>5. Polled'
  <2>1. NoGap'
    <3>1. Current <= cursor
      BY <1>1 DEF IInv, Fetching, Polled, Handled
    <3>2. PICK c : c = Current
      OBVIOUS
    <3>3. c \in Int /\ cursor \in Int /\ DOMAIN sent \subseteq Int
      <4>1. DOMAIN sent = 1 .. Len(sent) /\ cursor \in 0 .. Len(sent) /\ inbox \subseteq 1 .. Len(sent)
        BY <1>2, LenProperties DEF ChatTyped
      <4>2. c \in inbox
        BY <1>1, <3>2 DEF IInv, Fetching
      <4>. QED
        BY <4>1, <4>2
    <3>. SUFFICES ASSUME NEW v \in todo', NEW u \in DOMAIN sent, cursor < u, u < v PROVE u \in todo'
      BY <1>1 DEF NoGap
    <3>4. u \in todo /\ u # c
      BY <1>1, <3>1, <3>2, <3>3 DEF IInv, Polled, NoGap
    <3>. QED
      BY <1>1, <3>2, <3>4
  <2>. QED
    BY <1>1, <2>1 DEF IInv, Polled, Handled, OneRunPerUpdate
<1>. QED
  BY <1>1, <1>4, <1>5, CancellingStays DEF IInv, Fetching, canceller

-----------------------------------------------------------------------------
(* The cancellation loop, the run manager and restarts.                    *)

(* What moves runs and leaves the poll loop alone.                         *)
LEMMA RunsMove ==
    ASSUME IInv, UNCHANGED <<chat, conv, origin, linked, poller, gateway, crashes>>,
           faults' \in 0 .. MaxFaults, status' \in [Runs -> Statuses], woken' \subseteq 1 .. convs,
           CancelsTyped'
    PROVE  Typed' /\ Polled' /\ Fetching'
<1>1. UNCHANGED <<sent, cursor, inbox, bound, convs, hasDefault, conv, origin, linked, todo, fetching,
                  gateway, crashes>>
  BY DEF chat, poller
<1>2. ChatTyped /\ RunsTyped /\ CancelsTyped /\ Bounded
  BY DEF IInv, Typed
<1>3. ChatTyped' /\ RunsTyped' /\ Bounded'
  BY <1>1, <1>2 DEF ChatTyped, RunsTyped, Bounded
<1>. QED
  BY <1>1, <1>3, PolledStays, FetchingStays DEF IInv, Typed

LEMMA ClaimInv ==
    ASSUME IInv, ClaimCancellations
    PROVE  IInv'
<1>. DEFINE claimed(i) == [requests[i] EXCEPT !.state = "PROCESSING", !.attempts = requests[i].attempts + 1]
<1>1. /\ cancels = {} /\ cancels' \subseteq DOMAIN requests
      /\ requests' = [i \in DOMAIN requests |-> IF i \in cancels' THEN claimed(i) ELSE requests[i]]
      /\ UNCHANGED <<chat, conv, status, origin, linked, woken, poller, stopping, gateway, faults, crashes>>
  BY DEF ClaimCancellations, runs, bounds
<1>2. RunsTyped /\ CancelsTyped /\ Bounded
  BY DEF IInv, Typed
<1>3. /\ DOMAIN requests = 1 .. Len(requests) /\ Len(requests) \in Nat /\ Len(conv) \in Nat
      /\ \A i \in 1 .. Len(requests) :
            requests[i] \in Requests(Len(conv)) /\ requests[i].run \in 1 .. Len(conv)
  BY RequestFacts DEF IInv
<1>4. \A i \in 1 .. Len(requests) :
         claimed(i) \in Requests(Len(conv)) /\ claimed(i).run = requests[i].run /\ claimed(i).state = "PROCESSING"
  <2>1. ASSUME NEW x \in Requests(Len(conv))
        PROVE  LET y == [x EXCEPT !.state = "PROCESSING", !.attempts = x.attempts + 1]
               IN  y \in Requests(Len(conv)) /\ y.run = x.run /\ y.state = "PROCESSING"
    <3>1. x.attempts + 1 \in Nat
      BY DEF Requests
    <3>. QED
      BY <3>1 DEF Requests
  <2>. QED
    BY <1>3, <2>1
<1>5. /\ DOMAIN requests' = 1 .. Len(requests)
      /\ \A i \in 1 .. Len(requests) :
            /\ requests'[i] \in Requests(Len(conv)) /\ requests'[i].run = requests[i].run
            /\ requests'[i].state = "COMPLETED" => requests[i].state = "COMPLETED"
  <2>. HIDE DEF claimed
  <2>. QED
    BY <1>1, <1>3, <1>4
<1>6. requests' \in Seq(Requests(Len(conv))) /\ Len(requests') = Len(requests)
  <2>1. requests' \in [1 .. Len(requests) -> Requests(Len(conv))]
    <3>1. requests' = [i \in DOMAIN requests |-> requests'[i]]
      BY <1>1
    <3>. QED
      BY <1>3, <1>5, <3>1
  <2>2. requests' \in Seq(Requests(Len(conv)))
    BY <1>3, <2>1, SeqDef
  <2>. QED
    BY <1>3, <1>5, <2>2, LenProperties
<1>7. CancelsTyped'
  BY <1>1, <1>2, <1>3, <1>6 DEF CancelsTyped
<1>8. Typed' /\ Polled' /\ Fetching'
  BY <1>1, <1>2, <1>7, RunsMove DEF RunsTyped, Bounded, chat
<1>9. OutcomesKept
  BY <1>1 DEF OutcomesKept
<1>10. RequestsKept
  BY <1>3, <1>5, <1>6 DEF RequestsKept
<1>11. StopOfRunning'
  BY <1>1 DEF IInv, Cancelling, StopOfRunning
<1>. QED
  BY <1>8, <1>9, <1>10, <1>11, CompletedKept DEF IInv, Cancelling

(* What finishes a request.                                                *)
LEMMA DoneInv ==
    ASSUME IInv, NEW i, i \in 1 .. Len(requests), NEW ok \in BOOLEAN, Done(i, ok),
           faults' \in 0 .. MaxFaults, status' \in [Runs -> Statuses], woken' \subseteq 1 .. convs,
           OutcomesKept, ok => status'[requests[i].run] \in Outcomes
    PROVE  IInv'
<1>1. PICK state \in {"PENDING", "PROCESSING", "COMPLETED", "FAILED"} :
         /\ requests' = [requests EXCEPT ![i].state = state]
         /\ state = "COMPLETED" => ok
  BY DEF Done, Finished
<1>2. /\ cancels' = cancels \ {i} /\ stopping' = FALSE
      /\ UNCHANGED <<chat, conv, origin, linked, poller, gateway, crashes>>
  BY DEF Done
<1>3. /\ DOMAIN requests = 1 .. Len(requests) /\ Len(requests) \in Nat /\ Len(conv) \in Nat
      /\ \A j \in 1 .. Len(requests) :
            requests[j] \in Requests(Len(conv)) /\ requests[j].run \in 1 .. Len(conv)
  BY RequestFacts DEF IInv
<1>4. PICK row : row = [requests[i] EXCEPT !.state = state]
  OBVIOUS
<1>5. row \in Requests(Len(conv)) /\ row.run = requests[i].run /\ row.state = state
  BY <1>3, <1>4 DEF Requests
<1>6. requests' = [requests EXCEPT ![i] = row] /\ requests \in Seq(Requests(Len(conv)))
  BY <1>1, <1>4 DEF IInv, Typed, CancelsTyped
<1>7. requests' \in Seq(Requests(Len(conv))) /\ Len(requests') = Len(requests)
  BY <1>5, <1>6, ExceptSeq
<1>8. \A j \in 1 .. Len(requests) : requests'[j] = IF j = i THEN row ELSE requests[j]
  BY <1>3, <1>6
<1>9. CancelsTyped'
  BY <1>2, <1>7 DEF IInv, Typed, CancelsTyped
<1>10. Typed' /\ Polled' /\ Fetching'
  BY <1>2, <1>9, RunsMove
<1>11. CompletedMeansEnded'
  <2>1. DOMAIN requests' = 1 .. Len(requests)
    BY <1>7, LenProperties
  <2>. SUFFICES ASSUME NEW j \in 1 .. Len(requests), requests'[j].state = "COMPLETED"
                PROVE  status'[requests'[j].run] \in Outcomes
    BY <2>1 DEF CompletedMeansEnded, RunQueue!Outcomes, Outcomes
  <2>2. CASE j = i
    BY <1>1, <1>5, <1>8, <2>2
  <2>3. CASE j # i
    <3>1. requests'[j] = requests[j]
      BY <1>8, <2>3
    <3>2. status[requests[j].run] \in Outcomes
      BY <1>3, <3>1 DEF IInv, Cancelling, CompletedMeansEnded, RunQueue!Outcomes, Outcomes
    <3>. QED
      BY <1>3, <3>1, <3>2 DEF OutcomesKept
  <2>. QED
    BY <2>2, <2>3
<1>12. StopOfRunning'
  BY <1>2 DEF StopOfRunning
<1>. QED
  BY <1>10, <1>11, <1>12 DEF IInv, Cancelling

LEMMA CancelOneInv ==
    ASSUME IInv, NEW i \in DOMAIN requests,
           \/ \E r \in Runs : CancelAtOnce(i, r) \/ StopAnswered(i, r)
           \/ StopRaises(i)
    PROVE  IInv'
<1>1. /\ i \in 1 .. Len(requests) /\ requests[i].run \in 1 .. Len(conv) /\ Len(conv) \in Nat
      /\ 1 .. Len(conv) \subseteq Runs
  BY RequestFacts, InboxBounds DEF IInv, Typed, RunsTyped, Runs
<1>2. /\ status \in [Runs -> Statuses] /\ woken \subseteq 1 .. convs /\ conv \in Seq(1 .. convs)
      /\ faults \in 0 .. MaxFaults /\ MaxFaults \in Nat
  BY InboxBounds DEF IInv, Typed, RunsTyped, Bounded
<1>3. \A r \in 1 .. Len(conv) : conv[r] \in 1 .. convs
  BY <1>2, ElementOfSeq
<1>4. ASSUME NEW r \in Runs, CancelAtOnce(i, r) PROVE IInv'
  <2>1. /\ r = requests[i].run /\ Done(i, TRUE) /\ faults' = faults
        /\ \/ status[r] = "queued" /\ status' = [status EXCEPT ![r] = "cancelled"]
              /\ woken' = woken \cup {conv[r]}
           \/ status[r] \in Outcomes /\ UNCHANGED <<status, woken>>
    BY <1>4 DEF CancelAtOnce, RunQueue!CancelQueued, RunQueue!Outcomes, Outcomes
  <2>2. status' \in [Runs -> Statuses] /\ woken' \subseteq 1 .. convs
    BY <1>1, <1>2, <1>3, <2>1 DEF Statuses, Outcomes
  <2>3. OutcomesKept /\ status'[requests[i].run] \in Outcomes
    BY <1>1, <1>2, <2>1 DEF OutcomesKept, Outcomes
  <2>. QED
    BY <1>1, <1>2, <2>1, <2>2, <2>3, DoneInv
<1>5. ASSUME NEW r \in Runs, StopAnswered(i, r) PROVE IInv'
  <2>1. /\ r = requests[i].run /\ Done(i, TRUE) /\ faults' = faults /\ stopping /\ i = First(cancels)
        /\ status' = IF status[r] = "running" THEN [status EXCEPT ![r] = "cancelled"] ELSE status
        /\ woken' = woken \cup {conv[r]}
    BY <1>5 DEF StopAnswered, Cancelled, Doing
  <2>2. status[r] \in {"running"} \cup Outcomes
    BY <2>1 DEF IInv, Cancelling, StopOfRunning
  <2>3. status' \in [Runs -> Statuses] /\ woken' \subseteq 1 .. convs
    BY <1>1, <1>2, <1>3, <2>1 DEF Statuses, Outcomes
  <2>4. OutcomesKept /\ status'[requests[i].run] \in Outcomes
    BY <1>1, <1>2, <2>1, <2>2 DEF OutcomesKept, Outcomes
  <2>. QED
    BY <1>1, <1>2, <2>1, <2>3, <2>4, DoneInv
<1>6. ASSUME StopRaises(i) PROVE IInv'
  <2>1. Done(i, FALSE) /\ faults < MaxFaults /\ faults' = faults + 1 /\ UNCHANGED <<status, woken>>
    BY <1>6 DEF StopRaises, Goes
  <2>2. OutcomesKept /\ faults' \in 0 .. MaxFaults
    BY <1>2, <2>1 DEF OutcomesKept
  <2>. QED
    BY <1>1, <1>2, <2>1, <2>2, DoneInv
<1>. QED
  BY <1>4, <1>5, <1>6

LEMMA CancelRunningInv ==
    ASSUME IInv, NEW i \in DOMAIN requests, CancelRunning(i)
    PROVE  IInv'
<1>1. /\ cancels # {} /\ i = First(cancels) /\ status[requests[i].run] = "running"
      /\ stopping' = TRUE
      /\ UNCHANGED <<chat, conv, status, origin, linked, requests, woken, poller, cancels, gateway,
                     faults, crashes>>
  BY DEF CancelRunning, Doing, runs, bounds
<1>2. CancelsTyped'
  BY <1>1 DEF IInv, Typed, CancelsTyped
<1>3. Typed' /\ Polled' /\ Fetching'
  BY <1>1, <1>2, RunsMove DEF IInv, Typed, RunsTyped, Bounded, chat
<1>4. StopOfRunning'
  BY <1>1 DEF StopOfRunning, First
<1>. QED
  BY <1>1, <1>3, <1>4 DEF IInv, Cancelling, CompletedMeansEnded

(* The run manager: a run starts, or ends in an outcome.                   *)
LEMMA QueueInv ==
    ASSUME IInv, (\E c \in Convs : Dispatch(c)) \/ (\E r \in Runs : RunEnds(r))
    PROVE  IInv'
<1>1. /\ status \in [Runs -> Statuses] /\ woken \subseteq 1 .. convs /\ conv \in Seq(1 .. convs)
      /\ Len(conv) \in Nat /\ DOMAIN conv = 1 .. Len(conv) /\ 1 .. Len(conv) \subseteq Runs
      /\ faults \in 0 .. MaxFaults
  BY LenProperties, InboxBounds DEF IInv, Typed, RunsTyped, Bounded, Runs
<1>2. \A r \in 1 .. Len(conv) : conv[r] \in 1 .. convs
  BY <1>1, ElementOfSeq
<1>3. /\ UNCHANGED <<chat, conv, origin, linked, requests, poller, cancels, stopping, gateway, faults, crashes>>
      /\ status' \in [Runs -> Statuses] /\ woken' \subseteq 1 .. convs /\ OutcomesKept
  <2>1. ASSUME NEW c \in Convs, Dispatch(c) PROVE <1>3!:
    <3>1. /\ woken' \subseteq woken
          /\ \/ \E r \in In(c, "queued") : status[r] = "queued" /\ status' = [status EXCEPT ![r] = "running"]
             \/ status' = status
          /\ UNCHANGED <<chat, conv, origin, linked, requests, poller, cancels, stopping, gateway, faults, crashes>>
      BY <2>1 DEF Dispatch, RunQueue!Start, canceller, bounds
    <3>2. CASE status' = status
      BY <1>1, <3>1, <3>2 DEF OutcomesKept
    <3>3. ASSUME NEW r \in In(c, "queued"), status[r] = "queued", status' = [status EXCEPT ![r] = "running"]
          PROVE  status' \in [Runs -> Statuses] /\ OutcomesKept
      <4>1. r \in Runs
        BY <1>1 DEF In
      <4>. QED
        BY <1>1, <3>3, <4>1 DEF Statuses, Outcomes, OutcomesKept
    <3>. QED
      BY <1>1, <3>1, <3>2, <3>3
  <2>2. ASSUME NEW r \in Runs, RunEnds(r) PROVE <1>3!:
    <3>1. /\ r \in DOMAIN conv /\ RunQueue!Settle({r}) /\ woken' = woken \cup {conv[r]}
          /\ UNCHANGED <<chat, origin, linked, requests, poller, cancels, stopping, gateway, faults, crashes>>
      BY <2>2 DEF RunEnds, canceller, bounds
    <3>2. PICK o \in [{r} -> Outcomes] :
             /\ conv' = conv /\ status[r] = "running"
             /\ status' = [q \in Runs |-> IF q \in {r} THEN o[q] ELSE status[q]]
      BY <3>1 DEF RunQueue!Settle, RunQueue!Outcomes, RunQueue!Runs, Runs, Outcomes
    <3>3. o[r] \in Outcomes /\ \A q \in Runs : status'[q] = IF q = r THEN o[r] ELSE status[q]
      BY <3>2
    <3>4. status' \in [Runs -> Statuses]
      BY <1>1, <3>2 DEF Statuses
    <3>5. OutcomesKept
      BY <1>1, <3>2, <3>3 DEF OutcomesKept, Outcomes
    <3>. QED
      BY <1>1, <1>2, <3>1, <3>2, <3>4, <3>5
  <2>. QED
    BY <2>1, <2>2
<1>4. CancelsTyped'
  BY <1>3 DEF IInv, Typed, CancelsTyped
<1>5. Typed' /\ Polled' /\ Fetching'
  BY <1>1, <1>3, <1>4, RunsMove
<1>6. RequestsKept
  BY <1>3, RequestFacts DEF IInv, RequestsKept
<1>. QED
  BY <1>3, <1>5, <1>6, CompletedKept, StopKept DEF IInv, Cancelling

LEMMA CrashInv ==
    ASSUME IInv, Crash
    PROVE  IInv'
<1>1. /\ crashes < MaxCrashes /\ crashes' = crashes + 1 /\ gateway' = "down"
      /\ woken' = {} /\ todo' = {} /\ fetching' = 0 /\ cancels' = {} /\ stopping' = FALSE
      /\ UNCHANGED <<sent, cursor, inbox, bound, convs, hasDefault, conv, status, origin, linked,
                     requests, faults>>
  BY DEF Crash, chat, runs
<1>2. ChatTyped /\ RunsTyped /\ CancelsTyped /\ Bounded /\ Len(conv) \in Nat
  BY RequestFacts DEF IInv, Typed
<1>3. ChatTyped' /\ RunsTyped' /\ CancelsTyped'
  <2>1. ChatTyped'
    BY <1>1, <1>2 DEF ChatTyped
  <2>2. 0 \in 0 .. Len(conv)
    BY <1>2
  <2>3. RunsTyped'
    BY <1>1, <1>2, <2>2 DEF RunsTyped
  <2>4. CancelsTyped'
    BY <1>1, <1>2 DEF CancelsTyped
  <2>. QED
    BY <2>1, <2>3, <2>4
<1>4. Bounded'
  BY <1>1, <1>2, InboxBounds DEF Bounded
<1>. QED
  BY <1>1, <1>3, <1>4, PolledStays
     DEF IInv, Typed, Fetching, Cancelling, CompletedMeansEnded, StopOfRunning

LEMMA BootInv ==
    ASSUME IInv, Boot
    PROVE  IInv'
<1>. DEFINE pending(i) == [requests[i] EXCEPT !.state = "PENDING"]
<1>1. /\ requests' = [i \in DOMAIN requests |->
                         IF requests[i].state = "PROCESSING" THEN pending(i) ELSE requests[i]]
      /\ gateway' = "up" /\ woken' \subseteq {conv[r] : r \in DOMAIN conv}
      /\ UNCHANGED <<sent, cursor, inbox, bound, convs, hasDefault, conv, status, origin, linked,
                     todo, fetching, cancels, stopping, faults, crashes>>
  BY DEF Boot, Recovered, chat, runs, poller, canceller, bounds
<1>2. ChatTyped /\ RunsTyped /\ CancelsTyped /\ Bounded
  BY DEF IInv, Typed
<1>3. /\ DOMAIN requests = 1 .. Len(requests) /\ Len(requests) \in Nat /\ Len(conv) \in Nat
      /\ DOMAIN conv = 1 .. Len(conv)
      /\ \A i \in 1 .. Len(requests) :
            requests[i] \in Requests(Len(conv)) /\ requests[i].run \in 1 .. Len(conv)
  BY RequestFacts, LenProperties DEF IInv, Typed, RunsTyped
<1>4. \A i \in 1 .. Len(requests) :
         pending(i) \in Requests(Len(conv)) /\ pending(i).run = requests[i].run /\ pending(i).state = "PENDING"
  <2>1. ASSUME NEW x \in Requests(Len(conv))
        PROVE  LET y == [x EXCEPT !.state = "PENDING"]
               IN  y \in Requests(Len(conv)) /\ y.run = x.run /\ y.state = "PENDING"
    BY DEF Requests
  <2>. QED
    BY <1>3, <2>1
<1>5. /\ DOMAIN requests' = 1 .. Len(requests)
      /\ \A i \in 1 .. Len(requests) :
            /\ requests'[i] \in Requests(Len(conv)) /\ requests'[i].run = requests[i].run
            /\ requests'[i].state = "COMPLETED" => requests[i].state = "COMPLETED"
  <2>. HIDE DEF pending
  <2>. QED
    BY <1>1, <1>3, <1>4
<1>6. requests' \in Seq(Requests(Len(conv))) /\ Len(requests') = Len(requests)
  <2>1. requests' \in [1 .. Len(requests) -> Requests(Len(conv))]
    <3>1. requests' = [i \in DOMAIN requests |-> requests'[i]]
      BY <1>1
    <3>. QED
      BY <1>3, <1>5, <3>1
  <2>2. requests' \in Seq(Requests(Len(conv)))
    BY <1>3, <2>1, SeqDef
  <2>. QED
    BY <1>3, <1>5, <2>2, LenProperties
<1>7. RunsTyped'
  <2>1. \A r \in DOMAIN conv : conv[r] \in 1 .. convs
    BY <1>2, <1>3, ElementOfSeq DEF RunsTyped
  <2>2. woken' \subseteq 1 .. convs
    BY <1>1, <2>1
  <2>. QED
    BY <1>1, <1>2, <2>2 DEF RunsTyped
<1>8. Typed'
  <2>1. ChatTyped' /\ Bounded'
    BY <1>1, <1>2 DEF ChatTyped, Bounded
  <2>2. CancelsTyped'
    BY <1>1, <1>2, <1>6 DEF CancelsTyped
  <2>. QED
    BY <1>7, <2>1, <2>2 DEF Typed
<1>9. OutcomesKept
  BY <1>1 DEF OutcomesKept
<1>10. RequestsKept
  BY <1>3, <1>5, <1>6 DEF RequestsKept
<1>. QED
  BY <1>1, <1>8, <1>9, <1>10, PolledStays, FetchingStays, CompletedKept, StopKept DEF IInv, Cancelling

-----------------------------------------------------------------------------
(* The invariants.                                                         *)

LEMMA InvInit ==
    ASSUME Init
    PROVE  IInv
<1>1. /\ sent = <<>> /\ cursor = 0 /\ inbox = {} /\ bound = 0 /\ convs = 1
      /\ conv = <<>> /\ status = [r \in Runs |-> "absent"] /\ origin = <<>> /\ linked = {}
      /\ requests = <<>> /\ woken = {} /\ todo = {} /\ fetching = 0 /\ cancels = {} /\ stopping = FALSE
      /\ hasDefault \in BOOLEAN /\ gateway = "up" /\ faults = 0 /\ crashes = 0
  BY DEF Init, RunQueue!Init, RunQueue!Runs, Runs
<1>2. /\ \A S : <<>> \in Seq(S)
      /\ Len(<<>>) = 0
  BY EmptySeq
<1>3. ChatTyped
  <2>1. 1 \in Convs
    BY InboxBounds DEF Convs
  <2>. QED
    BY <1>1, <1>2, <2>1, InboxBounds DEF ChatTyped
<1>4. RunsTyped
  BY <1>1, <1>2, InboxBounds DEF RunsTyped, Statuses
<1>5. CancelsTyped /\ Bounded
  <2>1. requests \in Seq(Requests(Len(conv)))
    BY <1>1, <1>2
  <2>2. 0 \in 0 .. MaxFaults /\ 0 \in 0 .. MaxCrashes
    BY InboxBounds
  <2>. QED
    BY <1>1, <2>1, <2>2 DEF CancelsTyped, Bounded
<1>6. Polled /\ Fetching
  BY <1>1 DEF Polled, NoGap, Handled, OneRunPerUpdate, Fetching
<1>7. Cancelling
  BY <1>1 DEF Cancelling, CompletedMeansEnded, StopOfRunning
<1>. QED
  BY <1>3, <1>4, <1>5, <1>6, <1>7 DEF IInv, Typed

LEMMA InvStep ==
    ASSUME IInv, [Next]_vars
    PROVE  IInv'
<1>1. CASE UNCHANGED vars
  <2>1. UNCHANGED <<sent, cursor, inbox, bound, convs, hasDefault, conv, status, origin, linked, requests,
                    woken, todo, fetching, cancels, stopping, gateway, faults, crashes>>
    BY <1>1 DEF vars, chat, runs, poller, canceller, bounds
  <2>2. Typed'
    BY <2>1 DEF IInv, Typed, ChatTyped, RunsTyped, CancelsTyped, Bounded
  <2>. QED
    BY <2>1, <2>2, PolledStays, FetchingStays, CancellingStays DEF IInv, canceller
<1>2. ASSUME NEW k \in SentKinds, UserSends(k) PROVE IInv'
  BY <1>2, UserSendsInv
<1>3. CASE Poll
  BY <1>3, PollInv
<1>4. CASE HandleUpdate
  BY <1>4, IgnoreInv, MessageInv, StopInv, AnswerInv DEF HandleUpdate
<1>5. ASSUME NEW had \in BOOLEAN, Fetched(had) PROVE IInv'
  BY <1>5, FetchedInv
<1>6. CASE Cancellation
  BY <1>6, CancelOneInv, CancelRunningInv, ClaimInv DEF Cancellation
<1>7. ASSUME NEW i \in DOMAIN requests, StopRaises(i) PROVE IInv'
  BY <1>7, CancelOneInv
<1>8. CASE (\E c \in Convs : Dispatch(c)) \/ (\E r \in Runs : RunEnds(r))
  BY <1>8, QueueInv
<1>9. CASE Crash
  BY <1>9, CrashInv
<1>10. CASE Boot
  BY <1>10, BootInv
<1>. QED
  BY <1>1, <1>2, <1>3, <1>4, <1>5, <1>6, <1>7, <1>8, <1>9, <1>10 DEF Next

LEMMA Invariant == Spec => []IInv
<1>1. Init => IInv
  BY InvInit
<1>2. IInv /\ [Next]_vars => IInv'
  BY InvStep
<1>. QED
  BY <1>1, <1>2, PTL DEF Spec

(* Every part of the inbox stays in its range.                             *)
THEOREM TypeCorrect == Spec => []TypeOK
<1>1. IInv => TypeOK
  BY TypeParts DEF IInv
<1>. QED
  BY <1>1, Invariant, PTL

(* An update makes one run at most, in the order the user wrote, however   *)
(* often it is delivered and wherever the gateway dies.                    *)
THEOREM RunsInOrder == Spec => []OneRunPerUpdate
<1>1. IInv => OneRunPerUpdate
  BY DEF IInv, Polled
<1>. QED
  BY <1>1, Invariant, PTL

(* The cursor passes no update that is not recorded, and with a default    *)
(* workspace no message that has not become a run.                         *)
THEOREM NoMessageSkipped == Spec => []NothingSkipped
<1>1. IInv => NothingSkipped
  BY DEF IInv, Polled, Handled, NothingSkipped
<1>. QED
  BY <1>1, Invariant, PTL

(* A cancellation is reported as done only for a run that has ended.       *)
THEOREM ReportedCancellationsAreTrue == Spec => []CompletedMeansEnded
<1>1. IInv => CompletedMeansEnded
  BY DEF IInv, Cancelling
<1>. QED
  BY <1>1, Invariant, PTL

-----------------------------------------------------------------------------
(* The run queue.                                                          *)

LEMMA SettlesOne ==
    ASSUME NEW r \in Runs, status \in [Runs -> Statuses], status[r] = "running",
           NEW outcome \in Outcomes, status' = [status EXCEPT ![r] = outcome], conv' = conv
    PROVE  RunQueue!Settle({r})
<1>. DEFINE ends == [p \in {r} |-> outcome]
<1>1. /\ ends \in [{r} -> RunQueue!Outcomes]
      /\ status' = [p \in RunQueue!Runs |-> IF p \in {r} THEN ends[p] ELSE status[p]]
  BY DEF RunQueue!Outcomes, Outcomes, RunQueue!Runs, Runs
<1>. QED
  BY <1>1 DEF RunQueue!Settle

(* Messages, stops, dispatches and restarts drive the queue as             *)
(* RunLifecycle allows: in order, one at a time in a conversation, and a   *)
(* run that ended while its worker was being stopped keeps its outcome.    *)
THEOREM KeepsRunLifecycle == Spec => RunQueueSpec
<1>1. Init => RunQueue!Init
  BY DEF Init
<1>2. ASSUME IInv, Next PROVE RunQueue!Next \/ UNCHANGED <<conv, status>>
  <2>1. status \in [Runs -> Statuses] /\ convs \in Convs
    BY <1>2 DEF IInv, Typed, RunsTyped, ChatTyped
  <2>2. CASE \/ \E k \in SentKinds : UserSends(k)
             \/ Poll \/ Ignore \/ Refuse \/ Stop
             \/ SwitchWorkspace \/ SwitchChat \/ NewConversation \/ Answer
             \/ \E had \in BOOLEAN : Fetched(had)
             \/ ClaimCancellations \/ (\E i \in DOMAIN requests : CancelRunning(i) \/ StopRaises(i))
             \/ Crash \/ Boot
    BY <2>2 DEF UserSends, Poll, Ignore, Refuse, Stop, SwitchWorkspace, SwitchChat, NewConversation,
                Answer, Bind, Fetched, ClaimCancellations, CancelRunning, StopRaises, Done, Crash, Boot,
                runs
  <2>3. CASE Message
    <3>1. RunQueue!Submit(Binding) /\ Binding # 0
      BY <2>3 DEF Message
    <3>2. Binding \in Convs
      <4>1. bound \in 0 .. convs /\ convs \in 1 .. MaxConvs /\ MaxConvs \in Nat
        BY <1>2, InboxBounds DEF IInv, Typed, ChatTyped, Convs
      <4>2. bound # 0 => bound \in 1 .. MaxConvs
        BY <4>1
      <4>3. 1 \in 1 .. MaxConvs
        BY <4>1
      <4>. QED
        BY <3>1, <4>2, <4>3 DEF Binding, Convs
    <3>. QED
      BY <3>1, <3>2 DEF RunQueue!Next
  <2>4. ASSUME NEW i \in DOMAIN requests, NEW r \in Runs, CancelAtOnce(i, r)
        PROVE  RunQueue!Next \/ UNCHANGED <<conv, status>>
    BY <2>4 DEF CancelAtOnce, Done, RunQueue!Next, RunQueue!Runs, Runs
  <2>5. ASSUME NEW i \in DOMAIN requests, NEW r \in Runs, StopAnswered(i, r)
        PROVE  RunQueue!Next \/ UNCHANGED <<conv, status>>
    <3>1. /\ conv' = conv
          /\ \/ status[r] = "running" /\ status' = [status EXCEPT ![r] = "cancelled"]
             \/ status' = status
      BY <2>5 DEF StopAnswered, Cancelled, Done
    <3>2. CASE status[r] = "running" /\ status' = [status EXCEPT ![r] = "cancelled"]
      <4>1. "cancelled" \in Outcomes
        BY DEF Outcomes
      <4>2. RunQueue!Settle({r})
        BY <2>1, <3>1, <3>2, <4>1, SettlesOne
      <4>3. {r} \in SUBSET RunQueue!Runs
        BY DEF RunQueue!Runs, Runs
      <4>. QED
        BY <4>2, <4>3 DEF RunQueue!Next
    <3>. QED
      BY <3>1, <3>2
  <2>6. ASSUME NEW c \in Convs, Dispatch(c) PROVE RunQueue!Next \/ UNCHANGED <<conv, status>>
    <3>1. (\E r \in In(c, "queued") : RunQueue!Start(r)) \/ UNCHANGED <<conv, status>>
      BY <2>6 DEF Dispatch
    <3>2. ASSUME NEW r \in In(c, "queued"), RunQueue!Start(r) PROVE RunQueue!Next
      <4>1. DOMAIN conv \subseteq RunQueue!Runs
        BY <1>2, LenProperties, InboxBounds DEF IInv, Typed, RunsTyped, RunQueue!Runs
      <4>. QED
        BY <3>2, <4>1 DEF In, RunQueue!Next
    <3>. QED
      BY <3>1, <3>2
  <2>7. ASSUME NEW r \in Runs, RunEnds(r) PROVE RunQueue!Next
    <3>1. {r} \in SUBSET RunQueue!Runs
      BY DEF RunQueue!Runs, Runs
    <3>. QED
      BY <2>7, <3>1 DEF RunEnds, RunQueue!Next
  <2>. QED
    BY <1>2, <2>2, <2>3, <2>4, <2>5, <2>6, <2>7 DEF Next, HandleUpdate, Cancellation
<1>3. IInv /\ [Next]_vars => [RunQueue!Next]_RunQueue!vars
  BY <1>2 DEF vars, runs, RunQueue!vars
<1>. QED
  BY <1>1, <1>3, Invariant, PTL DEF Spec, RunQueueSpec, RunQueue!Spec
=============================================================================
