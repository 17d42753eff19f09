----------------------------- MODULE StreamsProof -----------------------------
(***************************************************************************)
(* Proofs about Streams, for every output of the worker and every bound.   *)
(*                                                                         *)
(* That no wake-up is lost depends on what a stream has yet to send when   *)
(* it begins to wait: Heard says it of every moment since the listing, and *)
(* PageFollows that the page it still has to send goes on where the cursor *)
(* stands.  That progress misses nothing is the second half.               *)
(***************************************************************************)
EXTENDS Streams, SequenceTheorems, FiniteSetTheorems, TLAPS

Event == [kind : Printed \cup GatewayKinds, src : Nat]
Clients(n) == [pc : {"off", "send", "wait"}, stream : {"run", "control"},
               cursor : 0..n, page : Seq(Nat), full : BOOLEAN, moved : BOOLEAN]
Steps == [pc : {"idle", "requested", "stopping", "reading", "announcing",
                "ending", "over"},
          upto : 0..Len(out), at : 0..Len(out), last : BOOLEAN]

\* The types of what a stream depends on.
Typed ==
  /\ out \in Seq(Printed)
  /\ events \in Seq(Event)
  /\ ingest \in [Ingesters -> Steps]
  /\ client \in Clients(Len(events))

Pending == \E i \in Ingesters : ingest[i].pc \in {"announcing", "requested", "ending"}

PageFollows ==
  /\ \A k \in 1..Len(client.page) : client.page[k] = client.cursor + k
  /\ client.cursor + Len(client.page) <= Len(events)
  /\ client.pc # "send" => client.page = <<>>

Heard ==
  client.pc # "off" /\ ~client.moved
    => client.full \/ Pending \/ client.cursor + Len(client.page) = Len(events)

Severed == gateway = "down" => client.pc = "off"

IInv == Typed /\ PageFollows /\ Heard /\ Severed

-----------------------------------------------------------------------------
(* What a listing returns: the events after the cursor, in order, all of   *)
(* them unless the page is full.                                           *)
LEMMA PageOf ==
  ASSUME events \in Seq(Event), NEW c \in 0..Len(events)
  PROVE  /\ Page(c) \in Seq(Nat)
         /\ \A k \in 1..Len(Page(c)) : Page(c)[k] = c + k
         /\ c + Len(Page(c)) <= Len(events)
         /\ Len(Page(c)) = ListLimit \/ c + Len(Page(c)) = Len(events)
<1>. DEFINE all == [n \in DOMAIN events |-> n]
            last == IF c + ListLimit < Len(events) THEN c + ListLimit ELSE Len(events)
<1>1. Len(events) \in Nat /\ DOMAIN events = 1..Len(events) /\ ListLimit \in Nat \ {0}
  BY StreamsAssumption
<1>2. last \in Int /\ c + 1 \in Int /\ c <= last /\ last <= Len(events)
  BY <1>1
<1>3. \A i \in c + 1 .. last : all[i] \in Nat
  BY <1>1, <1>2
<1>. HIDE DEF all
<1>4. /\ SubSeq(all, c + 1, last) \in Seq(Nat)
      /\ Len(SubSeq(all, c + 1, last)) = IF c + 1 <= last THEN last - (c + 1) + 1 ELSE 0
      /\ \A i \in 1 .. last - (c + 1) + 1 : SubSeq(all, c + 1, last)[i] = all[c + 1 + i - 1]
  BY <1>2, <1>3, SubSeqProperties
<1>5. Page(c) = SubSeq(all, c + 1, last)
  BY DEF Page, all
<1>6. Len(Page(c)) = last - c
  BY <1>1, <1>2, <1>4, <1>5
<1>7. \A k \in 1..Len(Page(c)) : Page(c)[k] = c + k
  <2>. SUFFICES ASSUME NEW k \in 1 .. last - c PROVE Page(c)[k] = c + k
    BY <1>6
  <2>1. c + k \in 1..Len(events) /\ c + 1 + k - 1 = c + k /\ k \in 1 .. last - (c + 1) + 1
    BY <1>1, <1>2
  <2>2. all[c + k] = c + k
    BY <2>1, <1>1 DEF all
  <2>. QED
    BY <2>1, <2>2, <1>4, <1>5
<1>8. Page(c) \in Seq(Nat)
  BY <1>4, <1>5
<1>9. Len(Page(c)) = ListLimit \/ c + Len(Page(c)) = Len(events)
  <2>. DEFINE n == Len(events)
              p == Len(Page(c))
  <2>1. n \in Nat /\ ListLimit \in Nat \ {0} /\ c \in 0..n
    BY <1>1
  <2>2. p = last - c
    BY <1>6
  <2>3. last = c + ListLimit \/ last = n
    OBVIOUS
  <2>. HIDE DEF n, p, last
  <2>4. p = ListLimit \/ c + p = n
    BY <1>2, <2>1, <2>2, <2>3
  <2>. QED
    BY <2>4 DEF n, p
<1>10. c + Len(Page(c)) <= Len(events)
  BY <1>1, <1>2, <1>6
<1>. QED
  BY <1>7, <1>8, <1>9, <1>10

-----------------------------------------------------------------------------
(* The beginning.                                                          *)
LEMMA Starts == Init => IInv
<1>. SUFFICES ASSUME Init PROVE IInv
  OBVIOUS
<1>1. events \in Seq(Event) /\ Len(events) = 1
  BY DEF Init, Event, GatewayKinds
<1>2. out \in Seq(Printed) /\ Len(out) = 0
  BY DEF Init
<1>3. client \in Clients(Len(events))
  BY <1>1 DEF Init, Away, Clients
<1>4. ingest \in [Ingesters -> Steps]
  BY <1>2 DEF Init, Rest, Steps, Ingesters
<1>5. PageFollows /\ Heard /\ Severed
  BY <1>1 DEF Init, Away, PageFollows, Heard, Severed
<1>. QED
  BY <1>1, <1>2, <1>3, <1>4, <1>5 DEF IInv, Typed

-----------------------------------------------------------------------------
(* A step that leaves the client alone and announces, or is about to       *)
(* announce, what it adds to the log.                                      *)
LEMMA Quiet ==
  ASSUME IInv, client' = client,
         out' \in Seq(Printed), events' \in Seq(Event),
         ingest' \in [Ingesters -> Steps'],
         Len(events) <= Len(events'),
         Pending' \/ (events' = events /\ (Pending => Pending')),
         gateway' = "down" => gateway = "down"
  PROVE  IInv'
<1>1. /\ client.cursor \in 0..Len(events) /\ Len(events) \in Nat /\ Len(events') \in Nat
      /\ Len(client.page) \in Nat /\ client \in Clients(Len(events))
  BY DEF IInv, Typed, Clients
<1>2. client' \in Clients(Len(events'))
  BY <1>1 DEF Clients
<1>3. PageFollows'
  BY <1>1 DEF IInv, PageFollows
<1>4. Heard'
  BY <1>1 DEF IInv, Heard
<1>5. Severed'
  BY DEF IInv, Severed
<1>. QED
  BY <1>2, <1>3, <1>4, <1>5 DEF IInv, Typed

(* A step that changes the client alone, or nothing it depends on.         *)
LEMMA ClientOnly ==
  ASSUME IInv, UNCHANGED <<out, events, ingest>>,
         client' \in Clients(Len(events)), PageFollows', Heard', Severed'
  PROVE  IInv'
BY DEF IInv, Typed, Steps

(* Where an ingester may stand.                                            *)
LEMMA Standing ==
  ASSUME IInv, out' \in Seq(Printed), Len(out) <= Len(out'),
         ingest' \in [Ingesters -> Steps]
  PROVE  ingest' \in [Ingesters -> Steps']
<1>1. Len(out) \in Nat /\ Len(out') \in Nat
  BY DEF IInv, Typed
<1>2. Steps \subseteq Steps'
  BY <1>1 DEF Steps
<1>. QED
  BY <1>1, <1>2

LEMMA Standings ==
  ASSUME IInv
  PROVE  /\ \A pc \in {"idle", "requested", "stopping", "ending", "over"} : Rest(pc) \in Steps
         /\ \A last \in BOOLEAN : Reading(Len(out), last) \in Steps
<1>1. Len(out) \in Nat /\ ingest \in [Ingesters -> Steps]
  BY DEF IInv, Typed
<1>. QED
  BY <1>1 DEF Rest, Reading, Steps

(* What an ingestion does to the log.                                      *)
LEMMA LogGrows ==
  ASSUME IInv, NEW src \in 1..Len(out)
  PROVE  Logged(events, src) \in Seq(Event) /\ Len(events) <= Len(Logged(events, src))
<1>1. events \in Seq(Event) /\ out[src] \in Printed /\ src \in Nat /\ Len(events) \in Nat
  BY DEF IInv, Typed
<1>2. [kind |-> out[src], src |-> src] \in Event
  BY <1>1 DEF Event
<1>3. CASE \E n \in DOMAIN events : events[n].src = src
  BY <1>1, <1>3 DEF Logged
<1>4. CASE ~ \E n \in DOMAIN events : events[n].src = src
  <2>1. Logged(events, src) = Append(events, [kind |-> out[src], src |-> src])
    BY <1>4 DEF Logged
  <2>. QED
    BY <2>1, <1>1, <1>2, AppendProperties
<1>. QED
  BY <1>3, <1>4

LEMMA OwnGrows ==
  ASSUME IInv, NEW kind \in GatewayKinds
  PROVE  /\ Append(events, Own(kind)) \in Seq(Event)
         /\ Len(events) <= Len(Append(events, Own(kind)))
<1>1. events \in Seq(Event) /\ Own(kind) \in Event /\ Len(events) \in Nat
  BY DEF IInv, Typed, Own, Event
<1>. QED
  BY <1>1, AppendProperties

-----------------------------------------------------------------------------
(* The worker.                                                             *)
LEMMA WorkerSteps ==
  ASSUME IInv, (\E kind \in Printed : Emit(kind)) \/ Exit
  PROVE  IInv'
<1>1. out' \in Seq(Printed) /\ Len(out) <= Len(out')
  <2>1. CASE Exit
    BY <2>1 DEF Exit, IInv, Typed
  <2>2. ASSUME NEW kind \in Printed, Emit(kind)
        PROVE  out' \in Seq(Printed) /\ Len(out) <= Len(out')
    <3>1. out \in Seq(Printed) /\ out' = Append(out, kind) /\ Len(out) \in Nat
      BY <2>2 DEF Emit, IInv, Typed
    <3>. QED
      BY <3>1, AppendProperties
  <2>. QED
    BY <2>1, <2>2
<1>2. UNCHANGED <<gateway, run, ingest, client>>
  BY DEF Emit, Exit
<1>3. ingest' \in [Ingesters -> Steps']
  <2>1. ingest \in [Ingesters -> Steps]
    BY DEF IInv, Typed
  <2>. QED
    BY <1>1, <1>2, <2>1, Standing
<1>4. Pending => Pending'
  BY <1>2 DEF Pending
<1>5. Len(events) \in Nat /\ events \in Seq(Event) /\ events' = events
  BY <1>2 DEF run, IInv, Typed
<1>. QED
  BY <1>1, <1>2, <1>3, <1>4, <1>5, Quiet

-----------------------------------------------------------------------------
(* The monitor and the cancellation.                                       *)
LEMMA Ingests == ASSUME IInv, NEW i \in Ingesters, IngestOne(i) PROVE IInv'
<1>. DEFINE src == ingest[i].at + 1
<1>1. ingest[i] \in Steps /\ ingest \in [Ingesters -> Steps] /\ Len(out) \in Nat
  BY DEF IInv, Typed
<1>2. src \in 1..Len(out) /\ ingest[i].at + 1 \in 0..Len(out)
  BY <1>1 DEF IngestOne, Steps
<1>3. events' = Logged(events, src) /\ UNCHANGED <<gateway, out, client>>
  BY DEF IngestOne, Ingested, worker
<1>4. events' \in Seq(Event) /\ Len(events) <= Len(events')
  BY <1>2, <1>3, LogGrows
<1>7. out' \in Seq(Printed) /\ Len(out) <= Len(out')
  BY <1>3, <1>1 DEF IInv, Typed
<1>8. ingest' \in [Ingesters -> Steps']
  <2>. DEFINE new == [ingest[i] EXCEPT !.at = src, !.pc = "announcing"]
  <2>1. new \in Steps
    BY <1>1, <1>2 DEF Steps
  <2>2. ingest' = [ingest EXCEPT ![i] = new]
    BY <1>1 DEF IngestOne, Steps
  <2>3. ingest' \in [Ingesters -> Steps]
    BY <1>1, <2>1, <2>2
  <2>. QED
    BY <2>3, <1>7, Standing
<1>9. Pending'
  BY <1>1 DEF IngestOne, Pending, Steps
<1>. QED
  BY <1>3, <1>4, <1>7, <1>8, <1>9, Quiet

LEMMA Announces == ASSUME IInv, NEW i \in Ingesters, Announce(i) PROVE IInv'
<1>1. /\ UNCHANGED <<out, events>> /\ client' = Announced(client)
      /\ gateway' = "down" => gateway = "down"
  BY DEF Announce, worker, run
<1>2. client \in Clients(Len(events)) /\ out \in Seq(Printed) /\ events \in Seq(Event)
  BY DEF IInv, Typed
<1>3. ingest' \in [Ingesters -> Steps]
  <2>. DEFINE new == [ingest[i] EXCEPT !.pc = Resumed(ingest[i].pc)]
  <2>1. ingest \in [Ingesters -> Steps]
    BY DEF IInv, Typed
  <2>2. new \in Steps
    <3>1. Resumed(ingest[i].pc) \in {"reading", "stopping", "over"}
      BY DEF Announce, Resumed
    <3>. QED
      BY <2>1, <3>1 DEF Steps
  <2>3. ingest' = [ingest EXCEPT ![i] = new]
    BY DEF Announce
  <2>. QED
    BY <2>1, <2>2, <2>3
<1>5. ingest' \in [Ingesters -> Steps']
  BY <1>1, <1>2, <1>3, Standing
<1>6. /\ client' \in Clients(Len(events)) /\ client'.pc = client.pc
      /\ client'.page = client.page /\ client'.cursor = client.cursor
      /\ client'.moved = (client.pc # "off")
  BY <1>1, <1>2 DEF Announced, Clients
<1>7. PageFollows' /\ Heard' /\ Severed'
  BY <1>1, <1>6 DEF IInv, PageFollows, Heard, Severed
<1>. QED
  BY <1>1, <1>2, <1>5, <1>6, <1>7 DEF IInv, Typed

(* An ingester goes on, and the log stays.                                 *)
LEMMA GoesOn ==
  ASSUME IInv, UNCHANGED <<out, events, client>>,
         ingest' \in [Ingesters -> Steps], Pending => Pending',
         gateway' = "down" => gateway = "down"
  PROVE  IInv'
<1>1. out \in Seq(Printed) /\ events \in Seq(Event) /\ Len(out) \in Nat /\ Len(events) \in Nat
  BY DEF IInv, Typed
<1>2. ingest' \in [Ingesters -> Steps']
  BY <1>1, Standing
<1>. QED
  BY <1>1, <1>2, Quiet

(* An ingester is about to announce what it adds to the log.               *)
LEMMA Speaks ==
  ASSUME IInv, UNCHANGED <<out, client, gateway>>,
         ingest' \in [Ingesters -> Steps], Pending',
         events' \in Seq(Event), Len(events) <= Len(events')
  PROVE  IInv'
<1>1. out \in Seq(Printed) /\ Len(out) \in Nat
  BY DEF IInv, Typed
<1>2. ingest' \in [Ingesters -> Steps']
  BY <1>1, Standing
<1>. QED
  BY <1>1, <1>2, Quiet

LEMMA Settles ==
  ASSUME IInv, NEW i \in Ingesters, Settle(i), UNCHANGED <<out, client, gateway>>
  PROVE  IInv'
<1>1. ingest' \in [Ingesters -> Steps] /\ Pending'
  <2>1. Rest("ending") \in Steps /\ ingest' = [ingest EXCEPT ![i] = Rest("ending")]
    BY Standings DEF Settle
  <2>. QED
    BY <2>1 DEF IInv, Typed, Pending, Rest
<1>2. events' \in Seq(Event) /\ Len(events) <= Len(events')
  <2>1. CASE status = "running"
    BY <2>1, OwnGrows DEF Settle, GatewayKinds
  <2>2. CASE status # "running"
    BY <2>2 DEF Settle, run, IInv, Typed
  <2>. QED
    BY <2>1, <2>2
<1>. QED
  BY <1>1, <1>2, Speaks

LEMMA MonitorMoves == ASSUME IInv, MonitorSteps \/ MonitorError PROVE IInv'
<1>. "monitor" \in Ingesters
  BY DEF Ingesters
<1>1. IngestOne("monitor") => IInv'
  BY Ingests
<1>2. Announce("monitor") => IInv'
  BY Announces
<1>3. CASE Poll
  <2>1. UNCHANGED <<out, events, client, gateway>> /\ ingest["monitor"].pc = "idle"
    BY <1>3 DEF Poll, worker, run
  <2>2. PICK s \in {Rest("over"), Reading(Len(out), FALSE)} :
          ingest' = [ingest EXCEPT !["monitor"] = s]
    BY <1>3 DEF Poll
  <2>3. s \in Steps
    BY <2>2, Standings
  <2>4. ingest' \in [Ingesters -> Steps] /\ (Pending => Pending')
    BY <2>1, <2>2, <2>3 DEF IInv, Typed, Pending
  <2>. QED
    BY <2>1, <2>4, GoesOn
<1>4. CASE Inspect
  <2>1. UNCHANGED <<out, events, client>> /\ gateway' # "down" /\ ingest["monitor"].pc = "reading"
    BY <1>4 DEF Inspect, worker, run
  <2>2. PICK s \in {Rest("idle"), Reading(Len(out), TRUE)} :
          ingest' = [ingest EXCEPT !["monitor"] = s]
    BY <1>4 DEF Inspect
  <2>3. s \in Steps
    BY <2>2, Standings
  <2>4. ingest' \in [Ingesters -> Steps] /\ (Pending => Pending')
    BY <2>1, <2>2, <2>3 DEF IInv, Typed, Pending
  <2>. QED
    BY <2>1, <2>4, GoesOn
<1>5. CASE Finalize
  BY <1>1, <1>5, Settles DEF Finalize, worker
<1>6. CASE MonitorError
  <2>. DEFINE two == <<Own("backend.monitor_error"), Own("ended")>>
  <2>1. /\ UNCHANGED <<out, client, gateway>> /\ events' = events \o two
        /\ ingest' = [ingest EXCEPT !["monitor"] = Rest("ending")]
    BY <1>6 DEF MonitorError, worker
  <2>2. two \in Seq(Event) /\ Len(two) = 2 /\ events \in Seq(Event) /\ Len(events) \in Nat
    BY DEF Own, Event, GatewayKinds, IInv, Typed
  <2>3. events' \in Seq(Event) /\ Len(events) <= Len(events')
    BY <2>1, <2>2, ConcatProperties
  <2>4. Rest("ending") \in Steps
    BY Standings
  <2>5. ingest' \in [Ingesters -> Steps] /\ Pending'
    BY <2>1, <2>4 DEF IInv, Typed, Pending, Rest
  <2>. QED
    BY <2>1, <2>3, <2>5, Speaks
<1>. QED
  BY <1>1, <1>2, <1>3, <1>4, <1>5, <1>6 DEF MonitorSteps

LEMMA CancelMoves == ASSUME IInv, RequestCancel \/ CancelSteps PROVE IInv'
<1>. "cancel" \in Ingesters
  BY DEF Ingesters
<1>1. IngestOne("cancel") => IInv'
  BY Ingests
<1>2. Announce("cancel") => IInv'
  BY Announces
<1>3. CASE RequestCancel
  <2>1. /\ UNCHANGED <<out, client, gateway>>
        /\ events' = Append(events, Own("run.cancel_requested"))
        /\ ingest' = [ingest EXCEPT !["cancel"] = Rest("requested")]
    BY <1>3 DEF RequestCancel, worker
  <2>2. events' \in Seq(Event) /\ Len(events) <= Len(events')
    BY <2>1, OwnGrows DEF GatewayKinds
  <2>4. Rest("requested") \in Steps
    BY Standings
  <2>5. ingest' \in [Ingesters -> Steps] /\ Pending'
    BY <2>1, <2>4 DEF IInv, Typed, Pending, Rest
  <2>. QED
    BY <2>1, <2>2, <2>5, Speaks
<1>4. CASE Stop
  <2>1. /\ UNCHANGED <<out, events, client, gateway>> /\ ingest["cancel"].pc = "stopping"
        /\ ingest' = [ingest EXCEPT !["cancel"] = Reading(Len(out), TRUE)]
    BY <1>4 DEF Stop, run
  <2>2. Reading(Len(out), TRUE) \in Steps
    BY Standings
  <2>4. ingest' \in [Ingesters -> Steps] /\ (Pending => Pending')
    BY <2>1, <2>2 DEF IInv, Typed, Pending
  <2>. QED
    BY <2>1, <2>4, GoesOn
<1>5. CASE Cancelled
  BY <1>1, <1>5, Settles DEF Cancelled, worker
<1>. QED
  BY <1>1, <1>2, <1>3, <1>4, <1>5 DEF CancelSteps

-----------------------------------------------------------------------------
(* The client.                                                             *)
LEMMA Lists ==
  ASSUME IInv, UNCHANGED <<out, events, ingest, gateway>>, gateway # "down",
         NEW c \in Clients(Len(events)), client' = Listed(c)
  PROVE  IInv'
<1>1. events \in Seq(Event) /\ c.cursor \in 0..Len(events) /\ Len(events) \in Nat
  BY DEF IInv, Typed, Clients
<1>2. /\ Page(c.cursor) \in Seq(Nat)
      /\ \A k \in 1..Len(Page(c.cursor)) : Page(c.cursor)[k] = c.cursor + k
      /\ c.cursor + Len(Page(c.cursor)) <= Len(events)
      /\ Len(Page(c.cursor)) = ListLimit \/ c.cursor + Len(Page(c.cursor)) = Len(events)
  BY <1>1, PageOf
<1>3. /\ client' \in Clients(Len(events)) /\ client'.pc = "send"
      /\ client'.cursor = c.cursor /\ client'.page = Page(c.cursor)
      /\ client'.full = (Len(Page(c.cursor)) = ListLimit)
  BY <1>2 DEF Listed, Clients
<1>4. PageFollows'
  BY <1>2, <1>3 DEF PageFollows
<1>5. Heard'
  BY <1>2, <1>3 DEF Heard
<1>6. Severed'
  BY DEF Severed
<1>. QED
  BY <1>3, <1>4, <1>5, <1>6, ClientOnly

(* A client that is gone.                                                  *)
LEMMA Gone ==
  ASSUME IInv, out' \in Seq(Printed), events' \in Seq(Event),
         Len(events) <= Len(events'), ingest' \in [Ingesters -> Steps'],
         client' = [Away EXCEPT !.cursor = client.cursor] \/ (client' = client /\ client.pc = "off")
  PROVE  IInv'
<1>1. /\ client \in Clients(Len(events)) /\ Len(events) \in Nat /\ Len(events') \in Nat
      /\ client.cursor \in 0..Len(events) /\ (client.pc = "off" => client.page = <<>>)
  BY DEF IInv, Typed, Clients, PageFollows
<1>2. /\ client' \in Clients(Len(events')) /\ client'.pc = "off" /\ client'.page = <<>>
      /\ client'.cursor \in 0..Len(events')
  <2>1. client.cursor \in 0..Len(events')
    BY <1>1
  <2>2. CASE client' = [Away EXCEPT !.cursor = client.cursor]
    <3>1. client' = [pc |-> "off", stream |-> "run", cursor |-> client.cursor,
                     page |-> <<>>, full |-> FALSE, moved |-> FALSE]
      BY <2>2 DEF Away
    <3>2. <<>> \in Seq(Nat)
      OBVIOUS
    <3>3. client' \in Clients(Len(events'))
      BY <2>1, <3>1, <3>2 DEF Clients
    <3>4. client'.pc = "off" /\ client'.page = <<>> /\ client'.cursor \in 0..Len(events')
      BY <2>1, <3>1
    <3>. QED
      BY <3>3, <3>4
  <2>3. CASE client' = client /\ client.pc = "off"
    BY <1>1, <2>1, <2>3 DEF Clients
  <2>. QED
    BY <2>2, <2>3
<1>3. PageFollows'
  BY <1>1, <1>2 DEF PageFollows
<1>4. Heard' /\ Severed'
  BY <1>2 DEF Heard, Severed
<1>. QED
  BY <1>2, <1>3, <1>4 DEF IInv, Typed

LEMMA Sends == ASSUME IInv, Send PROVE IInv'
<1>1. /\ UNCHANGED <<out, events, ingest, gateway>> /\ client.pc = "send" /\ client.page # <<>>
      /\ client' = [client EXCEPT !.cursor = Head(client.page), !.page = Tail(@)]
  BY DEF Send, worker, run
<1>2. client \in Clients(Len(events)) /\ client.page \in Seq(Nat) /\ Len(events) \in Nat
      /\ client.cursor \in Nat
  BY DEF IInv, Typed, Clients
<1>3. /\ Len(client.page) \in Nat \ {0} /\ Head(client.page) = client.page[1]
      /\ Tail(client.page) \in Seq(Nat) /\ Len(Tail(client.page)) = Len(client.page) - 1
      /\ \A k \in 1..Len(Tail(client.page)) : Tail(client.page)[k] = client.page[k + 1]
  BY <1>1, <1>2, HeadTailProperties, EmptySeq
<1>4. /\ \A k \in 1..Len(client.page) : client.page[k] = client.cursor + k
      /\ client.cursor + Len(client.page) <= Len(events)
  BY DEF IInv, PageFollows
<1>5. Head(client.page) = client.cursor + 1 /\ Head(client.page) \in 0..Len(events)
  BY <1>2, <1>3, <1>4
<1>6. /\ client' \in Clients(Len(events)) /\ client'.cursor = client.cursor + 1
      /\ client'.page = Tail(client.page) /\ client'.pc = "send"
      /\ client'.moved = client.moved /\ client'.full = client.full
  BY <1>1, <1>2, <1>3, <1>5 DEF Clients
<1>7. PageFollows'
  <2>1. \A k \in 1..Len(Tail(client.page)) : Tail(client.page)[k] = client.cursor + 1 + k
    <3>. TAKE k \in 1..Len(Tail(client.page))
    <3>1. k + 1 \in 1..Len(client.page) /\ k \in Nat
      BY <1>3
    <3>2. client.page[k + 1] = client.cursor + (k + 1)
      BY <1>4, <3>1
    <3>. QED
      BY <1>2, <1>3, <3>1, <3>2
  <2>2. client.cursor + 1 + Len(Tail(client.page)) <= Len(events)
    BY <1>2, <1>3, <1>4
  <2>. QED
    BY <1>1, <1>6, <2>1, <2>2 DEF PageFollows
<1>8. Heard'
  <2>1. client.cursor + 1 + Len(Tail(client.page)) = client.cursor + Len(client.page)
    BY <1>2, <1>3
  <2>. QED
    BY <1>1, <1>6, <2>1 DEF IInv, Heard, Pending
<1>9. Severed'
  BY <1>1, <1>6 DEF IInv, Severed
<1>. QED
  BY <1>1, <1>6, <1>7, <1>8, <1>9, ClientOnly

LEMMA StreamMoves ==
  ASSUME IInv, StreamSteps \/ Disconnect \/ \E stream \in {"run", "control"} : Connect(stream)
  PROVE  IInv'
<1>. DEFINE gone == client' = [Away EXCEPT !.cursor = client.cursor]
<1>1. UNCHANGED <<out, events, ingest, gateway>>
  BY DEF StreamSteps, Send, Sent, Wake, Disconnect, Connect, worker, run
<1>2. /\ client \in Clients(Len(events)) /\ out' \in Seq(Printed) /\ events' \in Seq(Event)
      /\ Len(events) \in Nat /\ ingest' \in [Ingesters -> Steps']
  BY <1>1 DEF IInv, Typed, Steps
<1>3. gone => IInv'
  BY <1>1, <1>2, Gone
<1>4. CASE Sent
  <2>1. gone \/ client' = Waiting
    BY <1>4 DEF Sent
  <2>2. ASSUME client' = Waiting PROVE IInv'
    <3>1. /\ client' \in Clients(Len(events)) /\ client.pc = "send" /\ client.page = <<>>
          /\ client' = [client EXCEPT !.pc = "wait"]
      BY <1>2, <1>4, <2>2 DEF Sent, Waiting, Clients
    <3>2. PageFollows' /\ Heard' /\ Severed'
      BY <1>1, <1>2, <3>1 DEF IInv, PageFollows, Heard, Pending, Severed, Clients
    <3>. QED
      BY <1>1, <3>1, <3>2, ClientOnly
  <2>. QED
    BY <1>3, <2>1, <2>2
<1>5. CASE Wake
  BY <1>1, <1>2, <1>5, Lists DEF Wake, IInv, Severed
<1>6. ASSUME NEW stream \in {"run", "control"}, Connect(stream) PROVE IInv'
  <2>1. [client EXCEPT !.stream = stream] \in Clients(Len(events))
    BY <1>2, <1>6 DEF Clients
  <2>. QED
    BY <1>1, <1>6, <2>1, Lists DEF Connect
<1>. QED
  BY <1>3, <1>4, <1>5, <1>6, Sends DEF StreamSteps, Disconnect

-----------------------------------------------------------------------------
(* The death of the gateway and its return.                                *)
LEMMA CrashMoves == ASSUME IInv, Crash PROVE IInv'
<1>1. /\ out' = out /\ client' = [Away EXCEPT !.cursor = client.cursor]
      /\ ingest' = [i \in Ingesters |-> Rest("over")]
      /\ Torn \/ events' = events
  BY DEF Crash, worker
<1>2. out \in Seq(Printed) /\ events \in Seq(Event) /\ Len(events) \in Nat
  BY DEF IInv, Typed
<1>3. ingest' \in [Ingesters -> Steps']
  BY <1>1, Standings DEF Steps
<1>4. events' \in Seq(Event) /\ Len(events) <= Len(events')
  <2>1. CASE Torn
    <3>1. PICK i \in Ingesters :
            ingest[i].at < ingest[i].upto /\ events' = Logged(events, ingest[i].at + 1)
      BY <2>1 DEF Torn
    <3>2. ingest[i] \in Steps /\ Len(out) \in Nat
      BY <1>2, <3>1 DEF IInv, Typed
    <3>3. ingest[i].at + 1 \in 1..Len(out)
      BY <3>1, <3>2 DEF Steps
    <3>. QED
      BY <3>1, <3>3, LogGrows
  <2>. QED
    BY <1>1, <1>2, <2>1
<1>. QED
  BY <1>1, <1>2, <1>3, <1>4, Gone

LEMMA BootMoves == ASSUME IInv, Boot PROVE IInv'
<1>1. UNCHANGED <<out, events, client>> /\ client.pc = "off"
  BY DEF Boot, run, IInv, Severed
<1>2. out \in Seq(Printed) /\ events \in Seq(Event) /\ Len(events) \in Nat
      /\ ingest \in [Ingesters -> Steps] /\ (~alive) \in BOOLEAN
  BY DEF IInv, Typed
<1>3. Reading(Len(out), ~alive) \in Steps /\ Rest("idle") \in Steps
  BY <1>2, Standings
<1>4. ingest' \in [Ingesters -> Steps]
  BY <1>2, <1>3 DEF Boot
<1>5. ingest' \in [Ingesters -> Steps']
  BY <1>1, <1>4 DEF Steps
<1>. QED
  BY <1>1, <1>2, <1>5, Gone

-----------------------------------------------------------------------------
LEMMA Preserved == IInv /\ [Next]_vars => IInv'
<1>. SUFFICES ASSUME IInv, [Next]_vars PROVE IInv'
  OBVIOUS
<1>1. CASE UNCHANGED vars
  BY <1>1 DEF vars, IInv, Typed, PageFollows, Heard, Pending, Severed, Steps
<1>2. CASE (\E kind \in Printed : Emit(kind)) \/ Exit
  BY <1>2, WorkerSteps
<1>3. CASE MonitorSteps \/ MonitorError
  BY <1>3, MonitorMoves
<1>4. CASE RequestCancel \/ CancelSteps
  BY <1>4, CancelMoves
<1>5. CASE StreamSteps \/ Disconnect \/ \E stream \in {"run", "control"} : Connect(stream)
  BY <1>5, StreamMoves
<1>6. CASE Crash
  BY <1>6, CrashMoves
<1>7. CASE Boot
  BY <1>7, BootMoves
<1>. QED
  BY <1>1, <1>2, <1>3, <1>4, <1>5, <1>6, <1>7 DEF Next

LEMMA NothingUnheard == IInv => WakeupsArrive
<1>. SUFFICES ASSUME IInv, client.pc = "wait", ~client.moved, client.cursor < Len(events)
              PROVE  client.full \/ Pending
  BY DEF WakeupsArrive, Pending
<1>1. client.page = <<>> /\ client.cursor \in 0..Len(events) /\ Len(events) \in Nat
  BY DEF IInv, Typed, Clients, PageFollows
<1>2. client.cursor + Len(client.page) # Len(events)
  BY <1>1
<1>. QED
  BY <1>2 DEF IInv, Heard

(* A stream that begins to wait has been sent all there was when it listed, *)
(* and what has come since has moved the bus, or is about to: whatever the *)
(* worker prints, however long the log and however small the page, no      *)
(* wake-up of a WebSocket client is lost (event_bus.py, api.py).           *)
THEOREM WakeupsArriveAlways == Spec => []WakeupsArrive
<1>1. Init => IInv
  BY Starts
<1>2. IInv /\ [Next]_vars => IInv'
  BY Preserved
<1>3. IInv => WakeupsArrive
  BY NothingUnheard
<1>. QED
  BY <1>1, <1>2, <1>3, PTL DEF Spec

-----------------------------------------------------------------------------
(* Progress.  What an ingestion has counted it has counted in this life of *)
(* the engine, so Counting speaks of the engine, and of the row only once  *)
(* the ingestion has written it.  Naming needs that nobody else reads      *)
(* beside it, and that a monitor goes back to its sleep only when no       *)
(* cancellation reads (AfterStop).                                         *)
GatewayStates == {"up", "down", "starting"}
Snapshot == [tools : Nat, active : DOMAIN events \cup {0}]

Counters ==
  /\ gateway \in GatewayStates /\ alive \in BOOLEAN /\ status \in {"running", "ended"}
  /\ telemetry \subseteq DOMAIN out
  /\ engine \in Snapshot /\ stored \in Snapshot
  /\ polls \in 0..MaxPolls /\ calls \in 0..MaxCalls /\ crashes \in 0..MaxCrashes

\* The tools among the first k envelopes of an output.
Called(o, k) == {s \in 1..k : o[s] = "tool.started"}

Reads(i) == ingest[i].pc \in {"reading", "announcing"}
Waits(i) == ingest[i].pc \in {"idle", "requested", "stopping"}
ReadsAlone(i) == Reads(i) /\ \A j \in Ingesters \ {i} : Waits(j)

Distinct ==
  \A k, l \in DOMAIN events : events[k].src # 0 /\ events[k].src = events[l].src => k = l

Known == engine.active # 0 => Called(out, Len(out)) # {}

Counting(i) == Reads(i) =>
  /\ 1..ingest[i].at \subseteq telemetry
  /\ engine.tools >= Cardinality(Called(out, ingest[i].at))
  /\ ingest[i].at > 0 => stored = engine

\* The n-th event of the log is that of the last tool among k envelopes.
NamesLast(o, k, log, n) ==
  \E m \in Called(o, k) :
    /\ \A s \in Called(o, k) : s <= m
    /\ n \in DOMAIN log /\ log[n].src = m

Naming(i) == ReadsAlone(i) =>
  /\ engine.active # 0 => Called(out, ingest[i].upto) # {}
  /\ Called(out, ingest[i].at) # {} => NamesLast(out, ingest[i].at, events, engine.active)

LastRead(i) == Reads(i) /\ ingest[i].last => ~alive /\ ingest[i].upto = Len(out)

AfterStop ==
  /\ Reads("cancel") => ~alive /\ ingest["cancel"].last
  /\ gateway = "starting" => ingest["cancel"].pc = "idle"

ReadToItsEnd ==
  status = "ended" /\ Own("backend.monitor_error") \notin Range(events) =>
    /\ ~alive /\ DOMAIN out \subseteq telemetry
    /\ stored.tools >= Cardinality(Called(out, Len(out)))
    /\ \/ engine.tools >= Cardinality(Called(out, Len(out)))
       \/ \A i \in Ingesters : ingest[i].pc = "over"

PInv ==
  /\ Counters /\ Distinct /\ Known
  /\ \A i \in Ingesters : Counting(i) /\ Naming(i) /\ LastRead(i)
  /\ AfterStop /\ ReadToItsEnd

LEMMA CalledGrows ==
  ASSUME NEW o, NEW k \in Nat
  PROVE  /\ Called(o, 0) = {} /\ Cardinality(Called(o, 0)) = 0
         /\ Cardinality(Called(o, k)) \in Nat
         /\ Called(o, k + 1) = IF o[k + 1] = "tool.started"
                               THEN Called(o, k) \cup {k + 1} ELSE Called(o, k)
         /\ Cardinality(Called(o, k + 1)) =
              IF o[k + 1] = "tool.started"
              THEN Cardinality(Called(o, k)) + 1 ELSE Cardinality(Called(o, k))
<1>1. Called(o, 0) = {}
  BY DEF Called
<1>2. IsFiniteSet(Called(o, k))
  <2>1. IsFiniteSet(1..k) /\ Called(o, k) \subseteq 1..k
    BY FS_Interval DEF Called
  <2>. QED
    BY <2>1, FS_Subset
<1>3. Called(o, k + 1) = IF o[k + 1] = "tool.started"
                         THEN Called(o, k) \cup {k + 1} ELSE Called(o, k)
  <2>1. 1..(k + 1) = (1..k) \cup {k + 1}
    OBVIOUS
  <2>. QED
    BY <2>1 DEF Called
<1>4. Cardinality(Called(o, k)) \in Nat /\ Cardinality(Called(o, 0)) = 0
  BY <1>1, <1>2, FS_CardinalityType, FS_EmptySet
<1>5. Cardinality(Called(o, k) \cup {k + 1}) = Cardinality(Called(o, k)) + 1
  <2>1. k + 1 \notin Called(o, k)
    BY DEF Called
  <2>. QED
    BY <1>2, <2>1, FS_AddElement
<1>6. Cardinality(Called(o, k + 1)) =
        IF o[k + 1] = "tool.started"
        THEN Cardinality(Called(o, k)) + 1 ELSE Cardinality(Called(o, k))
  BY <1>3, <1>5
<1>. QED
  BY <1>1, <1>3, <1>4, <1>6

LEMMA CalledStays ==
  ASSUME NEW o, NEW p, NEW k \in Nat, \A s \in 1..k : p[s] = o[s]
  PROVE  Called(p, k) = Called(o, k)
BY DEF Called

(* An envelope enters the log once.                                        *)
LEMMA LoggedOnce ==
  ASSUME IInv, Distinct, NEW src \in 1..Len(out), NEW log, log = Logged(events, src)
  PROVE  /\ log \in Seq(Event) /\ Len(log) \in Nat /\ Len(events) \in Nat
         /\ Len(events) <= Len(log) /\ \A n \in 1..Len(events) : log[n] = events[n]
         /\ \A k, l \in DOMAIN log : log[k].src # 0 /\ log[k].src = log[l].src => k = l
         /\ Sequence(log, src) \in 1..Len(log) /\ log[Sequence(log, src)].src = src
<1>1. /\ events \in Seq(Event) /\ Len(events) \in Nat /\ src # 0
      /\ [kind |-> out[src], src |-> src] \in Event
  BY DEF IInv, Typed, Event
<1>2. (\E n \in DOMAIN log : log[n].src = src) /\ DOMAIN log = 1..Len(log)
      => Sequence(log, src) \in 1..Len(log) /\ log[Sequence(log, src)].src = src
  BY DEF Sequence
<1>3. CASE \E n \in DOMAIN events : events[n].src = src
  BY <1>1, <1>2, <1>3 DEF Logged, Distinct
<1>4. CASE ~ \E n \in DOMAIN events : events[n].src = src
  <2>. DEFINE new == [kind |-> out[src], src |-> src]
  <2>1. log = Append(events, new) /\ new \in Event /\ new.src = src
    BY <1>1, <1>4 DEF Logged
  <2>. HIDE DEF new
  <2>2. /\ log \in Seq(Event) /\ Len(log) = Len(events) + 1 /\ log[Len(events) + 1] = new
        /\ \A n \in 1..Len(events) : log[n] = events[n]
    BY <1>1, <2>1, AppendProperties
  <2>3. DOMAIN log = 1..(Len(events) + 1) /\ DOMAIN events = 1..Len(events)
    BY <1>1, <2>2
  <2>4. ASSUME NEW k \in DOMAIN log, NEW l \in DOMAIN log,
               log[k].src # 0, log[k].src = log[l].src
        PROVE  k = l
    <3>1. \A n \in 1..Len(events) : log[n].src # src
      BY <1>4, <2>2, <2>3
    <3>2. (k \in 1..Len(events) \/ k = Len(events) + 1)
          /\ (l \in 1..Len(events) \/ l = Len(events) + 1)
      BY <1>1, <2>3
    <3>. QED
      BY <2>1, <2>2, <2>3, <2>4, <3>1, <3>2 DEF Distinct
  <2>5. Len(events) + 1 \in DOMAIN log /\ log[Len(events) + 1].src = src
    BY <1>1, <2>1, <2>2, <2>3
  <2>6. DOMAIN log = 1..Len(log)
    BY <2>2, <2>3
  <2>. QED
    BY <1>1, <1>2, <2>2, <2>4, <2>5, <2>6
<1>. QED
  BY <1>3, <1>4

LEMMA ProgressStarts == Init => PInv
<1>. SUFFICES ASSUME Init PROVE PInv
  OBVIOUS
<1>1. /\ events = <<Own("worker.attached")>> /\ Len(events) = 1 /\ DOMAIN events = {1}
      /\ out = <<>> /\ engine = Fresh /\ stored = Fresh /\ telemetry = {}
  BY DEF Init, Own
<1>2. Counters
  BY <1>1, StreamsAssumption DEF Init, Counters, GatewayStates, Snapshot, Fresh
<1>3. \A i \in Ingesters : ~Reads(i)
  BY DEF Init, Rest, Reads
<1>4. Distinct
  BY <1>1 DEF Distinct
<1>5. Known /\ AfterStop /\ ReadToItsEnd
  BY <1>1, <1>3 DEF Known, AfterStop, ReadToItsEnd, Init, Fresh, Ingesters
<1>. QED
  BY <1>2, <1>3, <1>4, <1>5 DEF PInv, Counting, Naming, ReadsAlone, LastRead

(* What the gateway adds to the log has no source.                         *)
Lengthens ==
  /\ events' \in Seq(Event) /\ Len(events) <= Len(events')
  /\ \A n \in 1..Len(events) : events'[n] = events[n]
  /\ \A n \in 1..Len(events') : n > Len(events) => events'[n].src = 0

LEMMA Adds ==
  ASSUME IInv, NEW kind \in GatewayKinds, events' = Append(events, Own(kind))
  PROVE  Lengthens
<1>1. events \in Seq(Event) /\ Own(kind) \in Event /\ Len(events) \in Nat /\ Own(kind).src = 0
  BY DEF IInv, Typed, Own, Event
<1>2. /\ events' \in Seq(Event) /\ Len(events') = Len(events) + 1
      /\ events'[Len(events) + 1] = Own(kind)
      /\ \A n \in 1..Len(events) : events'[n] = events[n]
  BY <1>1, AppendProperties
<1>3. \A n \in 1..Len(events') : n > Len(events) => n = Len(events) + 1
  BY <1>1, <1>2
<1>. QED
  BY <1>1, <1>2, <1>3 DEF Lengthens

LEMMA AddsNothing == ASSUME IInv, UNCHANGED events PROVE Lengthens
<1>1. events \in Seq(Event) /\ Len(events) \in Nat
  BY DEF IInv, Typed
<1>. QED
  BY <1>1 DEF Lengthens

(* The log grows, and the ingestion goes on from nowhere else.             *)
LEMMA SnapshotsKept ==
  ASSUME IInv, Counters, Lengthens, NEW x \in Snapshot
  PROVE  /\ x \in Snapshot'
         /\ x.active # 0 => x.active \in DOMAIN events /\ x.active \in DOMAIN events'
                            /\ events'[x.active] = events[x.active]
<1>1. DOMAIN events = 1..Len(events) /\ DOMAIN events' = 1..Len(events')
      /\ Len(events) \in Nat /\ Len(events') \in Nat /\ Len(events) <= Len(events')
  BY DEF IInv, Typed, Lengthens
<1>2. DOMAIN events \subseteq DOMAIN events'
  BY <1>1
<1>. QED
  BY <1>1, <1>2 DEF Snapshot, Lengthens

LEMMA DistinctKept == ASSUME IInv, Distinct, Lengthens PROVE Distinct'
<1>1. DOMAIN events = 1..Len(events) /\ DOMAIN events' = 1..Len(events')
      /\ Len(events) \in Nat /\ Len(events') \in Nat
  BY DEF IInv, Typed, Lengthens
<1>. SUFFICES ASSUME NEW k \in 1..Len(events'), NEW l \in 1..Len(events'),
                     events'[k].src # 0, events'[k].src = events'[l].src
              PROVE  k = l
  BY <1>1 DEF Distinct
<1>2. k \in 1..Len(events) /\ l \in 1..Len(events)
  BY <1>1 DEF Lengthens
<1>. QED
  BY <1>1, <1>2 DEF Distinct, Lengthens

\* Where an ingester may go: on, or to the beginning of the output.
GoesTo(i, s) ==
  /\ s.pc \in {"reading", "announcing"} =>
       \/ s.at = 0 /\ s.upto = Len(out) /\ (s.last => ~alive')
       \/ Reads(i) /\ s.at = ingest[i].at /\ s.upto = ingest[i].upto /\ s.last = ingest[i].last
  /\ s.pc \in {"idle", "requested", "stopping"} =>
       Waits(i) \/ \A j \in Ingesters \ {i} : ~Reads(j)

LEMMA Moves ==
  ASSUME IInv, PInv, NEW i \in Ingesters, NEW s \in Steps, ingest' = [ingest EXCEPT ![i] = s],
         UNCHANGED <<out, progress>>, ~alive => ~alive', Lengthens, GoesTo(i, s)
  PROVE  /\ Distinct' /\ Known'
         /\ \A j \in Ingesters : Counting(j)' /\ Naming(j)' /\ LastRead(j)'
<1>. UNCHANGED <<telemetry, engine, stored>>
  BY DEF progress
<1>t. /\ ingest \in [Ingesters -> Steps] /\ out \in Seq(Printed) /\ Len(out) \in Nat
      /\ engine \in Snapshot /\ stored \in Snapshot /\ Counters
  BY DEF IInv, Typed, PInv, Counters
<1>i. ingest'[i] = s /\ \A j \in Ingesters : j # i => ingest'[j] = ingest[j]
  BY <1>t
<1>1. Distinct'
  BY DistinctKept DEF PInv
<1>2. Known'
  BY DEF PInv, Known
<1>3. \A k : NamesLast(out, k, events, engine.active)
             => NamesLast(out, k, events', engine.active)
  <2>1. engine.active \in DOMAIN events => engine.active # 0
    BY DEF IInv, Typed
  <2>. QED
    BY <1>t, <2>1, SnapshotsKept DEF NamesLast
<1>4. ASSUME NEW j \in Ingesters PROVE Counting(j)' /\ Naming(j)' /\ LastRead(j)'
  <2>0. Counting(j) /\ Naming(j) /\ LastRead(j) /\ Known
    BY DEF PInv
  <2>1. CASE j # i
    <3>1. ingest'[j] = ingest[j]
      BY <1>i, <2>1
    <3>2. ReadsAlone(j)' => ReadsAlone(j)
      BY <1>i, <2>1, <3>1 DEF ReadsAlone, Reads, Waits, GoesTo
    <3>3. Counting(j)' /\ LastRead(j)'
      BY <2>0, <3>1 DEF Counting, LastRead, Reads
    <3>4. Naming(j)'
      BY <1>3, <2>0, <3>1, <3>2 DEF Naming
    <3>. QED
      BY <3>3, <3>4
  <2>2. CASE j = i /\ Reads(i) /\ s.at = ingest[i].at /\ s.upto = ingest[i].upto
             /\ s.last = ingest[i].last
    <3>1. ingest'[j].at = ingest[j].at /\ ingest'[j].upto = ingest[j].upto
          /\ ingest'[j].last = ingest[j].last /\ Reads(j)
      BY <1>i, <2>2
    <3>2. ReadsAlone(j)' => ReadsAlone(j)
      BY <1>i, <2>2 DEF ReadsAlone, Reads, Waits
    <3>3. Counting(j)' /\ LastRead(j)'
      BY <2>0, <3>1 DEF Counting, LastRead
    <3>4. Naming(j)'
      BY <1>3, <2>0, <3>1, <3>2 DEF Naming
    <3>. QED
      BY <3>3, <3>4
  <2>3. CASE j = i /\ s.at = 0 /\ s.upto = Len(out) /\ (s.last => ~alive')
    <3>1. ingest'[j].at = 0 /\ ingest'[j].upto = Len(out)
          /\ (ingest'[j].last => ~alive')
      BY <1>i, <2>3
    <3>2. Called(out, 0) = {} /\ Cardinality(Called(out, 0)) = 0 /\ 1..0 = {}
      <4>1. 0 \in Nat /\ 1..0 = {}
        OBVIOUS
      <4>. QED
        BY <4>1, CalledGrows
    <3>3. Counting(j)'
      BY <1>t, <3>1, <3>2 DEF Counting, Snapshot
    <3>. QED
      BY <2>0, <3>1, <3>2, <3>3 DEF Naming, LastRead, Known
  <2>4. CASE j = i /\ s.pc \notin {"reading", "announcing"}
    BY <1>i, <2>4 DEF Counting, Naming, LastRead, ReadsAlone, Reads
  <2>. QED
    BY <2>1, <2>2, <2>3, <2>4 DEF GoesTo
<1>. QED
  BY <1>1, <1>2, <1>4

(* An ingestion takes an envelope.                                         *)
LEMMA Counts ==
  ASSUME IInv, PInv, NEW i \in Ingesters, IngestOne(i)
  PROVE  /\ Counters' /\ Distinct' /\ Known'
         /\ \A j \in Ingesters : Counting(j)' /\ Naming(j)' /\ LastRead(j)'
<1>. DEFINE src == ingest[i].at + 1
            log == Logged(events, src)
            new == Consume(engine, src)
<1>1. /\ ingest \in [Ingesters -> Steps] /\ out \in Seq(Printed) /\ Len(out) \in Nat
      /\ engine \in Snapshot /\ Counters /\ Distinct /\ Known
  BY DEF IInv, Typed, PInv, Counters
<1>2. ingest[i] \in Steps /\ src \in 1..Len(out) /\ ingest[i].at \in Nat
      /\ ingest[i].at < ingest[i].upto /\ ingest[i].upto \in Nat
  BY <1>1 DEF IngestOne, Steps
<1>3. /\ events' = log /\ engine' = new /\ stored' = new /\ telemetry' = telemetry \cup {src}
      /\ UNCHANGED <<out, alive, gateway, status, polls, calls, crashes>>
  BY DEF IngestOne, Ingested, SaveProgress, AppendTelemetry, worker, bounds
<1>4. /\ ingest'[i].at = src /\ ingest'[i].upto = ingest[i].upto /\ ingest'[i].last = ingest[i].last
      /\ ingest'[i].pc = "announcing" /\ ingest[i].pc = "reading"
      /\ \A j \in Ingesters : j # i => ingest'[j] = ingest[j]
  BY <1>1, <1>2 DEF IngestOne, Steps
<1>5. /\ log \in Seq(Event) /\ Len(log) \in Nat /\ Len(events) \in Nat
      /\ Len(events) <= Len(log) /\ \A n \in 1..Len(events) : log[n] = events[n]
      /\ \A k, l \in DOMAIN log : log[k].src # 0 /\ log[k].src = log[l].src => k = l
      /\ Sequence(log, src) \in 1..Len(log) /\ log[Sequence(log, src)].src = src
  BY <1>1, <1>2, LoggedOnce
<1>6. /\ out[src] = "tool.started" =>
            new = [tools |-> engine.tools + 1, active |-> Sequence(log, src)]
      /\ out[src] # "tool.started" => new = engine
  BY DEF Consume
<1>. HIDE DEF log, new
<1>7. DOMAIN log = 1..Len(log) /\ DOMAIN events = 1..Len(events)
      /\ DOMAIN events \subseteq DOMAIN log
  BY <1>5, <1>1 DEF IInv, Typed
<1>8. /\ new \in [tools : Nat, active : DOMAIN log \cup {0}]
      /\ engine.tools \in Nat /\ new.tools \in Nat /\ engine.tools <= new.tools
      /\ out[src] = "tool.started" => new.tools = engine.tools + 1
  BY <1>1, <1>5, <1>6, <1>7 DEF Snapshot
<1>9. Counters'
  <2>1. src \in DOMAIN out
    BY <1>1, <1>2
  <2>. QED
    BY <1>1, <1>3, <1>8, <2>1 DEF Counters, Snapshot
<1>10. Distinct'
  BY <1>3, <1>5 DEF Distinct
<1>11. Known'
  <2>1. CASE out[src] = "tool.started"
    BY <1>2, <1>3, <2>1 DEF Known, Called
  <2>2. CASE out[src] # "tool.started"
    BY <1>1, <1>3, <1>6, <2>2 DEF Known
  <2>. QED
    BY <2>1, <2>2
<1>12. ASSUME NEW j \in Ingesters PROVE Counting(j)' /\ Naming(j)' /\ LastRead(j)'
  <2>0. Counting(j) /\ Naming(j) /\ LastRead(j)
    BY DEF PInv
  <2>1. CASE j # i
    <3>1. ingest'[j] = ingest[j] /\ ingest[j].at \in Nat
      BY <1>1, <1>4, <2>1 DEF Steps
    <3>2. ~ReadsAlone(j)'
      BY <1>4, <2>1 DEF ReadsAlone, Waits
    <3>3. Cardinality(Called(out, ingest[j].at)) \in Nat
      BY <3>1, CalledGrows
    <3>4. Counting(j)'
      BY <1>3, <1>8, <2>0, <3>1, <3>3 DEF Counting, Reads
    <3>. QED
      BY <1>3, <2>0, <3>1, <3>2, <3>4 DEF Naming, LastRead, Reads
  <2>2. CASE j = i
    <3>. DEFINE at == ingest[i].at
    <3>1. /\ Cardinality(Called(out, at)) \in Nat
          /\ Called(out, src) = IF out[src] = "tool.started"
                                THEN Called(out, at) \cup {src} ELSE Called(out, at)
          /\ Cardinality(Called(out, src)) = IF out[src] = "tool.started"
               THEN Cardinality(Called(out, at)) + 1 ELSE Cardinality(Called(out, at))
      BY <1>2, CalledGrows
    <3>2. Reads(i)
      BY <1>4 DEF Reads
    <3>3. new.tools >= Cardinality(Called(out, src))
      <4>1. engine.tools >= Cardinality(Called(out, at))
        BY <2>0, <2>2, <3>2 DEF Counting
      <4>. QED
        BY <1>6, <1>8, <3>1, <4>1
    <3>4. 1..src \subseteq telemetry'
      <4>1. 1..src = (1..at) \cup {src} /\ 1..at \subseteq telemetry
        BY <1>2, <2>0, <2>2, <3>2 DEF Counting
      <4>. QED
        BY <1>3, <4>1
    <3>5. Counting(i)'
      BY <1>3, <1>4, <3>3, <3>4 DEF Counting
    <3>6. LastRead(i)'
      BY <1>3, <1>4, <2>0, <2>2, <3>2 DEF LastRead
    <3>7. ASSUME ReadsAlone(i)'
          PROVE  /\ new.active # 0 => Called(out, ingest[i].upto) # {}
                 /\ Called(out, src) # {} => NamesLast(out, src, log, new.active)
      <4>1. ReadsAlone(i)
        BY <1>4, <3>2, <3>7 DEF ReadsAlone, Waits
      <4>2. /\ engine.active # 0 => Called(out, ingest[i].upto) # {}
            /\ Called(out, at) # {} => NamesLast(out, at, events, engine.active)
        BY <2>0, <2>2, <4>1 DEF Naming
      <4>3. CASE out[src] = "tool.started"
        <5>1. src \in Called(out, ingest[i].upto) /\ src \in Called(out, src)
          BY <1>2, <4>3 DEF Called
        <5>2. \A m \in Called(out, src) : m <= src
          BY <1>2 DEF Called
        <5>3. new.active \in DOMAIN log /\ log[new.active].src = src
          BY <1>5, <1>6, <1>7, <4>3
        <5>4. NamesLast(out, src, log, new.active)
          BY <1>3, <5>1, <5>2, <5>3 DEF NamesLast
        <5>. QED
          BY <5>1, <5>4
      <4>4. CASE out[src] # "tool.started"
        <5>1. new = engine /\ Called(out, src) = Called(out, at)
          BY <1>6, <3>1, <4>4
        <5>2. NamesLast(out, at, events, engine.active) => NamesLast(out, src, log, new.active)
          BY <1>3, <1>5, <1>7, <5>1 DEF NamesLast
        <5>. QED
          BY <4>2, <5>1, <5>2
      <4>. QED
        BY <4>3, <4>4
    <3>8. Naming(i)'
      BY <1>3, <1>4, <3>7 DEF Naming
    <3>. QED
      BY <2>2, <3>5, <3>6, <3>8
  <2>. QED
    BY <2>1, <2>2
<1>. QED
  BY <1>9, <1>10, <1>11, <1>12

LEMMA CountersKept ==
  ASSUME IInv, Counters, Lengthens, UNCHANGED <<out, progress>>,
         gateway' \in GatewayStates, alive' \in BOOLEAN, status' \in {"running", "ended"},
         polls' \in 0..MaxPolls, UNCHANGED <<calls, crashes>>
  PROVE  Counters'
<1>1. engine \in Snapshot /\ stored \in Snapshot /\ UNCHANGED <<out, telemetry, engine, stored>>
  BY DEF Counters, progress
<1>2. engine \in Snapshot' /\ stored \in Snapshot'
  BY <1>1, SnapshotsKept
<1>. QED
  BY <1>1, <1>2 DEF Counters

LEMMA RangeGrows == ASSUME IInv, Lengthens PROVE Range(events) \subseteq Range(events')
<1>1. DOMAIN events = 1..Len(events) /\ DOMAIN events' = 1..Len(events')
      /\ Len(events) \in Nat /\ Len(events') \in Nat
  BY DEF IInv, Typed, Lengthens
<1>. QED
  BY <1>1 DEF Lengthens, Range

(* An ingester goes on, and the run does not end by it.                    *)
LEMMA Onward ==
  ASSUME IInv, PInv, NEW i \in Ingesters, NEW s \in Steps, ingest' = [ingest EXCEPT ![i] = s],
         UNCHANGED <<out, progress, status>>, ~alive => ~alive', Lengthens, GoesTo(i, s),
         Counters', AfterStop', ingest[i].pc # "over"
  PROVE  PInv'
<1>1. ReadToItsEnd'
  <2>1. Range(events) \subseteq Range(events')
    BY RangeGrows
  <2>2. UNCHANGED <<telemetry, engine, stored>> /\ i \in Ingesters
    BY DEF progress
  <2>. QED
    BY <2>1, <2>2 DEF PInv, ReadToItsEnd
<1>. QED
  BY <1>1, Moves DEF PInv

(* The last reading has read all there is when the run is settled by it.   *)
LEMMA SettlesRead ==
  ASSUME IInv, PInv, NEW i \in Ingesters, Settle(i), UNCHANGED <<gateway, out, alive, progress, bounds>>,
         ingest[i].pc = "reading", ingest[i].last, ingest[i].at = ingest[i].upto
  PROVE  PInv'
<1>. DEFINE s == Rest("ending")
<1>t. /\ UNCHANGED <<telemetry, engine, stored, polls, calls, crashes>>
      /\ Counters /\ AfterStop /\ LastRead(i) /\ Counting(i) /\ ReadToItsEnd
      /\ ingest \in [Ingesters -> Steps] /\ engine \in Snapshot
      /\ out \in Seq(Printed) /\ Len(out) \in Nat
  BY DEF progress, bounds, PInv, IInv, Typed, Counters
<1>1. s \in Steps /\ s.pc = "ending" /\ ingest' = [ingest EXCEPT ![i] = s]
  BY Standings DEF Settle, Rest
<1>2. Lengthens
  <2>1. CASE status = "running"
    BY <2>1, Adds DEF Settle, GatewayKinds
  <2>2. CASE status # "running"
    BY <2>2, AddsNothing DEF Settle, run
  <2>. QED
    BY <2>1, <2>2
<1>3. status' \in {"running", "ended"} /\ status \in {"running", "ended"}
  BY <1>t DEF Settle, run, Counters
<1>4. Counters'
  BY <1>t, <1>2, <1>3, CountersKept DEF Counters
<1>5. GoesTo(i, s)
  BY <1>1 DEF GoesTo
<1>. HIDE DEF s
<1>6. AfterStop'
  BY <1>t, <1>1 DEF AfterStop, Reads, Ingesters
<1>7. ReadToItsEnd'
  <2>1. ~alive /\ ingest[i].upto = Len(out)
    BY <1>t DEF LastRead, Reads
  <2>2. /\ 1..Len(out) \subseteq telemetry /\ engine.tools >= Cardinality(Called(out, Len(out)))
        /\ Len(out) > 0 => stored = engine
    BY <1>t, <2>1 DEF Counting, Reads
  <2>3. stored.tools >= Cardinality(Called(out, Len(out)))
    <3>1. CASE Len(out) > 0
      BY <2>2, <3>1
    <3>2. CASE Len(out) = 0
      <4>1. Cardinality(Called(out, 0)) = 0 /\ stored.tools \in Nat
        BY <1>t, CalledGrows DEF Counters, Snapshot
      <4>. QED
        BY <3>2, <4>1
    <3>. QED
      BY <1>t, <3>1, <3>2
  <2>4. DOMAIN out = 1..Len(out)
    BY <1>t
  <2>5. UNCHANGED <<out, alive, telemetry, engine, stored>>
    BY <1>t
  <2>. QED
    BY <2>1, <2>2, <2>3, <2>4, <2>5 DEF ReadToItsEnd
<1>. QED
  BY <1>1, <1>2, <1>4, <1>5, <1>6, <1>7, Moves DEF PInv

(* The worker prints while nobody's last reading is under way.             *)
LEMMA PrintsOn == ASSUME IInv, PInv, NEW kind \in Printed, Emit(kind) PROVE PInv'
<1>1. /\ out' = Append(out, kind) /\ alive /\ out \in Seq(Printed) /\ Len(out) \in Nat
      /\ UNCHANGED <<gateway, alive, status, events, telemetry, engine, stored, ingest>>
      /\ UNCHANGED <<polls, calls, crashes>>
      /\ ingest \in [Ingesters -> Steps]
  BY DEF Emit, run, progress, bounds, IInv, Typed
<1>2. /\ Len(out') = Len(out) + 1 /\ \A s \in 1..Len(out) : out'[s] = out[s]
      /\ DOMAIN out = 1..Len(out) /\ DOMAIN out' = 1..(Len(out) + 1)
  BY <1>1, AppendProperties
<1>3. \A k \in 0..Len(out) : Called(out', k) = Called(out, k)
  <2>. TAKE k \in 0..Len(out)
  <2>. DEFINE p == out'
  <2>1. k \in Nat /\ \A s \in 1..k : p[s] = out[s]
    BY <1>1, <1>2
  <2>. HIDE DEF p
  <2>2. Called(p, k) = Called(out, k)
    BY <2>1, CalledStays
  <2>. QED
    BY <2>2 DEF p
<1>4. Called(out, Len(out)) \subseteq Called(out', Len(out'))
  BY <1>1, <1>2 DEF Called
<1>5. Counters' /\ Distinct' /\ AfterStop'
  BY <1>1, <1>2 DEF PInv, Counters, Snapshot, Distinct, AfterStop, Reads
<1>6. Known'
  BY <1>1, <1>4 DEF PInv, Known
<1>7. ASSUME NEW i \in Ingesters PROVE Counting(i)' /\ Naming(i)' /\ LastRead(i)'
  <2>1. /\ ingest[i].at \in 0..Len(out) /\ ingest[i].upto \in 0..Len(out)
        /\ Counting(i) /\ Naming(i) /\ LastRead(i)
    BY <1>1 DEF PInv, Steps
  <2>2. /\ Called(out', ingest[i].at) = Called(out, ingest[i].at)
        /\ Called(out', ingest[i].upto) = Called(out, ingest[i].upto)
    BY <1>3, <2>1
  <2>3. Counting(i)' /\ LastRead(i)'
    BY <1>1, <2>1, <2>2 DEF Counting, LastRead, Reads
  <2>4. Naming(i)'
    BY <1>1, <2>1, <2>2 DEF Naming, ReadsAlone, Reads, Waits, NamesLast
  <2>. QED
    BY <2>3, <2>4
<1>8. ReadToItsEnd'
  BY <1>1 DEF PInv, ReadToItsEnd
<1>. QED
  BY <1>5, <1>6, <1>7, <1>8 DEF PInv

LEMMA OneCounted == ASSUME IInv, PInv, NEW i \in Ingesters, IngestOne(i) PROVE PInv'
<1>1. /\ Counters' /\ Distinct' /\ Known'
      /\ \A j \in Ingesters : Counting(j)' /\ Naming(j)' /\ LastRead(j)'
  BY Counts
<1>2. /\ ingest \in [Ingesters -> Steps] /\ out \in Seq(Printed) /\ Len(out) \in Nat
      /\ ingest[i].pc = "reading" /\ engine \in Snapshot /\ ingest[i].at + 1 \in 1..Len(out)
      /\ Distinct
  BY DEF IInv, Typed, PInv, Counters, IngestOne, Steps
<1>3. AfterStop'
  <2>1. \A j \in Ingesters : /\ ingest'[j].last = ingest[j].last /\ (Reads(j)' => Reads(j))
                             /\ ingest[j].pc = "idle" => ingest'[j].pc = "idle"
    BY <1>2 DEF IngestOne, Reads, Steps
  <2>2. "cancel" \in Ingesters /\ UNCHANGED <<alive, gateway>>
    BY DEF Ingesters, IngestOne, worker
  <2>. QED
    BY <2>1, <2>2 DEF PInv, AfterStop
<1>4. ReadToItsEnd'
  <2>. DEFINE src == ingest[i].at + 1
              log == Logged(events, src)
              new == Consume(engine, src)
  <2>1. /\ events' = log /\ engine' = new /\ stored' = new /\ telemetry' = telemetry \cup {src}
        /\ UNCHANGED <<out, alive, status>>
    BY DEF IngestOne, Ingested, SaveProgress, AppendTelemetry, worker
  <2>2. /\ Len(log) \in Nat /\ Len(events) \in Nat /\ Len(events) <= Len(log)
        /\ \A n \in 1..Len(events) : log[n] = events[n]
        /\ log \in Seq(Event) /\ events \in Seq(Event)
    BY <1>2, LoggedOnce DEF IInv, Typed
  <2>3. new.tools \in Nat /\ engine.tools \in Nat /\ engine.tools <= new.tools
    BY <1>2 DEF Consume, Snapshot
  <2>. HIDE DEF log, new
  <2>4. Range(events) \subseteq Range(log)
    BY <2>2 DEF Range
  <2>5. Cardinality(Called(out, Len(out))) \in Nat
    BY <1>2, CalledGrows
  <2>. SUFFICES ASSUME status' = "ended", Own("backend.monitor_error") \notin Range(events')
                PROVE  /\ ~alive' /\ DOMAIN out' \subseteq telemetry'
                       /\ stored'.tools >= Cardinality(Called(out', Len(out')))
                       /\ engine'.tools >= Cardinality(Called(out', Len(out')))
    BY DEF ReadToItsEnd
  <2>6. status = "ended" /\ Own("backend.monitor_error") \notin Range(events)
    BY <2>1, <2>4
  <2>7. /\ ~alive /\ DOMAIN out \subseteq telemetry
        /\ engine.tools >= Cardinality(Called(out, Len(out)))
    BY <1>2, <2>6 DEF PInv, ReadToItsEnd
  <2>8. new.tools >= Cardinality(Called(out, Len(out)))
    BY <2>3, <2>5, <2>7
  <2>. QED
    BY <2>1, <2>7, <2>8
<1>. QED
  BY <1>1, <1>3, <1>4 DEF PInv

LEMMA OneAnnounced == ASSUME IInv, PInv, NEW i \in Ingesters, Announce(i) PROVE PInv'
<1>. DEFINE s == [ingest[i] EXCEPT !.pc = Resumed(ingest[i].pc)]
<1>t. /\ ingest \in [Ingesters -> Steps] /\ Counters /\ AfterStop
      /\ ingest[i].pc \in {"announcing", "requested", "ending"}
      /\ UNCHANGED <<out, progress, alive, status, events, polls, calls, crashes>>
  BY DEF IInv, Typed, PInv, Announce, worker, run, bounds
<1>1. /\ s \in Steps /\ s.at = ingest[i].at /\ s.upto = ingest[i].upto /\ s.last = ingest[i].last
      /\ s.pc \in {"reading", "stopping", "over"}
      /\ (s.pc = "reading" => ingest[i].pc = "announcing")
      /\ (s.pc = "stopping" => ingest[i].pc = "requested")
  BY <1>t DEF Steps, Resumed
<1>2. ingest' = [ingest EXCEPT ![i] = s]
  BY DEF Announce
<1>3. Lengthens
  BY <1>t, AddsNothing
<1>. HIDE DEF s
<1>4. GoesTo(i, s)
  BY <1>1 DEF GoesTo, Reads, Waits
<1>5. gateway' \in {gateway, "up"}
  BY DEF Announce
<1>6. Counters'
  BY <1>t, <1>3, <1>5, CountersKept DEF Counters, GatewayStates
<1>7. AfterStop'
  <2>1. \A j \in Ingesters : /\ Reads(j)' => Reads(j) /\ ingest'[j].last = ingest[j].last
                             /\ ingest[j].pc = "idle" => ingest'[j].pc = "idle"
    BY <1>t, <1>1, <1>2 DEF Reads
  <2>2. "cancel" \in Ingesters
    BY DEF Ingesters
  <2>. QED
    BY <1>t, <1>5, <2>1, <2>2 DEF AfterStop
<1>. QED
  BY <1>t, <1>1, <1>2, <1>3, <1>4, <1>6, <1>7, Onward

LEMMA TwoAppended ==
  ASSUME NEW log \in Seq(Event), NEW two \in Seq(Event), Len(two) = 2
  PROVE  /\ log \o two \in Seq(Event) /\ Len(log \o two) = Len(log) + 2
         /\ \A n \in 1..Len(log) : (log \o two)[n] = log[n]
         /\ (log \o two)[Len(log) + 1] = two[1] /\ (log \o two)[Len(log) + 2] = two[2]
<1>1. /\ log \o two \in Seq(Event) /\ Len(log \o two) = Len(log) + Len(two)
      /\ \A n \in 1 .. Len(log) + Len(two) :
           (log \o two)[n] = IF n <= Len(log) THEN log[n] ELSE two[n - Len(log)]
  BY ConcatProperties
<1>2. /\ Len(log) \in Nat /\ Len(log) + 1 - Len(log) = 1 /\ Len(log) + 2 - Len(log) = 2
      /\ Len(log) + 1 \in 1 .. Len(log) + Len(two) /\ Len(log) + 2 \in 1 .. Len(log) + Len(two)
      /\ ~(Len(log) + 1 <= Len(log)) /\ ~(Len(log) + 2 <= Len(log))
      /\ \A n \in 1..Len(log) : n \in 1 .. Len(log) + Len(two) /\ n <= Len(log)
  OBVIOUS
<1>. QED
  BY <1>1, <1>2

LEMMA MonitorKeepsUp == ASSUME IInv, PInv, MonitorSteps \/ MonitorError PROVE PInv'
<1>m. "monitor" \in Ingesters /\ "cancel" \in Ingesters /\ Ingesters = {"monitor", "cancel"}
  BY DEF Ingesters
<1>t. /\ ingest \in [Ingesters -> Steps] /\ Counters /\ AfterStop /\ Len(out) \in Nat
  BY DEF IInv, Typed, PInv
<1>1. CASE Poll
  <2>1. PICK s \in {Rest("over"), Reading(Len(out), FALSE)} :
          ingest' = [ingest EXCEPT !["monitor"] = s]
    BY <1>1 DEF Poll
  <2>2. s \in Steps
    BY <2>1, Standings
  <2>3. /\ ingest["monitor"].pc = "idle"
        /\ UNCHANGED <<gateway, out, alive, progress, status, events, calls, crashes>>
        /\ polls' \in 0..MaxPolls
    <3>1. MaxPolls \in Nat /\ polls \in 0..MaxPolls
      BY <1>t, StreamsAssumption DEF Counters
    <3>2. polls' = polls \/ (polls' = polls + 1 /\ polls < MaxPolls)
      BY <1>1 DEF Poll
    <3>3. polls' \in 0..MaxPolls
      BY <3>1, <3>2
    <3>. QED
      BY <1>1, <3>3 DEF Poll, worker, run
  <2>4. Lengthens
    BY <2>3, AddsNothing
  <2>5. Counters'
    BY <1>t, <2>3, <2>4, CountersKept DEF Counters
  <2>6. AfterStop'
    <3>1. ingest'["cancel"] = ingest["cancel"]
      BY <1>t, <2>1
    <3>. QED
      BY <1>t, <2>3, <3>1 DEF AfterStop, Reads
  <2>7. GoesTo("monitor", s)
    BY <2>1 DEF GoesTo, Rest, Reading
  <2>. QED
    BY <1>m, <2>1, <2>2, <2>3, <2>4, <2>5, <2>6, <2>7, Onward
<1>2. CASE Inspect
  <2>. DEFINE back == alive \/ gateway = "starting"
  <2>1. PICK s \in {Rest("idle"), Reading(Len(out), TRUE)} :
          /\ ingest' = [ingest EXCEPT !["monitor"] = s]
          /\ back => s = Rest("idle")
          /\ ~back => s = Reading(Len(out), TRUE)
    BY <1>2 DEF Inspect
  <2>2. s \in Steps
    BY <2>1, Standings
  <2>3. /\ ingest["monitor"].pc = "reading" /\ gateway' = "up"
        /\ UNCHANGED <<out, alive, progress, status, events, polls, calls, crashes>>
    BY <1>2 DEF Inspect, worker, run, bounds
  <2>4. Lengthens
    BY <2>3, AddsNothing
  <2>5. Counters'
    BY <1>t, <2>3, <2>4, CountersKept DEF Counters, GatewayStates
  <2>6. ingest'["cancel"] = ingest["cancel"]
    BY <1>m, <1>t, <2>1
  <2>7. AfterStop'
    BY <1>t, <2>3, <2>6 DEF AfterStop, Reads
  <2>8. GoesTo("monitor", s)
    <3>1. back => ~Reads("cancel")
      BY <1>t DEF AfterStop, Reads
    <3>2. CASE back
      BY <1>m, <2>1, <3>1, <3>2 DEF GoesTo, Rest
    <3>3. CASE ~back
      BY <2>1, <2>3, <3>3 DEF GoesTo, Reading
    <3>. QED
      BY <3>2, <3>3
  <2>. QED
    BY <1>m, <2>1, <2>2, <2>3, <2>4, <2>5, <2>7, <2>8, Onward
<1>3. CASE Finalize
  <2>1. UNCHANGED <<gateway, out, alive, progress, bounds>>
    BY <1>3 DEF Finalize, worker
  <2>. QED
    BY <1>3, <1>m, <2>1, SettlesRead DEF Finalize
<1>4. CASE MonitorError
  <2>. DEFINE two == <<Own("backend.monitor_error"), Own("ended")>>
              s == Rest("ending")
  <2>1. /\ events' = events \o two /\ status' = "ended"
        /\ ingest' = [ingest EXCEPT !["monitor"] = s]
        /\ UNCHANGED <<gateway, out, alive, progress, polls, calls, crashes>>
    BY <1>4 DEF MonitorError, worker, bounds
  <2>2. /\ two \in Seq(Event) /\ Len(two) = 2 /\ events \in Seq(Event) /\ Len(events) \in Nat
        /\ two[1] = Own("backend.monitor_error") /\ two[2] = Own("ended")
        /\ two[1].src = 0 /\ two[2].src = 0
    BY DEF Own, Event, GatewayKinds, IInv, Typed
  <2>. HIDE DEF two
  <2>3. /\ events' \in Seq(Event) /\ Len(events') = Len(events) + 2
        /\ \A n \in 1..Len(events) : events'[n] = events[n]
        /\ events'[Len(events) + 1] = two[1] /\ events'[Len(events) + 2] = two[2]
    BY <2>1, <2>2, TwoAppended
  <2>4. \A n \in 1..Len(events') : n > Len(events) => n = Len(events) + 1 \/ n = Len(events) + 2
    BY <2>2, <2>3
  <2>5. Lengthens
    BY <2>2, <2>3, <2>4 DEF Lengthens
  <2>6. Own("backend.monitor_error") \in Range(events')
    <3>1. Len(events) + 1 \in DOMAIN events'
      BY <2>2, <2>3
    <3>. QED
      BY <2>2, <2>3, <3>1 DEF Range
  <2>7. Counters'
    BY <1>t, <2>1, <2>5, CountersKept DEF Counters
  <2>8. AfterStop'
    BY <1>t, <1>m, <2>1 DEF AfterStop, Reads
  <2>9. s \in Steps /\ GoesTo("monitor", s)
    BY Standings DEF GoesTo, Rest
  <2>10. ReadToItsEnd'
    BY <2>6 DEF ReadToItsEnd
  <2>. HIDE DEF s
  <2>. QED
    BY <1>m, <2>1, <2>5, <2>7, <2>8, <2>9, <2>10, Moves DEF PInv
<1>. QED
  BY <1>m, <1>1, <1>2, <1>3, <1>4, OneCounted, OneAnnounced DEF MonitorSteps

LEMMA CancelKeepsUp == ASSUME IInv, PInv, RequestCancel \/ CancelSteps PROVE PInv'
<1>m. "cancel" \in Ingesters
  BY DEF Ingesters
<1>t. ingest \in [Ingesters -> Steps] /\ Counters /\ AfterStop
  BY DEF IInv, Typed, PInv
<1>1. CASE RequestCancel
  <2>. DEFINE s == Rest("requested")
  <2>1. /\ ingest' = [ingest EXCEPT !["cancel"] = s] /\ ingest["cancel"].pc = "idle"
        /\ events' = Append(events, Own("run.cancel_requested")) /\ gateway = "up"
        /\ UNCHANGED <<gateway, out, alive, progress, status, polls, calls, crashes>>
    BY <1>1 DEF RequestCancel, worker, bounds
  <2>2. Lengthens
    BY <2>1, Adds DEF GatewayKinds
  <2>3. Counters'
    BY <1>t, <2>1, <2>2, CountersKept DEF Counters
  <2>4. s \in Steps /\ s.pc = "requested" /\ GoesTo("cancel", s)
    BY <2>1, Standings DEF GoesTo, Rest, Waits
  <2>. HIDE DEF s
  <2>5. AfterStop'
    BY <1>m, <1>t, <2>1, <2>4 DEF AfterStop, Reads
  <2>. QED
    BY <1>m, <2>1, <2>2, <2>3, <2>4, <2>5, Onward
<1>2. CASE Stop
  <2>. DEFINE s == Reading(Len(out), TRUE)
  <2>1. /\ ingest' = [ingest EXCEPT !["cancel"] = s] /\ ingest["cancel"].pc = "stopping"
        /\ alive' = FALSE
        /\ UNCHANGED <<gateway, out, progress, status, events, polls, calls, crashes>>
    BY <1>2 DEF Stop, run, bounds
  <2>2. Lengthens
    BY <2>1, AddsNothing
  <2>3. Counters'
    BY <1>t, <2>1, <2>2, CountersKept DEF Counters
  <2>4. s \in Steps /\ s.pc = "reading" /\ s.last /\ GoesTo("cancel", s)
    BY <2>1, Standings DEF GoesTo, Reading
  <2>. HIDE DEF s
  <2>5. AfterStop'
    BY <1>m, <1>t, <2>1, <2>4 DEF AfterStop, Reads
  <2>. QED
    BY <1>m, <2>1, <2>2, <2>3, <2>4, <2>5, Onward
<1>3. CASE Cancelled
  <2>1. UNCHANGED <<gateway, out, alive, progress, bounds>>
    BY <1>3 DEF Cancelled, worker
  <2>2. ingest["cancel"].last
    BY <1>t, <1>3 DEF Cancelled, AfterStop, Reads
  <2>. QED
    BY <1>3, <1>m, <2>1, <2>2, SettlesRead DEF Cancelled
<1>. QED
  BY <1>m, <1>1, <1>2, <1>3, OneCounted, OneAnnounced DEF CancelSteps

(* The death of the gateway takes the engine with its counters, and may    *)
(* leave one round of an ingestion undone in part.                         *)
LEMMA CrashKeepsUp == ASSUME IInv, PInv, Crash PROVE PInv'
<1>t. /\ ingest \in [Ingesters -> Steps] /\ Counters /\ Distinct /\ ReadToItsEnd
      /\ out \in Seq(Printed) /\ Len(out) \in Nat
      /\ events \in Seq(Event) /\ Len(events) \in Nat /\ DOMAIN events = 1..Len(events)
  BY DEF IInv, Typed, PInv
<1>1. /\ gateway' = "down" /\ crashes < MaxCrashes /\ crashes' = crashes + 1 /\ engine' = Fresh
      /\ ingest' = [i \in Ingesters |-> Rest("over")]
      /\ UNCHANGED <<out, alive, status, telemetry, polls, calls>>
  BY DEF Crash, Torn, worker
<1>2. \A i \in Ingesters : ~Reads(i)' /\ ingest'[i].pc = "over"
  BY <1>1 DEF Reads, Rest
<1>3. /\ events' \in Seq(Event) /\ Len(events) <= Len(events') /\ Distinct'
      /\ \A n \in 1..Len(events) : events'[n] = events[n]
      /\ stored' \in [tools : Nat, active : DOMAIN events' \cup {0}]
      /\ stored'.tools = stored.tools
         \/ (engine.tools <= stored'.tools /\ ~ \A i \in Ingesters : ingest[i].pc = "over")
  <2>1. CASE UNCHANGED <<events, stored>>
    BY <1>t, <2>1 DEF Distinct, Counters, Snapshot
  <2>2. CASE Torn
    <3>1. PICK i \in Ingesters :
            /\ ingest[i].pc = "reading" /\ ingest[i].at < ingest[i].upto
            /\ events' = Logged(events, ingest[i].at + 1)
            /\ stored' \in {stored, Consume(engine, ingest[i].at + 1)}
      BY <2>2 DEF Torn
    <3>. DEFINE src == ingest[i].at + 1
                log == Logged(events, src)
                new == Consume(engine, src)
    <3>2. src \in 1..Len(out)
      <4>1. ingest[i] \in Steps
        BY <1>t
      <4>. QED
        BY <1>t, <3>1, <4>1 DEF Steps
    <3>3. /\ log \in Seq(Event) /\ Len(log) \in Nat /\ Len(events) <= Len(log)
          /\ \A n \in 1..Len(events) : log[n] = events[n]
          /\ \A k, l \in DOMAIN log : log[k].src # 0 /\ log[k].src = log[l].src => k = l
          /\ Sequence(log, src) \in 1..Len(log)
      BY <1>t, <3>2, LoggedOnce
    <3>4. /\ engine \in Snapshot /\ stored \in Snapshot /\ i \in Ingesters
          /\ events' = log /\ stored' \in {stored, new}
      BY <1>t, <3>1 DEF Counters
    <3>5. new = engine \/ new = [tools |-> engine.tools + 1, active |-> Sequence(log, src)]
      BY DEF Consume
    <3>. HIDE DEF log, new
    <3>6. DOMAIN log = 1..Len(log) /\ DOMAIN events \subseteq DOMAIN log
      BY <1>t, <3>3
    <3>7. /\ new \in [tools : Nat, active : DOMAIN log \cup {0}] /\ engine.tools <= new.tools
          /\ stored \in [tools : Nat, active : DOMAIN log \cup {0}]
      BY <3>3, <3>4, <3>5, <3>6 DEF Snapshot
    <3>8. ~ \A j \in Ingesters : ingest[j].pc = "over"
      BY <3>1
    <3>9. Distinct'
      BY <3>3, <3>4 DEF Distinct
    <3>. QED
      BY <3>3, <3>4, <3>7, <3>8, <3>9
  <2>. QED
    BY <2>1, <2>2 DEF Crash
<1>4. Counters'
  <2>1. crashes' \in 0..MaxCrashes
    <3>1. MaxCrashes \in Nat /\ crashes \in 0..MaxCrashes
      BY <1>t, StreamsAssumption DEF Counters
    <3>. QED
      BY <1>1, <3>1
  <2>. QED
    BY <1>t, <1>1, <1>3, <2>1 DEF Counters, GatewayStates, Snapshot, Fresh
<1>5. Known'
  BY <1>1 DEF Known, Fresh
<1>6. ReadToItsEnd'
  <2>1. Range(events) \subseteq Range(events')
    <3>1. DOMAIN events' = 1..Len(events') /\ Len(events') \in Nat
      BY <1>3
    <3>. QED
      BY <1>t, <1>3, <3>1 DEF Range
  <2>2. Cardinality(Called(out, Len(out))) \in Nat
    BY <1>t, CalledGrows
  <2>3. engine.tools \in Nat /\ stored'.tools \in Nat
    BY <1>t, <1>3 DEF Counters, Snapshot
  <2>. SUFFICES ASSUME status' = "ended", Own("backend.monitor_error") \notin Range(events')
                PROVE  /\ ~alive' /\ DOMAIN out' \subseteq telemetry'
                       /\ stored'.tools >= Cardinality(Called(out', Len(out')))
    BY <1>2 DEF ReadToItsEnd
  <2>4. status = "ended" /\ Own("backend.monitor_error") \notin Range(events)
    BY <1>1, <2>1
  <2>5. /\ ~alive /\ DOMAIN out \subseteq telemetry
        /\ stored.tools >= Cardinality(Called(out, Len(out)))
        /\ \/ engine.tools >= Cardinality(Called(out, Len(out)))
           \/ \A i \in Ingesters : ingest[i].pc = "over"
    BY <1>t, <2>4 DEF ReadToItsEnd
  <2>6. stored'.tools >= Cardinality(Called(out, Len(out)))
    BY <1>3, <2>2, <2>3, <2>5
  <2>. QED
    BY <1>1, <2>5, <2>6
<1>7. AfterStop'
  BY <1>1, <1>2 DEF AfterStop, Ingesters
<1>. QED
  BY <1>2, <1>3, <1>4, <1>5, <1>6, <1>7 DEF PInv, Counting, Naming, ReadsAlone, LastRead

LEMMA BootKeepsUp == ASSUME IInv, PInv, Boot PROVE PInv'
<1>t. /\ ingest \in [Ingesters -> Steps] /\ Counters /\ Distinct /\ ReadToItsEnd /\ AfterStop
      /\ Known /\ Len(out) \in Nat
      /\ UNCHANGED <<out, status, events, telemetry, engine, stored, polls, calls, crashes>>
      /\ \A i \in Ingesters : Counting(i) /\ Naming(i) /\ LastRead(i)
  BY DEF IInv, Typed, PInv, Boot, run, progress, bounds
<1>1. Counters'
  BY <1>t DEF Boot, Counters, Snapshot, GatewayStates
<1>2. Distinct' /\ Known'
  BY <1>t DEF Distinct, Known
<1>3. CASE status = "running"
  <2>1. /\ gateway' = "starting" /\ UNCHANGED alive
        /\ ingest' = [ingest EXCEPT !["monitor"] = Reading(Len(out), ~alive),
                                    !["cancel"] = Rest("idle")]
    BY <1>3 DEF Boot
  <2>2. Ingesters = {"monitor", "cancel"}
    BY DEF Ingesters
  <2>3. /\ ingest'["monitor"] = Reading(Len(out), ~alive)
        /\ ingest'["cancel"] = Rest("idle")
    BY <1>t, <2>1, <2>2
  <2>4. AfterStop'
    BY <2>3 DEF AfterStop, Reads, Rest
  <2>5. ReadToItsEnd'
    BY <1>3, <1>t DEF ReadToItsEnd
  <2>6. Called(out, 0) = {} /\ Cardinality(Called(out, 0)) = 0
    BY CalledGrows
  <2>7. Counting("monitor")' /\ Naming("monitor")' /\ LastRead("monitor")'
    <3>1. /\ ingest'["monitor"].at = 0 /\ ingest'["monitor"].upto = Len(out)
          /\ (ingest'["monitor"].last => ~alive)
      <4>1. Reading(Len(out), ~alive).last = (~alive)
        BY Zenon DEF Reading
      <4>2. ingest'["monitor"].last = (~alive)
        BY <2>3, <4>1, Zenon
      <4>3. ingest'["monitor"].at = 0 /\ ingest'["monitor"].upto = Len(out)
        BY <2>3 DEF Reading
      <4>. QED
        BY <4>2, <4>3, Zenon
    <3>2. 1..0 = {} /\ engine.tools \in Nat
      BY <1>t DEF Counters, Snapshot
    <3>3. Counting("monitor")'
      BY <1>t, <2>6, <3>1, <3>2 DEF Counting
    <3>. QED
      BY <1>t, <2>1, <2>6, <3>1, <3>3 DEF Naming, LastRead, Known
  <2>8. Counting("cancel")' /\ Naming("cancel")' /\ LastRead("cancel")'
    BY <2>3 DEF Rest, Counting, Naming, ReadsAlone, LastRead, Reads
  <2>9. \A i \in Ingesters : Counting(i)' /\ Naming(i)' /\ LastRead(i)'
    BY <2>2, <2>7, <2>8
  <2>. QED
    BY <1>1, <1>2, <2>4, <2>5, <2>9 DEF PInv
<1>4. CASE status # "running"
  <2>1. gateway' = "up" /\ alive' = FALSE /\ UNCHANGED ingest
    BY <1>4 DEF Boot
  <2>2. AfterStop' /\ ReadToItsEnd'
    BY <1>t, <2>1 DEF AfterStop, ReadToItsEnd, Reads
  <2>3. \A i \in Ingesters : Counting(i)' /\ Naming(i)' /\ LastRead(i)'
    BY <1>t, <2>1
       DEF Counting, Naming, LastRead, Reads, ReadsAlone, Waits
  <2>. QED
    BY <1>1, <1>2, <2>2, <2>3 DEF PInv
<1>. QED
  BY <1>3, <1>4

(* What leaves the progress and the ingesters alone.                       *)
LEMMA Elsewhere ==
  ASSUME IInv, PInv,
         UNCHANGED <<gateway, out, status, events, telemetry, engine, stored, ingest, polls, crashes>>,
         alive' = alive \/ alive' = FALSE, calls' \in 0..MaxCalls
  PROVE  PInv'
<1>1. alive' \in BOOLEAN /\ (~alive => ~alive')
  <2>1. alive \in BOOLEAN
    BY DEF PInv, Counters
  <2>2. CASE alive' = alive
    BY <2>1, <2>2, Zenon
  <2>3. CASE alive' = FALSE
    BY <2>3, Zenon
  <2>. QED
    BY <2>2, <2>3
<1>. QED
  BY <1>1 DEF PInv, Counters, Snapshot, Distinct, Known, Counting, Naming, ReadsAlone, Reads,
            Waits, LastRead, AfterStop, ReadToItsEnd

LEMMA ProgressPreserved == IInv /\ PInv /\ [Next]_vars => PInv'
<1>. SUFFICES ASSUME IInv, PInv, [Next]_vars PROVE PInv'
  OBVIOUS
<1>t. calls \in 0..MaxCalls /\ MaxCalls \in Nat
  BY StreamsAssumption DEF PInv, Counters
<1>1. CASE UNCHANGED vars
  BY <1>1, <1>t, Elsewhere DEF vars
<1>2. CASE Exit
  BY <1>2, <1>t, Elsewhere DEF Exit, run, progress, bounds
<1>3. CASE StreamSteps \/ Disconnect
  BY <1>3, <1>t, Elsewhere DEF StreamSteps, Send, Sent, Wake, Disconnect, worker, run, progress,
     bounds
<1>4. ASSUME NEW stream \in {"run", "control"}, Connect(stream) PROVE PInv'
  <2>1. calls' \in 0..MaxCalls
    BY <1>4, <1>t DEF Connect
  <2>. QED
    BY <1>4, <2>1, Elsewhere DEF Connect, worker, run, progress
<1>. QED
  BY <1>1, <1>2, <1>3, <1>4, PrintsOn, MonitorKeepsUp, CancelKeepsUp, CrashKeepsUp, BootKeepsUp
     DEF Next

LEMMA ProgressShown == IInv /\ PInv => ProgressKeepsUp
<1>. SUFFICES ASSUME IInv, PInv PROVE ProgressKeepsUp
  OBVIOUS
<1>t. /\ ingest \in [Ingesters -> Steps] /\ Counters /\ Distinct /\ ReadToItsEnd
      /\ Len(out) \in Nat
  BY DEF IInv, Typed, PInv
<1>1. \A k \in Nat : Tools(k) = Called(out, k)
  BY DEF Tools, Called
<1>2. ASSUME NEW i \in Ingesters, ingest[i].pc = "reading", ingest[i].at = ingest[i].upto
      PROVE  /\ stored.tools >= Cardinality(Tools(ingest[i].upto))
             /\ 1..ingest[i].upto \subseteq telemetry
             /\ \/ ingest[i].upto = 0
                \/ \E j \in Ingesters \ {i} :
                     ingest[j].pc \notin {"idle", "requested", "stopping"}
                \/ stored.active = Latest(ingest[i].upto)
  <2>. DEFINE upto == ingest[i].upto
  <2>1. upto \in Nat /\ Reads(i) /\ Counting(i) /\ Naming(i)
    BY <1>t, <1>2 DEF Reads, Steps, PInv
  <2>2. /\ 1..upto \subseteq telemetry /\ engine.tools >= Cardinality(Called(out, upto))
        /\ upto > 0 => stored = engine
    BY <1>2, <2>1 DEF Counting
  <2>3. stored.tools >= Cardinality(Tools(upto))
    <3>1. CASE upto = 0
      <4>1. Cardinality(Called(out, 0)) = 0 /\ stored.tools \in Nat
        BY <1>t, CalledGrows DEF Counters, Snapshot
      <4>. QED
        BY <1>1, <3>1, <4>1
    <3>2. CASE upto > 0
      BY <1>1, <2>1, <2>2, <3>2
    <3>. QED
      BY <2>1, <3>1, <3>2
  <2>4. ASSUME upto # 0, \A j \in Ingesters \ {i} : Waits(j)
        PROVE  stored.active = Latest(upto)
    <3>1. ReadsAlone(i) /\ stored = engine
      BY <2>1, <2>2, <2>4 DEF ReadsAlone
    <3>2. /\ engine.active # 0 => Called(out, upto) # {}
          /\ Called(out, upto) # {} => NamesLast(out, upto, events, engine.active)
      BY <1>2, <2>1, <3>1 DEF Naming
    <3>3. CASE Called(out, upto) = {}
      BY <1>1, <2>1, <3>1, <3>2, <3>3 DEF Latest
    <3>4. CASE Called(out, upto) # {}
      <4>1. PICK m \in Called(out, upto) :
              /\ \A s \in Called(out, upto) : s <= m
              /\ engine.active \in DOMAIN events /\ events[engine.active].src = m
        BY <3>2, <3>4 DEF NamesLast
      <4>2. m = Max(Called(out, upto))
        <5>1. \A x \in Called(out, upto) : x \in Nat
          BY DEF Called
        <5>2. \A x \in Called(out, upto) : (\A y \in Called(out, upto) : x >= y) => x = m
          BY <4>1, <5>1
        <5>3. \A y \in Called(out, upto) : m >= y
          BY <4>1, <5>1
        <5>. QED
          BY <4>1, <5>2, <5>3 DEF Max
      <4>3. m # 0
        BY <4>1 DEF Called
      <4>4. Sequence(events, m) = engine.active
        <5>1. \A n \in DOMAIN events : events[n].src = m => n = engine.active
          BY <1>t, <4>1, <4>3 DEF Distinct
        <5>. QED
          BY <4>1, <5>1 DEF Sequence
      <4>. QED
        BY <1>1, <2>1, <3>1, <3>4, <4>2, <4>4 DEF Latest
    <3>. QED
      BY <3>3, <3>4
  <2>. QED
    BY <2>2, <2>3, <2>4 DEF Waits
<1>3. status = "ended" /\ Own("backend.monitor_error") \notin Range(events) =>
        /\ stored.tools >= Cardinality(Tools(Len(out)))
        /\ DOMAIN out \subseteq telemetry
  BY <1>t, <1>1 DEF ReadToItsEnd
<1>. QED
  BY <1>2, <1>3 DEF ProgressKeepsUp

LEMMA ProgressInvariant == Spec => [](IInv /\ PInv)
<1>1. Init => IInv /\ PInv
  BY Starts, ProgressStarts
<1>2. IInv /\ PInv /\ [Next]_vars => IInv' /\ PInv'
  BY Preserved, ProgressPreserved
<1>. QED
  BY <1>1, <1>2, PTL DEF Spec

(* Each variable keeps its type: cursors and pages stay within the log, an *)
(* ingestion within the output, and what the progress names is an event of *)
(* the log.                                                                *)
THEOREM TypeCorrect == Spec => []TypeOK
<1>1. IInv /\ PInv => TypeOK
  <2>. SUFFICES ASSUME IInv, PInv PROVE TypeOK
    OBVIOUS
  <2>1. /\ out \in Seq(Printed) /\ events \in Seq(Event) /\ ingest \in [Ingesters -> Steps]
        /\ client \in Clients(Len(events)) /\ Counters /\ PageFollows
        /\ Len(out) \in Nat /\ Len(events) \in Nat
        /\ DOMAIN out = 1..Len(out) /\ DOMAIN events = 1..Len(events)
    BY DEF IInv, Typed, PInv
  <2>2. \A e \in Range(events) : e.kind \in Printed \cup GatewayKinds
    <3>1. \A n \in DOMAIN events : events[n] \in Event
      BY <2>1
    <3>. QED
      BY <3>1 DEF Range, Event
  <2>3. DOMAIN out \cup {0} = 0..Len(out) /\ DOMAIN events \cup {0} = 0..Len(events)
    BY <2>1
  <2>4. client.page \in Seq(DOMAIN events)
    <3>1. client.page \in Seq(Nat) /\ client.cursor \in Nat
      BY <2>1 DEF Clients
    <3>2. ASSUME NEW k \in 1..Len(client.page) PROVE client.page[k] \in DOMAIN events
      <4>1. Len(client.page) \in Nat /\ client.page[k] = client.cursor + k
            /\ client.cursor + Len(client.page) <= Len(events)
        BY <2>1, <3>1 DEF PageFollows
      <4>. QED
        BY <2>1, <3>1, <4>1
    <3>. QED
      BY <3>1, <3>2, IsASeq
  <2>5. client \in [pc : {"off", "send", "wait"}, stream : {"run", "control"},
                    cursor : DOMAIN events \cup {0}, page : Seq(DOMAIN events),
                    full : BOOLEAN, moved : BOOLEAN]
    BY <2>1, <2>3, <2>4 DEF Clients
  <2>6. ingest \in [Ingesters ->
          [pc : {"idle", "requested", "stopping", "reading", "announcing", "ending", "over"},
           upto : DOMAIN out \cup {0}, at : DOMAIN out \cup {0}, last : BOOLEAN]]
    BY <2>1, <2>3 DEF Steps
  <2>. QED
    BY <2>1, <2>2, <2>5, <2>6 DEF TypeOK, Counters, GatewayStates, Snapshot
<1>. QED
  BY <1>1, ProgressInvariant, PTL

(* However often the output is read again, whoever reads beside the        *)
(* monitor and wherever the gateway dies, an ingestion that has come to    *)
(* its end, and a run that was read to its end, has lost no tool call and  *)
(* no telemetry (manager.py, progress_engine.py).                          *)
THEOREM ProgressMissesNothing == Spec => []ProgressKeepsUp
BY ProgressInvariant, ProgressShown, PTL

=============================================================================
