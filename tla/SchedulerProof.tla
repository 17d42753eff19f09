---------------------------- MODULE SchedulerProof ----------------------------
(***************************************************************************)
(* Proofs about Scheduler, for every number of schedules and requests,     *)
(* every configuration, interval and grace, every fault and every bound.   *)
(***************************************************************************)
EXTENDS Scheduler, FiniteSetTheorems, SequenceTheorems, TLAPS

-----------------------------------------------------------------------------
(* Numbers.                                                                *)

LEMMA LeastElement ==
    ASSUME NEW S \in SUBSET Nat, S # {}
    PROVE  \E m \in S : \A x \in S : m <= x
<1>. DEFINE Below(x) == {y \in S : y < x}
            Sets == {Below(x) : x \in S}
<1>1. Sets \subseteq FiniteSubsetsOf(S) /\ Sets # {}
  <2>1. ASSUME NEW x \in S PROVE Below(x) \in FiniteSubsetsOf(S)
    <3>1. Below(x) \subseteq 0..x
      <4>1. ASSUME NEW y \in S, y < x PROVE y \in 0..x
        <5>1. y \in Nat /\ x \in Nat
          OBVIOUS
        <5>. QED
          BY <5>1, <4>1
      <4>. QED
        BY <4>1
    <3>2. IsFiniteSet(0..x)
      <4>1. 0 \in Int /\ x \in Int
        OBVIOUS
      <4>. QED
        BY <4>1, FS_Interval
    <3>3. IsFiniteSet(Below(x))
      BY <3>1, <3>2, FS_Subset
    <3>. QED
      BY <3>3 DEF FiniteSubsetsOf
  <2>. QED
    BY <2>1
<1>2. PICK T \in Sets : \A U \in Sets : <<U, T>> \notin StrictSubsetOrdering(S)
  BY <1>1, FS_StrictSubsetOrderingWellFounded, WFMin
<1>3. PICK m \in S : T = Below(m)
  BY <1>2
<1>4. ASSUME NEW x \in S, x < m PROVE FALSE
  <2>1. x \in Nat /\ m \in Nat /\ x < m
    BY <1>4
  <2>2. x \in Below(m) /\ x \notin Below(x)
    BY <2>1
  <2>3. Below(x) \subseteq Below(m)
    <3>1. ASSUME NEW y \in S, y < x PROVE y < m
      <4>1. y \in Nat
        OBVIOUS
      <4>. QED
        BY <4>1, <2>1, <3>1
    <3>. QED
      BY <3>1
  <2>4. <<Below(x), Below(m)>> \in StrictSubsetOrdering(S)
    BY <2>2, <2>3 DEF StrictSubsetOrdering
  <2>. QED
    BY <2>4, <1>2, <1>3
<1>. QED
  BY <1>4

LEMMA Multiples ==
    ASSUME NEW d \in Nat, NEW n \in Nat \ {0}
    PROVE  d % n = 0 <=> \E k \in Nat : d = n * k
<1>1. ASSUME d % n = 0 PROVE d = n * (d \div n) /\ d \div n \in Nat
  BY <1>1, SMT
<1>2. ASSUME NEW k \in Nat, d = n * k PROVE d % n = 0
  BY <1>2, SMT
<1>. QED
  BY <1>1, <1>2

LEMMA MultiplesInOrder ==
    ASSUME NEW n \in Nat \ {0}, NEW i \in Nat, NEW j \in Nat
    PROVE  n * i < n * j <=> i < j
<1>1. ASSUME i < j PROVE n * i < n * j
  <2>1. n * (j - i) >= n /\ n * (j - i) = n * j - n * i
    BY <1>1, SMT
  <2>. QED
    BY <2>1, SMT
<1>2. ASSUME j <= i PROVE n * j <= n * i
  <2>1. n * (i - j) >= 0 /\ n * (i - j) = n * i - n * j
    BY <1>2, SMT
  <2>. QED
    BY <2>1, SMT
<1>. QED
  BY <1>1, <1>2, SMT

(* The times due, on an arithmetic progression: none before the first of   *)
(* as many as there are is left out.                                       *)
LEMMA DueInOrder ==
    ASSUME NEW first \in Nat, NEW n \in Nat \ {0}, NEW last \in Nat,
           NEW D, D = {at \in Times : at \in first .. last /\ (at - first) % n = 0},
           NEW k \in Nat, k < Cardinality(D), first > 0, last <= MaxTime
    PROVE  first + n * k \in D
<1>1. \A e \in D : \E i \in Nat : e = first + n * i /\ e <= last
  <2>. SUFFICES ASSUME NEW e \in D PROVE \E i \in Nat : e = first + n * i /\ e <= last
    OBVIOUS
  <2>1. e \in Nat /\ e >= first /\ e <= last /\ e - first \in Nat /\ (e - first) % n = 0
    OBVIOUS
  <2>2. PICK i \in Nat : e - first = n * i
    BY <2>1, Multiples
  <2>. QED
    BY <2>1, <2>2, SMT
<1>. DEFINE index == [e \in D |-> CHOOSE i \in Nat : e = first + n * i]
<1>2. \A e \in D : index[e] \in Nat /\ e = first + n * index[e] /\ e <= last
  BY <1>1
<1>. HIDE DEF index
<1>3. SUFFICES ASSUME first + n * k > last PROVE FALSE
  <2>1. first + n * k \in Int /\ first + n * k >= first /\ (first + n * k) - first = n * k /\ n * k \in Nat
    BY SMT
  <2>2. (n * k) % n = 0
    BY <2>1, Multiples
  <2>3. ASSUME first + n * k <= last PROVE first + n * k \in D
    BY <2>1, <2>2, <2>3, LimitsAssumption DEF Times
  <2>. QED
    BY <2>1, <2>3, <1>3
<1>4. \A e \in D : index[e] \in 0 .. (k - 1)
  <2>1. ASSUME NEW e \in D PROVE index[e] < k
    <3>1. n * index[e] < n * k
      BY <1>2, <1>3, SMT
    <3>. QED
      BY <3>1, <1>2, MultiplesInOrder
  <2>. QED
    BY <2>1, <1>2
<1>5. index \in Injection(D, 0 .. (k - 1))
  <2>1. index \in [D -> 0 .. (k - 1)]
    BY <1>4 DEF index
  <2>2. \A d, e \in D : index[d] = index[e] => d = e
    BY <1>2
  <2>. QED
    BY <2>1, <2>2 DEF Injection, IsInjective
<1>6. IsFiniteSet(0 .. (k - 1)) /\ Cardinality(0 .. (k - 1)) = k
  <2>1. 0 \in Int /\ k - 1 \in Int /\ k >= 0
    OBVIOUS
  <2>2. /\ IsFiniteSet(0 .. (k - 1))
        /\ Cardinality(0 .. (k - 1)) = IF 0 > k - 1 THEN 0 ELSE (k - 1) - 0 + 1
    BY <2>1, FS_Interval
  <2>. QED
    BY <2>1, <2>2
<1>7. IsFiniteSet(D) /\ Cardinality(D) <= k
  BY <1>5, <1>6, FS_Injection
<1>. QED
  BY <1>7, FS_CardinalityType

-----------------------------------------------------------------------------
(* The inductive invariant: what the rows of the store say of each other,  *)
(* and what an actor in the middle of a stretch relies on.                 *)

Submitted == \A r \in Runs : status[r] = "absent" <=> r > Len(conv)

Linked ==
    /\ \A t \in Triggers : trig[t].run <= Len(conv)
    /\ \A r \in 1 .. Len(conv) : \E t \in Triggers : trig[t].run = r
    /\ \A t, u \in Triggers : trig[t].run # 0 /\ trig[t].run = trig[u].run => t = u

Kept == {"DISPATCHED", "RUNNING", "COMPLETED", "FAILED", "CANCELLED"}

Told(x) ==
    /\ x.run # 0 <=> x.state \in Kept
    /\ x.state = "COMPLETED" => status[x.run] = "completed"
    /\ x.state = "CANCELLED" => status[x.run] = "cancelled"
    /\ x.state = "FAILED" => status[x.run] \in {"failed", "interrupted", "orphaned"}

AllTold == \A t \in Triggers : Told(trig[t])

(* Of one schedule, at most one occurrence is active. *)
OneActive ==
    \A t, u \in Triggers :
       t[1] = u[1] /\ trig[t].state \in ActiveStates /\ trig[u].state \in ActiveStates => t = u

(* next_run_at is one of the times that count from first_run_at, and every *)
(* such time before it has its row.                                        *)
Nth(s, k) == sched[s].first + Interval * k
HasRow(s, at) == trig[<<s, sched[s].gen, at>>].state # "none"

OccurredOnce(s) ==
    /\ sched[s].first \in Times /\ sched[s].next \in {0, sched[s].first}
    /\ sched[s].next = 0 => HasRow(s, sched[s].first)

OccurredInOrder(s) ==
    /\ sched[s].first > 0
    /\ \E j \in Nat : sched[s].next = Nth(s, j)
    /\ \A k \in Nat : Nth(s, k) < sched[s].next => Nth(s, k) \in Times /\ HasRow(s, Nth(s, k))

Occurs(s) ==
    IF sched[s].cfg.kind = "one_shot" THEN OccurredOnce(s) ELSE OccurredInOrder(s)

Occurred == \A s \in Schedules : Exists(s) => Occurs(s)

Tables == Submitted /\ Linked /\ AllTold /\ OneActive /\ OpenIsCurrent /\ Occurred

(* One actor holds the loop; the others rest, or wait for a stop.  What a  *)
(* list says of a schedule is used in the stretch that read it.            *)
Proper(a) ==
    LET pc == me[a].pc IN
    /\ pc \notin {"idle", "stopping"} => turn = a
    /\ a = "loop" /\ pc = "materialize" =>
          \A s \in me[a].todo : Enabled(s) /\ sched[s].next \in Times /\ sched[s].next <= now
    /\ pc \in {"skip", "replace", "stopping", "claim", "submit"} =>
          \A t \in me[a].pending : t[1] = Current(a)
    /\ pc = "claim" /\ me[a].view[Current(a)].cfg.concurrency = "QUEUE" =>
          \A t \in Triggers : t[1] = Current(a) => trig[t].state \notin ActiveStates
    /\ pc = "submit" =>
          \E t \in Triggers : me[a].claimed = {t} /\ t[1] = Current(a) /\ trig[t].state = "CLAIMED"
    /\ a = "loop" /\ pc \in {"enqueue", "finish"} =>
          \E t \in Triggers :
             /\ me[a].claimed = {t}
             /\ pc = "finish" /\ sched[t[1]].cfg.notify /\ reply[trig[t].run] => t \in outbox

Control == \A a \in Actors : Proper(a)

IInv == TypeOK /\ Tables /\ Control

-----------------------------------------------------------------------------
(* Types.                                                                  *)

Outcomes == {"completed", "failed", "cancelled", "interrupted", "orphaned"}
Statuses == {"absent", "queued", "running"} \cup Outcomes

LEMMA TypeParts ==
    TypeOK <=> /\ now \in Times
               /\ sched \in [Schedules -> ScheduleRows]
               /\ trig \in [Triggers -> TriggerRows]
               /\ conv \in Seq({<<s>> : s \in Schedules} \cup Triggers)
               /\ Len(conv) <= MaxRuns
               /\ status \in [Runs -> Statuses]
               /\ reply \in [Runs -> BOOLEAN]
               /\ outbox \subseteq Triggers
               /\ gateway \in {"down", "starting", "serving"}
               /\ me \in [Actors -> Coroutines]
               /\ turn \in Actors \cup {NoOne}
               /\ crashes \in 0 .. MaxCrashes
BY DEF TypeOK, RunQueue!Outcomes, Outcomes, Statuses

LEMMA IdleIsTyped == Idle \in Coroutines
BY DEF Idle, Coroutines, ScheduleRows

LEMMA CurrentIsListed ==
    ASSUME NEW a \in Actors, me[a].todo \subseteq Schedules, me[a].todo # {}
    PROVE  Current(a) \in me[a].todo
<1>1. me[a].todo \in SUBSET Nat
  BY DEF Schedules
<1>2. \E s \in me[a].todo : \A u \in me[a].todo : s <= u
  BY <1>1, LeastElement
<1>. QED
  BY <1>2 DEF Current

LEMMA CurrentKept ==
    ASSUME NEW a, me'[a].todo = me[a].todo
    PROVE  Current(a)' = Current(a)
BY DEF Current

(* A step of one actor. *)
LEMMA OthersWait ==
    ASSUME Control, NEW a \in Actors, turn \in {a, NoOne}, Proper(a)', NoOne \notin Actors,
           \A b \in Actors \ {a} : me'[b] = me[b]
    PROVE  Control'
<1>. SUFFICES ASSUME NEW b \in Actors, b # a PROVE Proper(b)'
  BY DEF Control
<1>1. Proper(b) /\ me'[b] = me[b] /\ turn # b
  BY DEF Control
<1>2. me[b].pc \in {"idle", "stopping"}
  BY <1>1 DEF Proper
<1>3. Current(b)' = Current(b)
  BY <1>1, CurrentKept
<1>. QED
  BY <1>1, <1>2, <1>3 DEF Proper

(* A step while no actor holds the loop. *)
LEMMA AllWait ==
    ASSUME Control, turn = NoOne, NoOne \notin Actors, me' = me
    PROVE  Control'
<1>. SUFFICES ASSUME NEW b \in Actors PROVE Proper(b)'
  BY DEF Control
<1>1. Proper(b) /\ me'[b] = me[b] /\ turn # b
  BY DEF Control
<1>2. me[b].pc \in {"idle", "stopping"}
  BY <1>1 DEF Proper
<1>3. Current(b)' = Current(b)
  BY <1>1, CurrentKept
<1>. QED
  BY <1>1, <1>2, <1>3 DEF Proper

LEMMA NoOneIsNoActor == NoOne \notin Actors /\ "loop" \in Actors
BY RequestsAssumption DEF Actors, NoOne

(* An actor between two schedules, or at its end. *)
LEMMA Unbound ==
    ASSUME NEW a, me'[a].pc \in {"idle", "list", "dispatch", "notify"},
           me'[a].pc # "idle" => turn' = a
    PROVE  Proper(a)'
BY DEF Proper

LEMMA LeaveFacts ==
    ASSUME me \in [Actors -> Coroutines], NEW a \in Actors, Leave(a)
    PROVE  /\ me' \in [Actors -> Coroutines]
           /\ me'[a].pc = "dispatch"
           /\ \A b \in Actors \ {a} : me'[b] = me[b]
<1>. DEFINE c == [Idle EXCEPT !.pc = "dispatch", !.todo = Rest(a), !.view = me[a].view]
<1>1. Rest(a) \subseteq Schedules /\ me[a].view \in [Schedules -> ScheduleRows]
  BY DEF Rest, Coroutines
<1>2. c \in Coroutines /\ c.pc = "dispatch"
  BY <1>1, IdleIsTyped DEF Coroutines
<1>3. me' = [me EXCEPT ![a] = c]
  BY DEF Leave
<1>. HIDE DEF c
<1>. QED
  BY <1>2, <1>3

LEMMA ReturnFacts ==
    ASSUME me \in [Actors -> Coroutines], NEW a \in Actors, Return(a) \/ Raise(a),
           gateway \in {"down", "starting", "serving"}
    PROVE  /\ me' \in [Actors -> Coroutines]
           /\ me'[a].pc = "idle"
           /\ \A b \in Actors \ {a} : me'[b] = me[b]
           /\ turn' = NoOne
           /\ gateway' \in {"down", "starting", "serving"}
<1>1. Idle.pc = "idle"
  BY DEF Idle
<1>. QED
  BY <1>1, IdleIsTyped DEF Return, Raise

-----------------------------------------------------------------------------
(* The tables.                                                             *)

(* Rows that change but for their runs: nothing becomes active. *)
LEMMA CalmRows ==
    ASSUME Submitted, Linked, OneActive, UNCHANGED <<conv, status>>,
           \A t \in Triggers :
              /\ trig'[t].run = trig[t].run
              /\ trig'[t].state \in ActiveStates => trig[t].state \in ActiveStates
              /\ Told(trig'[t])
    PROVE  Submitted' /\ Linked' /\ AllTold' /\ OneActive'
<1>1. Submitted' /\ AllTold'
  BY DEF Submitted, AllTold, Told
<1>2. Linked'
  BY DEF Linked
<1>3. OneActive'
  BY DEF OneActive
<1>. QED
  BY <1>1, <1>2, <1>3

LEMMA GenerationOfExisting ==
    ASSUME sched \in [Schedules -> ScheduleRows], NEW s \in Schedules, Exists(s)
    PROVE  /\ sched[s].gen \in Generations /\ sched[s].cfg \in ConfigType
           /\ sched[s].first \in Nat /\ sched[s].next \in Nat
           /\ sched[s].live \in BOOLEAN /\ ~sched[s].gone
           /\ sched[s] \in [live : BOOLEAN, gone : BOOLEAN, gen : Generations, cfg : ConfigType,
                            first : Nat, next : Nat]
BY DEF ScheduleRows, NoSchedule, Exists

LEMMA OccurrencesStay ==
    ASSUME sched \in [Schedules -> ScheduleRows], NEW s \in Schedules, Exists(s), Occurs(s),
           sched'[s].gen = sched[s].gen, sched'[s].cfg = sched[s].cfg,
           sched'[s].first = sched[s].first, sched'[s].next = sched[s].next,
           \A t \in Triggers : trig[t].state # "none" => trig'[t].state # "none"
    PROVE  Occurs(s)'
<1>1. \A at \in Times : HasRow(s, at) => HasRow(s, at)'
  <2>. SUFFICES ASSUME NEW at \in Times PROVE HasRow(s, at) => HasRow(s, at)'
    OBVIOUS
  <2>1. <<s, sched[s].gen, at>> \in Triggers
    BY GenerationOfExisting DEF Triggers
  <2>. QED
    BY <2>1 DEF HasRow
<1>2. \A k : Nth(s, k)' = Nth(s, k)
  BY DEF Nth
<1>3. OccurredOnce(s) => OccurredOnce(s)'
  BY <1>1 DEF OccurredOnce
<1>4. OccurredInOrder(s) => OccurredInOrder(s)'
  BY <1>1, <1>2 DEF OccurredInOrder
<1>. QED
  BY <1>3, <1>4 DEF Occurs

LEMMA RowsStay ==
    ASSUME Occurred, sched \in [Schedules -> ScheduleRows], sched' = sched,
           \A t \in Triggers : trig[t].state # "none" => trig'[t].state # "none"
    PROVE  Occurred'
BY OccurrencesStay DEF Occurred, Exists

LEMMA QuietTables ==
    ASSUME TypeOK, Tables, UNCHANGED <<sched, trig, conv, status>>
    PROVE  Tables'
<1>1. Submitted' /\ Linked' /\ AllTold' /\ OneActive'
  BY DEF Tables, Submitted, Linked, AllTold, Told, OneActive
<1>2. OpenIsCurrent'
  BY DEF Tables, OpenIsCurrent, Exists
<1>3. Occurred'
  BY RowsStay, TypeParts DEF Tables
<1>. QED
  BY <1>1, <1>2, <1>3 DEF Tables

LEMMA RecoveredRows ==
    ASSUME NEW T \in [Triggers -> TriggerRows], NEW t \in Triggers
    PROVE  LET y == Recovered(T)[t] IN
           /\ y \in TriggerRows
           /\ y.run = T[t].run
           /\ y.state = T[t].state \/ (T[t].state = "CLAIMED" /\ y.state = "PENDING")
           /\ y.note = T[t].note \/ y.note = "PENDING"
<1>. DEFINE x == T[t]
            given == x.state = "CLAIMED" /\ x.lease = "expired"
<1>1. Recovered(T)[t] = [state |-> IF given THEN "PENDING" ELSE x.state, due |-> x.due,
                         lease |-> IF given THEN "none" ELSE x.lease, run |-> x.run,
                         note |-> IF x.note = "PROCESSING" THEN "PENDING" ELSE x.note]
  BY DEF Recovered, TriggerRows
<1>. QED
  BY <1>1 DEF TriggerRows

LEMMA SyncedRows ==
    ASSUME NEW T \in [Triggers -> TriggerRows], NEW st \in [Runs -> Statuses], NEW t \in Triggers
    PROVE  LET y == Synced(T, st)[t]
               run == st[T[t].run]
           IN  /\ y \in TriggerRows
               /\ y.run = T[t].run
               /\ y.note = T[t].note
               /\ \/ y.state = T[t].state
                  \/ /\ T[t].state \in {"DISPATCHED", "RUNNING"}
                     /\ \/ y.state = "RUNNING"
                        \/ y.state = "COMPLETED" /\ run = "completed"
                        \/ y.state = "CANCELLED" /\ run = "cancelled"
                        \/ y.state = "FAILED" /\ run \notin {"queued", "running", "completed", "cancelled"}
<1>1. CASE T[t].state \notin {"DISPATCHED", "RUNNING"}
  BY <1>1 DEF Synced
<1>2. CASE T[t].state \in {"DISPATCHED", "RUNNING"}
  <2>. DEFINE f == CASE st[T[t].run] = "queued" -> T[t].state
                     [] st[T[t].run] = "running" -> "RUNNING"
                     [] st[T[t].run] = "completed" -> "COMPLETED"
                     [] st[T[t].run] = "cancelled" -> "CANCELLED"
                     [] OTHER -> "FAILED"
  <2>1. Synced(T, st)[t] = [T[t] EXCEPT !.state = f]
    BY <1>2 DEF Synced
  <2>2. \/ f = T[t].state
        \/ f = "RUNNING"
        \/ f = "COMPLETED" /\ st[T[t].run] = "completed"
        \/ f = "CANCELLED" /\ st[T[t].run] = "cancelled"
        \/ f = "FAILED" /\ st[T[t].run] \notin {"queued", "running", "completed", "cancelled"}
    OBVIOUS
  <2>. HIDE DEF f
  <2>. QED
    BY <1>2, <2>1, <2>2 DEF TriggerRows, ActiveStates, FinalStates
<1>. QED
  BY <1>1, <1>2

-----------------------------------------------------------------------------
(* The API.                                                                *)

LEMMA InvInit == Init => IInv
<1>. SUFFICES ASSUME Init PROVE IInv
  OBVIOUS
<1>1. NoTrigger \in TriggerRows /\ NoTrigger.state = "none" /\ NoTrigger.run = 0
  BY DEF NoTrigger, TriggerRows
<1>2. NoSchedule \in ScheduleRows /\ NoSchedule.gen = 0
  BY DEF NoSchedule, ScheduleRows
<1>3. conv = <<>> /\ Len(conv) = 0
  BY DEF Init
<1>4. TypeOK
  <2>1. /\ now \in Times /\ crashes \in 0 .. MaxCrashes /\ Len(conv) <= MaxRuns
        /\ gateway \in {"down", "starting", "serving"} /\ turn \in Actors \cup {NoOne}
        /\ outbox \subseteq Triggers /\ conv \in Seq({<<s>> : s \in Schedules} \cup Triggers)
    BY <1>3, LimitsAssumption DEF Init, Times
  <2>2. /\ sched \in [Schedules -> ScheduleRows] /\ trig \in [Triggers -> TriggerRows]
    BY <1>1, <1>2 DEF Init
  <2>3. me \in [Actors -> Coroutines]
    BY IdleIsTyped DEF Init
  <2>4. status \in [Runs -> Statuses] /\ reply \in [Runs -> BOOLEAN]
    BY DEF Init, Statuses
  <2>. QED
    BY <2>1, <2>2, <2>3, <2>4, TypeParts
<1>5. Tables
  <2>1. Submitted
    BY <1>3 DEF Init, Submitted, Runs
  <2>2. Linked /\ AllTold /\ OneActive /\ OpenIsCurrent
    BY <1>1, <1>3 DEF Init, Linked, AllTold, Told, Kept, OneActive, ActiveStates, OpenIsCurrent
  <2>3. Occurred
    BY <1>2 DEF Init, Occurred, Exists
  <2>. QED
    BY <2>1, <2>2, <2>3 DEF Tables
<1>6. Control
  BY DEF Init, Control, Proper, Idle
<1>. QED
  BY <1>4, <1>5, <1>6 DEF IInv

(* A published schedule starts its occurrences anew. *)
LEMMA PublishFacts ==
    ASSUME sched \in [Schedules -> ScheduleRows], now \in Times,
           NEW s \in Schedules, NEW cfg \in ConfigType, NEW enabled \in BOOLEAN,
           Publish(s, cfg, enabled), sched[s].gen < MaxGenerations
    PROVE  /\ sched' \in [Schedules -> ScheduleRows]
           /\ \A u \in Schedules \ {s} : sched'[u] = sched[u]
           /\ Exists(s)' /\ sched'[s].gen = sched[s].gen + 1
           /\ Occurs(s)'
<1>1. PICK at \in FirstRun(cfg) : sched' = [sched EXCEPT ![s] =
          [live |-> enabled, gone |-> FALSE, gen |-> sched[s].gen + 1, cfg |-> cfg,
           first |-> at, next |-> at]]
  BY DEF Publish
<1>2. at \in Nat /\ at > 0 /\ (cfg.kind = "one_shot" => at \in Times)
  BY LimitsAssumption DEF FirstRun, Times
<1>3. sched[s].gen \in Nat /\ sched[s].gen + 1 \in Generations
  BY LimitsAssumption DEF ScheduleRows, NoSchedule, Generations
<1>. DEFINE row == [live |-> enabled, gone |-> FALSE, gen |-> sched[s].gen + 1, cfg |-> cfg,
                    first |-> at, next |-> at]
<1>4. /\ row \in ScheduleRows /\ ~row.gone /\ row.gen = sched[s].gen + 1 /\ row.cfg = cfg
      /\ row.first = at /\ row.next = at
  BY <1>2, <1>3 DEF ScheduleRows
<1>5. sched' = [sched EXCEPT ![s] = row]
  BY <1>1
<1>. HIDE DEF row
<1>6. sched'[s] = row /\ sched' \in [Schedules -> ScheduleRows]
  BY <1>4, <1>5
<1>7. Exists(s)' /\ sched'[s].gen = sched[s].gen + 1
  BY <1>3, <1>4, <1>6, LimitsAssumption DEF Exists, Generations
<1>8. CASE cfg.kind = "one_shot"
  <2>1. OccurredOnce(s)'
    BY <1>2, <1>4, <1>6, <1>8 DEF OccurredOnce
  <2>. QED
    BY <2>1, <1>4, <1>5, <1>6, <1>7, <1>8 DEF Occurs
<1>9. CASE cfg.kind # "one_shot"
  <2>1. \A k \in Nat : Interval * k >= 0
    BY LimitsAssumption, SMT
  <2>2. Interval * 0 = 0
    BY LimitsAssumption, SMT
  <2>3. OccurredInOrder(s)'
    <3>1. sched'[s].first = at /\ sched'[s].next = at
      BY <1>4, <1>6
    <3>2. Nth(s, 0)' = at /\ 0 \in Nat
      BY <3>1, <2>2, <1>2 DEF Nth
    <3>3. \A k \in Nat : ~(Nth(s, k)' < sched'[s].next)
      <4>1. \A k \in Nat : Interval * k \in Int
        BY LimitsAssumption, SMT
      <4>. QED
        BY <3>1, <2>1, <4>1, <1>2 DEF Nth
    <3>. QED
      BY <3>1, <3>2, <3>3, <1>2 DEF OccurredInOrder
  <2>. QED
    BY <2>3, <1>4, <1>5, <1>6, <1>7, <1>9 DEF Occurs
<1>. QED
  BY <1>5, <1>6, <1>7, <1>8, <1>9

LEMMA CreateInv ==
    ASSUME IInv, NEW s \in Schedules, NEW cfg \in Configs, Create(s, cfg)
    PROVE  IInv'
<1>1. /\ turn = NoOne /\ sched[s].gen = 0 /\ Publish(s, cfg, TRUE) /\ cfg \in ConfigType
      /\ UNCHANGED <<now, trig, conv, status, reply, outbox, gateway, me, turn, crashes>>
  BY ConfigsAssumption DEF Create, Serving
<1>2. /\ sched' \in [Schedules -> ScheduleRows]
      /\ \A u \in Schedules \ {s} : sched'[u] = sched[u]
      /\ Exists(s)' /\ Occurs(s)'
  <2>1. /\ sched \in [Schedules -> ScheduleRows] /\ now \in Times
        /\ sched[s].gen < MaxGenerations /\ TRUE \in BOOLEAN
    BY <1>1, LimitsAssumption, TypeParts DEF IInv
  <2>. QED
    BY <1>1, <2>1, PublishFacts
<1>3. TypeOK'
  BY <1>1, <1>2 DEF IInv, TypeOK
<1>4. Submitted' /\ Linked' /\ AllTold' /\ OneActive'
  BY <1>1 DEF IInv, Tables, Submitted, Linked, AllTold, Told, OneActive
<1>5. OpenIsCurrent'
  BY <1>1, <1>2 DEF IInv, Tables, OpenIsCurrent, Exists, Triggers
<1>6. Occurred'
  <2>. SUFFICES ASSUME NEW u \in Schedules, u # s, Exists(u)' PROVE Occurs(u)'
    BY <1>2 DEF Occurred
  <2>1. Exists(u) /\ sched'[u] = sched[u]
    BY <1>2 DEF Exists
  <2>. QED
    BY <1>1, <2>1, OccurrencesStay, TypeParts DEF IInv, Tables, Occurred
<1>7. Control'
  BY <1>1, AllWait, NoOneIsNoActor DEF IInv
<1>. QED
  BY <1>3, <1>4, <1>5, <1>6, <1>7 DEF IInv, Tables

LEMMA SupersededRows ==
    ASSUME IInv, NEW s, trig' = Superseded(s), UNCHANGED <<conv, status>>
    PROVE  /\ trig' \in [Triggers -> TriggerRows]
           /\ Submitted' /\ Linked' /\ AllTold' /\ OneActive'
           /\ \A t \in Triggers : /\ trig[t].state # "none" <=> trig'[t].state # "none"
                                  /\ t[1] # s => trig'[t] = trig[t]
                                  /\ t[1] = s => trig'[t].state \notin {"PENDING", "CLAIMED"}
<1>1. trig \in [Triggers -> TriggerRows]
  BY TypeParts DEF IInv
<1>2. ASSUME NEW t \in Triggers
      PROVE  /\ trig'[t] \in TriggerRows /\ trig'[t].run = trig[t].run
             /\ trig[t].state # "none" <=> trig'[t].state # "none"
             /\ t[1] # s => trig'[t] = trig[t]
             /\ t[1] = s => trig'[t].state \notin {"PENDING", "CLAIMED"}
             /\ \/ trig'[t].state = trig[t].state
                \/ trig[t].state \in {"PENDING", "CLAIMED"} /\ trig'[t].state = "SKIPPED"
  <2>1. CASE t \in In(s, {"PENDING", "CLAIMED"})
    <3>1. /\ trig'[t] = [trig[t] EXCEPT !.state = "SKIPPED"] /\ t[1] = s
          /\ trig[t].state \in {"PENDING", "CLAIMED"}
      BY <2>1 DEF Superseded, In
    <3>. QED
      BY <3>1, <1>1 DEF TriggerRows, FinalStates
  <2>2. CASE t \notin In(s, {"PENDING", "CLAIMED"})
    BY <2>2, <1>1 DEF Superseded, In
  <2>. QED
    BY <2>1, <2>2
<1>3. trig' \in [Triggers -> TriggerRows]
  <2>1. trig' = [t \in Triggers |-> trig'[t]]
    BY DEF Superseded
  <2>. QED
    BY <2>1, <1>2
<1>4. \A t \in Triggers : /\ trig'[t].state \in ActiveStates => trig[t].state \in ActiveStates
                          /\ Told(trig'[t])
  BY <1>2 DEF IInv, Tables, AllTold, Told, Kept, ActiveStates
<1>. QED
  BY <1>2, <1>3, <1>4, CalmRows DEF IInv, Tables

LEMMA UpdateInv ==
    ASSUME IInv, NEW s \in Schedules, NEW cfg \in Configs, Update(s, cfg)
    PROVE  IInv'
<1>. DEFINE forced == IF cfg.kind # "heartbeat" THEN cfg
                      ELSE [cfg EXCEPT !.misfire = "SKIP", !.concurrency = "SKIP"]
<1>1. /\ turn = NoOne /\ Exists(s) /\ sched[s].gen < MaxGenerations
      /\ Publish(s, forced, sched[s].live) /\ trig' = Superseded(s)
      /\ UNCHANGED <<now, conv, status, reply, outbox, gateway, me, turn, crashes>>
  BY DEF Update, Serving
<1>2. forced \in ConfigType
  BY ConfigsAssumption DEF ConfigType
<1>. HIDE DEF forced
<1>3. /\ sched' \in [Schedules -> ScheduleRows]
      /\ \A u \in Schedules \ {s} : sched'[u] = sched[u]
      /\ Exists(s)' /\ Occurs(s)'
  BY <1>1, <1>2, PublishFacts, GenerationOfExisting, TypeParts DEF IInv
<1>4. /\ trig' \in [Triggers -> TriggerRows]
      /\ Submitted' /\ Linked' /\ AllTold' /\ OneActive'
      /\ \A t \in Triggers : /\ trig[t].state # "none" <=> trig'[t].state # "none"
                             /\ t[1] # s => trig'[t] = trig[t]
                             /\ t[1] = s => trig'[t].state \notin {"PENDING", "CLAIMED"}
  BY <1>1, SupersededRows
<1>5. TypeOK'
  BY <1>1, <1>3, <1>4 DEF IInv, TypeOK
<1>6. OpenIsCurrent'
  BY <1>3, <1>4 DEF IInv, Tables, OpenIsCurrent, Exists, Triggers
<1>7. Occurred'
  <2>. SUFFICES ASSUME NEW u \in Schedules, u # s, Exists(u)' PROVE Occurs(u)'
    BY <1>3 DEF Occurred
  <2>1. Exists(u) /\ sched'[u] = sched[u]
    BY <1>3 DEF Exists
  <2>. QED
    BY <1>4, <2>1, OccurrencesStay, TypeParts DEF IInv, Tables, Occurred
<1>8. Control'
  BY <1>1, AllWait, NoOneIsNoActor DEF IInv
<1>. QED
  BY <1>4, <1>5, <1>6, <1>7, <1>8 DEF IInv, Tables

LEMMA SwitchInv ==
    ASSUME IInv, NEW s \in Schedules, Delete(s) \/ \E on \in BOOLEAN : SetEnabled(s, on)
    PROVE  IInv'
<1>1. PICK row : /\ row = [sched[s] EXCEPT !.live = row.live, !.gone = row.gone]
                 /\ row.live \in BOOLEAN /\ row.gone \in BOOLEAN
                 /\ sched' = [sched EXCEPT ![s] = row]
                 /\ Exists(s) /\ turn = NoOne
                 /\ \/ row.gone = sched[s].gone /\ trig' = trig
                    \/ row.gone /\ trig' = Superseded(s)
                 /\ UNCHANGED <<now, conv, status, reply, outbox, gateway, me, turn, crashes>>
  <2>1. ASSUME NEW on \in BOOLEAN, SetEnabled(s, on)
        PROVE  /\ sched' = [sched EXCEPT ![s] = [sched[s] EXCEPT !.live = on]]
               /\ Exists(s) /\ turn = NoOne /\ trig' = trig
               /\ UNCHANGED <<now, conv, status, reply, outbox, gateway, me, turn, crashes>>
    BY <2>1 DEF SetEnabled, Serving
  <2>2. ASSUME Delete(s)
        PROVE  /\ sched' = [sched EXCEPT ![s] = [sched[s] EXCEPT !.live = FALSE, !.gone = TRUE]]
               /\ Exists(s) /\ turn = NoOne /\ trig' = Superseded(s)
               /\ UNCHANGED <<now, conv, status, reply, outbox, gateway, me, turn, crashes>>
    BY <2>2, TypeParts DEF Delete, Serving, IInv
  <2>. QED
    BY <2>1, <2>2, GenerationOfExisting, TypeParts DEF IInv
<1>2. sched[s] \in [live : BOOLEAN, gone : BOOLEAN, gen : Generations, cfg : ConfigType,
                    first : Nat, next : Nat]
  BY <1>1, GenerationOfExisting, TypeParts DEF IInv
<1>3. /\ row \in ScheduleRows /\ row.gen = sched[s].gen /\ row.cfg = sched[s].cfg
      /\ row.first = sched[s].first /\ row.next = sched[s].next
  BY <1>1, <1>2 DEF ScheduleRows
<1>4. sched' \in [Schedules -> ScheduleRows] /\ sched'[s] = row
      /\ \A u \in Schedules \ {s} : sched'[u] = sched[u]
  BY <1>1, <1>3, TypeParts DEF IInv
<1>5. /\ trig' \in [Triggers -> TriggerRows]
      /\ Submitted' /\ Linked' /\ AllTold' /\ OneActive'
      /\ \A t \in Triggers : /\ trig[t].state # "none" <=> trig'[t].state # "none"
                             /\ t[1] # s \/ ~row.gone => trig'[t] = trig[t]
                             /\ t[1] = s /\ row.gone => trig'[t].state \notin {"PENDING", "CLAIMED"}
  <2>1. CASE trig' = trig /\ row.gone = sched[s].gone
    BY <1>1, <2>1, TypeParts
       DEF IInv, Tables, Submitted, Linked, AllTold, Told, OneActive, Exists
  <2>2. CASE trig' = Superseded(s) /\ row.gone
    BY <1>1, <2>2, SupersededRows
  <2>. QED
    BY <1>1, <2>1, <2>2
<1>6. TypeOK'
  BY <1>1, <1>4, <1>5 DEF IInv, TypeOK
<1>7. OpenIsCurrent'
  <2>. SUFFICES ASSUME NEW t \in Triggers, trig'[t].state \in {"PENDING", "CLAIMED"}
                PROVE  Exists(t[1])' /\ t[2] = sched'[t[1]].gen
    BY DEF OpenIsCurrent
  <2>1. trig'[t] = trig[t] /\ (t[1] = s => ~row.gone) /\ t[1] \in Schedules
    BY <1>5 DEF Triggers
  <2>2. Exists(t[1]) /\ t[2] = sched[t[1]].gen
    BY <2>1 DEF IInv, Tables, OpenIsCurrent
  <2>. QED
    BY <2>1, <2>2, <1>3, <1>4 DEF Exists
<1>8. Occurred'
  <2>. SUFFICES ASSUME NEW u \in Schedules, Exists(u)' PROVE Occurs(u)'
    BY DEF Occurred
  <2>1. /\ Exists(u) /\ sched'[u].gen = sched[u].gen /\ sched'[u].cfg = sched[u].cfg
        /\ sched'[u].first = sched[u].first /\ sched'[u].next = sched[u].next
    BY <1>1, <1>3, <1>4 DEF Exists
  <2>. QED
    BY <1>5, <2>1, OccurrencesStay, TypeParts DEF IInv, Tables, Occurred
<1>9. Control'
  BY <1>1, AllWait, NoOneIsNoActor DEF IInv
<1>. QED
  BY <1>5, <1>6, <1>7, <1>8, <1>9 DEF IInv, Tables

-----------------------------------------------------------------------------
(* The tick.                                                               *)

(* A dispatched occurrence follows its run, which has been submitted. *)
LEMMA SyncedCalm ==
    ASSUME IInv, NEW T \in [Triggers -> TriggerRows],
           \A t \in Triggers :
              /\ T[t].run = trig[t].run
              /\ T[t].state = trig[t].state \/ (trig[t].state = "CLAIMED" /\ T[t].state = "PENDING")
              /\ T[t].note = trig[t].note \/ T[t].note = "PENDING"
    PROVE  /\ Synced(T, status) \in [Triggers -> TriggerRows]
           /\ \A t \in Triggers : LET y == Synced(T, status)[t] IN
                 /\ y.run = trig[t].run
                 /\ Told(y)
                 /\ y.state \in ActiveStates => trig[t].state \in ActiveStates
                 /\ y.state \in {"PENDING", "CLAIMED"} => trig[t].state \in {"PENDING", "CLAIMED"}
                 /\ y.state = "none" <=> trig[t].state = "none"
                 /\ y.note = trig[t].note \/ y.note = "PENDING"
<1>1. status \in [Runs -> Statuses] /\ trig \in [Triggers -> TriggerRows]
  BY TypeParts DEF IInv
<1>. DEFINE Y == Synced(T, status)
<1>2. Y = [t \in Triggers |-> Y[t]]
  BY DEF Synced
<1>. SUFFICES ASSUME NEW t \in Triggers
     PROVE  /\ Y[t] \in TriggerRows
            /\ Y[t].run = trig[t].run
            /\ Told(Y[t])
            /\ Y[t].state \in ActiveStates => trig[t].state \in ActiveStates
            /\ Y[t].state \in {"PENDING", "CLAIMED"} => trig[t].state \in {"PENDING", "CLAIMED"}
            /\ Y[t].state = "none" <=> trig[t].state = "none"
            /\ Y[t].note = trig[t].note \/ Y[t].note = "PENDING"
  BY <1>2
<1>. HIDE DEF Y
<1>3. /\ Y[t] \in TriggerRows /\ Y[t].run = T[t].run /\ Y[t].note = T[t].note
      /\ \/ Y[t].state = T[t].state
         \/ /\ T[t].state \in {"DISPATCHED", "RUNNING"}
            /\ \/ Y[t].state = "RUNNING"
               \/ Y[t].state = "COMPLETED" /\ status[T[t].run] = "completed"
               \/ Y[t].state = "CANCELLED" /\ status[T[t].run] = "cancelled"
               \/ /\ Y[t].state = "FAILED"
                  /\ status[T[t].run] \notin {"queued", "running", "completed", "cancelled"}
  BY <1>1, SyncedRows DEF Y
<1>4. Told(trig[t])
  BY DEF IInv, Tables, AllTold
<1>5. CASE Y[t].state = T[t].state
  BY <1>3, <1>4, <1>5 DEF Told, Kept, ActiveStates
<1>6. CASE T[t].state \in {"DISPATCHED", "RUNNING"} /\ Y[t].state # T[t].state
  <2>1. T[t].state = trig[t].state /\ T[t].run = trig[t].run /\ trig[t].run # 0
    BY <1>4, <1>6 DEF Told, Kept
  <2>2. trig[t].run \in Runs /\ trig[t].run <= Len(conv) /\ Len(conv) \in Nat
    BY <1>1, <2>1, TypeParts, LenProperties DEF IInv, Tables, Linked, TriggerRows
  <2>3. status[trig[t].run] \in Statuses /\ status[trig[t].run] # "absent"
    BY <1>1, <2>2 DEF IInv, Tables, Submitted, Runs
  <2>4. Told(Y[t])
    BY <1>3, <1>6, <2>1, <2>3 DEF Told, Kept, Statuses, Outcomes
  <2>. QED
    BY <1>3, <1>6, <2>1, <2>4 DEF ActiveStates
<1>. QED
  BY <1>3, <1>5, <1>6

LEMMA RecoveredCalm ==
    ASSUME IInv
    PROVE  /\ Recovered(trig) \in [Triggers -> TriggerRows]
           /\ \A t \in Triggers : LET y == Recovered(trig)[t] IN
                 /\ y.run = trig[t].run
                 /\ y.state = trig[t].state \/ (trig[t].state = "CLAIMED" /\ y.state = "PENDING")
                 /\ y.note = trig[t].note \/ y.note = "PENDING"
<1>1. trig \in [Triggers -> TriggerRows]
  BY TypeParts DEF IInv
<1>2. Recovered(trig) = [t \in Triggers |-> Recovered(trig)[t]]
  BY DEF Recovered
<1>. QED
  BY <1>1, <1>2, RecoveredRows

(* Rows that follow what the store knew anyway. *)
Calm(T) ==
    \A t \in Triggers :
       /\ T[t].run = trig[t].run
       /\ Told(T[t])
       /\ T[t].state \in ActiveStates => trig[t].state \in ActiveStates
       /\ T[t].state \in {"PENDING", "CLAIMED"} => trig[t].state \in {"PENDING", "CLAIMED"}
       /\ trig[t].state # "none" => T[t].state # "none"

LEMMA CalmTables ==
    ASSUME IInv, Calm(trig'), UNCHANGED <<sched, conv, status>>
    PROVE  Tables'
<1>1. Submitted' /\ Linked' /\ AllTold' /\ OneActive'
  BY CalmRows DEF IInv, Tables, Calm
<1>2. OpenIsCurrent'
  BY DEF IInv, Tables, OpenIsCurrent, Calm, Exists
<1>3. Occurred'
  BY RowsStay, TypeParts DEF IInv, Tables, Calm
<1>. QED
  BY <1>1, <1>2, <1>3 DEF Tables

LEMMA TickInv ==
    ASSUME IInv, Tick
    PROVE  IInv'
<1>. DEFINE due == {s \in Schedules : Enabled(s) /\ sched[s].next \in Times /\ sched[s].next <= now}
<1>1. /\ turn = NoOne /\ turn' = "loop" /\ trig' = Synced(Recovered(trig), status)
      /\ me' = [me EXCEPT !["loop"].pc = "materialize", !["loop"].todo = due]
      /\ UNCHANGED <<now, sched, conv, status, reply, outbox, gateway, crashes>>
  BY DEF Tick, LoopIsFree
<1>2. trig' \in [Triggers -> TriggerRows] /\ Calm(trig')
  BY <1>1, RecoveredCalm, SyncedCalm DEF Calm
<1>3. /\ me' \in [Actors -> Coroutines] /\ me'["loop"].pc = "materialize" /\ me'["loop"].todo = due
      /\ \A b \in Actors \ {"loop"} : me'[b] = me[b]
  <2>1. due \subseteq Schedules /\ me["loop"] \in Coroutines /\ me \in [Actors -> Coroutines]
    BY NoOneIsNoActor, TypeParts DEF IInv
  <2>. HIDE DEF due
  <2>2. [me["loop"] EXCEPT !.pc = "materialize", !.todo = due] \in Coroutines
    BY <2>1 DEF Coroutines
  <2>. QED
    BY <1>1, <2>1, <2>2, NoOneIsNoActor DEF Coroutines
<1>4. TypeOK'
  BY <1>1, <1>2, <1>3, NoOneIsNoActor DEF IInv, TypeOK
<1>5. Proper("loop")'
  BY <1>1, <1>3 DEF Proper, Enabled, Exists
<1>6. Control'
  BY <1>1, <1>3, <1>5, OthersWait, NoOneIsNoActor DEF IInv
<1>7. Tables'
  BY <1>1, <1>2, CalmTables
<1>. QED
  BY <1>4, <1>6, <1>7 DEF IInv

(* A tick that raises, a lost process: the tables stay. *)
LEMMA ReturnInv ==
    ASSUME IInv, NEW a \in Actors, Return(a) \/ Raise(a), turn \in {a, NoOne},
           Calm(trig'), trig' \in [Triggers -> TriggerRows],
           UNCHANGED <<now, sched, conv, status, reply, outbox, crashes>>
    PROVE  IInv'
<1>1. /\ me' \in [Actors -> Coroutines] /\ me'[a].pc = "idle" /\ turn' = NoOne
      /\ \A b \in Actors \ {a} : me'[b] = me[b]
      /\ gateway' \in {"down", "starting", "serving"}
  BY ReturnFacts, TypeParts DEF IInv
<1>2. TypeOK'
  BY <1>1 DEF IInv, TypeOK
<1>3. Control'
  BY <1>1, OthersWait, Unbound, NoOneIsNoActor DEF IInv
<1>. QED
  BY <1>2, <1>3, CalmTables DEF IInv

LEMMA StillCalm ==
    ASSUME IInv, trig' = trig
    PROVE  Calm(trig') /\ trig' \in [Triggers -> TriggerRows]
BY TypeParts DEF IInv, Tables, AllTold, Calm

LEMMA MaterializeRaisesInv ==
    ASSUME IInv, MaterializeRaises
    PROVE  IInv'
BY ReturnInv, StillCalm, NoOneIsNoActor DEF MaterializeRaises

LEMMA DueIsTyped ==
    ASSUME IInv, NEW s \in Schedules, Exists(s), sched[s].next \in Times, sched[s].next <= now
    PROVE  /\ Due(s) \subseteq Times
           /\ Following(s) \in Nat
           /\ \A at \in Times : Decision(s, at) \in {"SKIPPED", "MISSED", "PENDING"}
<1>1. Due(s) \subseteq Times
  BY DEF Due
<1>2. IsFiniteSet(Due(s))
  <2>1. 1 \in Int /\ MaxTime \in Int
    BY LimitsAssumption
  <2>. QED
    BY <1>1, <2>1, FS_Interval, FS_Subset DEF Times
<1>3. Cardinality(Due(s)) \in Nat
  BY <1>2, FS_CardinalityType
<1>4. sched[s].next \in Nat
  BY GenerationOfExisting, TypeParts DEF IInv
<1>5. Interval * Cardinality(Due(s)) \in Nat
  BY <1>3, LimitsAssumption, SMT
<1>6. Following(s) \in Nat
  BY <1>4, <1>5 DEF Following
<1>7. \A at \in Times : Decision(s, at) \in {"SKIPPED", "MISSED", "PENDING"}
  BY DEF Decision
<1>. QED
  BY <1>1, <1>6, <1>7

(* The lemma about arithmetic, on a schedule: all that comes before the    *)
(* following time is due now or was due before.                            *)
LEMMA NothingBetween ==
    ASSUME IInv, NEW s \in Schedules, Exists(s), OccurredInOrder(s),
           sched[s].cfg.kind # "one_shot", sched[s].next \in Times, sched[s].next <= now
    PROVE  /\ \E j \in Nat : Following(s) = Nth(s, j)
           /\ \A k \in Nat : Nth(s, k) < Following(s) => Nth(s, k) < sched[s].next \/ Nth(s, k) \in Due(s)
<1>. DEFINE first == sched[s].first
            next == sched[s].next
            count == Cardinality(Due(s))
<1>1. /\ Interval \in Nat \ {0} /\ first \in Nat /\ next \in Nat /\ next > 0 /\ now \in Nat
      /\ now <= MaxTime
  BY GenerationOfExisting, LimitsAssumption, TypeParts DEF IInv, Times
<1>2. PICK j \in Nat : next = first + Interval * j
  BY DEF OccurredInOrder, Nth
<1>3. Due(s) = {at \in Times : at \in next .. now /\ (at - next) % Interval = 0}
  BY DEF Due
<1>4. count \in Nat
  <2>1. 1 \in Int /\ MaxTime \in Int
    BY LimitsAssumption
  <2>2. Due(s) \subseteq Times
    BY <1>3
  <2>. QED
    BY <2>1, <2>2, FS_Interval, FS_Subset, FS_CardinalityType DEF Times
<1>5. Following(s) = next + Interval * count
  BY DEF Following
<1>6. Following(s) = first + Interval * (j + count) /\ j + count \in Nat
  BY <1>1, <1>2, <1>4, <1>5, SMT
<1>7. ASSUME NEW k \in Nat, first + Interval * k < Following(s), ~(first + Interval * k < next)
      PROVE  first + Interval * k \in Due(s)
  <2>1. Interval * k < Interval * (j + count) /\ ~(Interval * k < Interval * j)
    BY <1>1, <1>2, <1>4, <1>6, <1>7, SMT
  <2>2. k < j + count /\ ~(k < j)
    BY <1>1, <1>4, <2>1, MultiplesInOrder
  <2>3. k - j \in Nat /\ k - j < count
    BY <1>4, <2>2
  <2>4. next + Interval * (k - j) \in Due(s)
    BY <1>1, <1>3, <2>3, DueInOrder
  <2>5. next + Interval * (k - j) = first + Interval * k
    BY <1>1, <1>2, SMT
  <2>. QED
    BY <2>4, <2>5
<1>. QED
  BY <1>6, <1>7 DEF Nth

LEMMA MaterializeInv ==
    ASSUME IInv, Materialize
    PROVE  IInv'
<1>0. PICK s : s = Current("loop")
  OBVIOUS
<1>1. /\ turn = "loop" /\ me["loop"].pc = "materialize" /\ me["loop"].todo # {}
      /\ trig' = [t \in Triggers |->
            IF t[1] = s /\ t[2] = sched[s].gen /\ t[3] \in Due(s) /\ trig[t].state = "none"
            THEN [NoTrigger EXCEPT !.state = Decision(s, t[3]), !.due = t[3]]
            ELSE trig[t]]
      /\ sched' = [sched EXCEPT ![s].next = Following(s)]
      /\ me' = [me EXCEPT !["loop"].todo = Rest("loop")]
      /\ UNCHANGED <<now, conv, status, reply, outbox, gateway, turn, crashes>>
  BY <1>0 DEF Materialize
<1>2. /\ sched \in [Schedules -> ScheduleRows] /\ trig \in [Triggers -> TriggerRows]
      /\ me \in [Actors -> Coroutines] /\ me["loop"].todo \subseteq Schedules
  BY TypeParts, NoOneIsNoActor DEF IInv, Coroutines
<1>3. s \in me["loop"].todo /\ s \in Schedules
  BY <1>0, <1>1, <1>2, CurrentIsListed, NoOneIsNoActor
<1>4. Enabled(s) /\ Exists(s) /\ sched[s].next \in Times /\ sched[s].next <= now
  BY <1>1, <1>3, NoOneIsNoActor DEF IInv, Control, Proper, Enabled
<1>5. /\ Due(s) \subseteq Times /\ Following(s) \in Nat
      /\ \A at \in Times : Decision(s, at) \in {"SKIPPED", "MISSED", "PENDING"}
  BY <1>3, <1>4, DueIsTyped
<1>6. sched[s] \in [live : BOOLEAN, gone : BOOLEAN, gen : Generations, cfg : ConfigType,
                    first : Nat, next : Nat]
  BY <1>2, <1>3, <1>4, GenerationOfExisting
<1>7. /\ sched' \in [Schedules -> ScheduleRows]
      /\ sched'[s] = [sched[s] EXCEPT !.next = Following(s)]
      /\ \A u \in Schedules \ {s} : sched'[u] = sched[u]
  <2>1. [sched[s] EXCEPT !.next = Following(s)] \in ScheduleRows
    BY <1>5, <1>6 DEF ScheduleRows
  <2>2. sched' = [sched EXCEPT ![s] = [sched[s] EXCEPT !.next = Following(s)]]
    BY <1>1
  <2>. QED
    BY <1>2, <1>3, <2>1, <2>2
<1>8. /\ sched'[s].next = Following(s) /\ sched'[s].gen = sched[s].gen
      /\ sched'[s].cfg = sched[s].cfg /\ sched'[s].first = sched[s].first
      /\ sched'[s].gone = sched[s].gone
  BY <1>6, <1>7
<1>9. \A u \in Schedules : Exists(u)' <=> Exists(u)
  BY <1>7, <1>8 DEF Exists
<1>10. ASSUME NEW t \in Triggers
       PROVE  /\ trig'[t] \in TriggerRows
              /\ \/ trig'[t] = trig[t]
                 \/ /\ trig[t].state = "none" /\ trig'[t].run = 0
                    /\ trig'[t].state \in {"SKIPPED", "MISSED", "PENDING"}
                    /\ t[1] = s /\ t[2] = sched[s].gen
              /\ t[1] = s /\ t[2] = sched[s].gen /\ t[3] \in Due(s) => trig'[t].state # "none"
  <2>1. CASE t[1] = s /\ t[2] = sched[s].gen /\ t[3] \in Due(s) /\ trig[t].state = "none"
    <3>1. trig'[t] = [NoTrigger EXCEPT !.state = Decision(s, t[3]), !.due = t[3]]
      BY <1>1, <2>1
    <3>2. NoTrigger \in TriggerRows /\ NoTrigger.run = 0
      BY DEF NoTrigger, TriggerRows
    <3>3. Decision(s, t[3]) \in {"SKIPPED", "MISSED", "PENDING"} /\ t[3] \in Times
      BY <1>5, <2>1
    <3>. QED
      BY <2>1, <3>1, <3>2, <3>3 DEF TriggerRows, FinalStates
  <2>2. CASE ~(t[1] = s /\ t[2] = sched[s].gen /\ t[3] \in Due(s) /\ trig[t].state = "none")
    BY <1>1, <1>2, <2>2
  <2>. QED
    BY <2>1, <2>2
<1>11. trig' \in [Triggers -> TriggerRows]
  <2>1. trig' = [t \in Triggers |-> trig'[t]]
    BY <1>1
  <2>. QED
    BY <2>1, <1>10
<1>12. \A t \in Triggers :
          /\ trig'[t].run = trig[t].run
          /\ trig'[t].state \in ActiveStates => trig[t].state \in ActiveStates
          /\ Told(trig'[t])
  BY <1>10 DEF IInv, Tables, AllTold, Told, Kept, ActiveStates
<1>13. Submitted' /\ Linked' /\ AllTold' /\ OneActive'
  BY <1>1, <1>12, CalmRows DEF IInv, Tables
<1>14. OpenIsCurrent'
  <2>. SUFFICES ASSUME NEW t \in Triggers, trig'[t].state \in {"PENDING", "CLAIMED"}
                PROVE  Exists(t[1])' /\ t[2] = sched'[t[1]].gen
    BY DEF OpenIsCurrent
  <2>1. Exists(t[1]) /\ t[2] = sched[t[1]].gen /\ t[1] \in Schedules
    BY <1>4, <1>10 DEF IInv, Tables, OpenIsCurrent, Triggers
  <2>. QED
    BY <2>1, <1>7, <1>8, <1>9
<1>15. \A t \in Triggers : trig[t].state # "none" => trig'[t].state # "none"
  BY <1>10
<1>16. \A at \in Times : HasRow(s, at) \/ at \in Due(s) => HasRow(s, at)'
  <2>. SUFFICES ASSUME NEW at \in Times, HasRow(s, at) \/ at \in Due(s) PROVE HasRow(s, at)'
    OBVIOUS
  <2>1. <<s, sched[s].gen, at>> \in Triggers
    BY <1>3, <1>6 DEF Triggers
  <2>2. trig'[<<s, sched[s].gen, at>>].state # "none"
    BY <2>1, <1>10, <1>15 DEF HasRow
  <2>. QED
    BY <2>2, <1>8 DEF HasRow
<1>17. Occurs(s)'
  <2>1. CASE sched[s].cfg.kind = "one_shot"
    <3>1. OccurredOnce(s)
      BY <1>3, <1>4, <2>1 DEF IInv, Tables, Occurred, Occurs
    <3>2. sched[s].next = sched[s].first /\ Following(s) = 0 /\ sched[s].first \in Due(s)
      BY <1>4, <2>1, <3>1 DEF OccurredOnce, Times, Following, Due
    <3>3. OccurredOnce(s)'
      BY <1>8, <1>16, <3>1, <3>2 DEF OccurredOnce
    <3>. QED
      BY <1>8, <2>1, <3>3 DEF Occurs
  <2>2. CASE sched[s].cfg.kind # "one_shot"
    <3>1. OccurredInOrder(s)
      BY <1>3, <1>4, <2>2 DEF IInv, Tables, Occurred, Occurs
    <3>2. /\ \E j \in Nat : Following(s) = Nth(s, j)
          /\ \A k \in Nat : Nth(s, k) < Following(s) =>
                Nth(s, k) < sched[s].next \/ Nth(s, k) \in Due(s)
      BY <1>3, <1>4, <2>2, <3>1, NothingBetween
    <3>3. \A k : Nth(s, k)' = Nth(s, k)
      BY <1>8 DEF Nth
    <3>4. \A k \in Nat : Nth(s, k) < Following(s) => Nth(s, k) \in Times /\ HasRow(s, Nth(s, k))'
      <4>. SUFFICES ASSUME NEW k \in Nat, Nth(s, k) < Following(s)
                    PROVE  Nth(s, k) \in Times /\ HasRow(s, Nth(s, k))'
        OBVIOUS
      <4>1. PICK at : at = Nth(s, k)
        OBVIOUS
      <4>2. at \in Times /\ (HasRow(s, at) \/ at \in Due(s))
        BY <1>5, <3>1, <3>2, <4>1 DEF OccurredInOrder
      <4>3. HasRow(s, at)' /\ Nth(s, k)' = at
        BY <1>16, <3>3, <4>1, <4>2
      <4>. QED
        BY <4>1, <4>2, <4>3
    <3>5. OccurredInOrder(s)'
      BY <1>8, <3>1, <3>2, <3>3, <3>4 DEF OccurredInOrder
    <3>. QED
      BY <1>8, <2>2, <3>5 DEF Occurs
  <2>. QED
    BY <2>1, <2>2
<1>18. Occurred'
  <2>. SUFFICES ASSUME NEW u \in Schedules, u # s, Exists(u) PROVE Occurs(u)'
    BY <1>9, <1>17 DEF Occurred
  <2>. QED
    BY <1>2, <1>7, <1>15, OccurrencesStay DEF IInv, Tables, Occurred
<1>19. /\ me' \in [Actors -> Coroutines] /\ me'["loop"].pc = "materialize"
       /\ me'["loop"].todo = me["loop"].todo \ {s}
       /\ \A b \in Actors \ {"loop"} : me'[b] = me[b]
  BY <1>0, <1>1, <1>2, NoOneIsNoActor DEF Coroutines, Rest
<1>20. TypeOK'
  BY <1>1, <1>7, <1>11, <1>19 DEF IInv, TypeOK
<1>21. Proper("loop")'
  <2>. SUFFICES ASSUME NEW u \in me["loop"].todo \ {s}
                PROVE  Enabled(u)' /\ sched'[u].next \in Times /\ sched'[u].next <= now'
    BY <1>1, <1>19 DEF Proper
  <2>1. Enabled(u) /\ sched[u].next \in Times /\ sched[u].next <= now
    BY <1>1, NoOneIsNoActor DEF IInv, Control, Proper
  <2>. QED
    BY <2>1, <1>1, <1>2, <1>7, <1>9 DEF Enabled
<1>22. Control'
  BY <1>1, <1>19, <1>21, OthersWait, NoOneIsNoActor DEF IInv
<1>. QED
  BY <1>13, <1>14, <1>18, <1>20, <1>22 DEF IInv, Tables

LEMMA RunNowInv ==
    ASSUME IInv, NEW q \in Requests, NEW s \in Schedules, RunNow(q, s)
    PROVE  IInv'
<1>. DEFINE T == Synced(Recovered(trig), status)
            t0 == <<s, sched[s].gen, q>>
<1>1. /\ turn = NoOne /\ turn' = q /\ Exists(s)
      /\ trig' = IF T[t0].state # "none" THEN T
                 ELSE [T EXCEPT ![t0] = [NoTrigger EXCEPT !.state = "PENDING", !.due = now]]
      /\ me' = [me EXCEPT ![q].pc = "list"]
      /\ UNCHANGED <<now, sched, conv, status, reply, outbox, gateway, crashes>>
  BY DEF RunNow, Serving
<1>2. /\ sched \in [Schedules -> ScheduleRows] /\ trig \in [Triggers -> TriggerRows]
      /\ me \in [Actors -> Coroutines] /\ now \in Times
  BY TypeParts DEF IInv
<1>3. t0 \in Triggers
  BY <1>1, <1>2, GenerationOfExisting DEF Triggers
<1>4. /\ T \in [Triggers -> TriggerRows]
      /\ \A t \in Triggers :
            /\ T[t].run = trig[t].run
            /\ Told(T[t])
            /\ T[t].state \in ActiveStates => trig[t].state \in ActiveStates
            /\ T[t].state \in {"PENDING", "CLAIMED"} => trig[t].state \in {"PENDING", "CLAIMED"}
            /\ T[t].state = "none" <=> trig[t].state = "none"
  BY RecoveredCalm, SyncedCalm
<1>. HIDE DEF T
<1>5. NoTrigger \in TriggerRows /\ NoTrigger.run = 0 /\ NoTrigger.state = "none"
  BY DEF NoTrigger, TriggerRows
<1>. DEFINE row == [NoTrigger EXCEPT !.state = "PENDING", !.due = now]
<1>6. row \in TriggerRows /\ row.run = 0 /\ row.state = "PENDING"
  BY <1>2, <1>5 DEF TriggerRows
<1>7. \/ trig' = T
      \/ trig' = [T EXCEPT ![t0] = row] /\ T[t0].state = "none"
  BY <1>1
<1>. HIDE DEF row, t0
<1>8. trig' \in [Triggers -> TriggerRows]
  BY <1>3, <1>4, <1>6, <1>7
<1>9. \A t \in Triggers :
         \/ trig'[t] = T[t]
         \/ trig'[t] = row /\ t = t0 /\ T[t0].state = "none" /\ trig[t0].run = 0
  BY <1>3, <1>4, <1>7 DEF Told, Kept
<1>10. \A t \in Triggers :
          /\ trig'[t].run = trig[t].run
          /\ trig'[t].state \in ActiveStates => trig[t].state \in ActiveStates
          /\ Told(trig'[t])
          /\ trig[t].state # "none" => trig'[t].state # "none"
  BY <1>4, <1>6, <1>9 DEF Told, Kept, ActiveStates
<1>11. Submitted' /\ Linked' /\ AllTold' /\ OneActive' /\ Occurred'
  BY <1>1, <1>2, <1>10, CalmRows, RowsStay DEF IInv, Tables
<1>12. OpenIsCurrent'
  <2>1. t0[1] = s /\ t0[2] = sched[s].gen
    BY DEF t0
  <2>. QED
    BY <1>1, <1>4, <1>6, <1>9, <2>1 DEF IInv, Tables, OpenIsCurrent, Exists
<1>13. /\ me' \in [Actors -> Coroutines] /\ me'[q].pc = "list" /\ q \in Actors
       /\ \A b \in Actors \ {q} : me'[b] = me[b]
  BY <1>1, <1>2 DEF Coroutines, Actors
<1>14. TypeOK'
  BY <1>1, <1>8, <1>13 DEF IInv, TypeOK
<1>15. Control'
  BY <1>1, <1>13, OthersWait, Unbound, NoOneIsNoActor DEF IInv
<1>. QED
  BY <1>11, <1>12, <1>14, <1>15 DEF IInv, Tables

-----------------------------------------------------------------------------
(* The dispatch.                                                           *)

(* The actor moves and the tables stay. *)
LEMMA QuietInv ==
    ASSUME IInv, NEW a \in Actors, UNCHANGED <<now, store, gateway, crashes>>,
           turn \in {a, NoOne}, turn' \in {a, NoOne},
           me' \in [Actors -> Coroutines], \A b \in Actors \ {a} : me'[b] = me[b],
           Proper(a)'
    PROVE  IInv'
<1>1. TypeOK'
  BY DEF IInv, TypeOK, store
<1>2. Tables'
  BY QuietTables DEF IInv, store
<1>3. Control'
  BY OthersWait, NoOneIsNoActor DEF IInv
<1>. QED
  BY <1>1, <1>2, <1>3 DEF IInv

LEMMA ListSchedulesInv ==
    ASSUME IInv, NEW a \in Actors, ListSchedules(a)
    PROVE  IInv'
<1>1. /\ turn = a /\ turn' = a /\ UNCHANGED <<now, store, gateway, crashes>>
      /\ me' = [me EXCEPT ![a].pc = "dispatch",
                          ![a].todo = {s \in Schedules : Enabled(s)}, ![a].view = sched]
  BY DEF ListSchedules
<1>2. me \in [Actors -> Coroutines] /\ sched \in [Schedules -> ScheduleRows]
  BY TypeParts DEF IInv
<1>3. [me[a] EXCEPT !.pc = "dispatch", !.todo = {s \in Schedules : Enabled(s)}, !.view = sched]
        \in Coroutines
  BY <1>2 DEF Coroutines
<1>4. /\ me' \in [Actors -> Coroutines] /\ me'[a].pc = "dispatch"
      /\ \A b \in Actors \ {a} : me'[b] = me[b]
  BY <1>1, <1>2, <1>3 DEF Coroutines
<1>5. Proper(a)'
  <2>1. turn' = a /\ me'[a].pc = "dispatch"
    BY <1>1, <1>4
  <2>. QED
    BY <2>1, Unbound
<1>. QED
  BY <1>1, <1>4, <1>5, QuietInv

LEMMA ConsiderInv ==
    ASSUME IInv, NEW a \in Actors, Consider(a)
    PROVE  IInv'
<1>0. PICK s : s = Current(a)
  OBVIOUS
<1>. DEFINE pending == In(s, {"PENDING"})
            active == In(s, ActiveStates)
<1>1. /\ turn = a /\ turn' = a /\ UNCHANGED <<now, store, gateway, crashes>>
      /\ \/ Leave(a)
         \/ \E pc, cancel :
               /\ me' = [me EXCEPT ![a].pc = pc, ![a].pending = pending, ![a].cancel = cancel]
               /\ \/ pc = "claim" /\ active = {} /\ cancel = {}
                  \/ pc = "skip" /\ cancel = {}
                  \/ pc = "replace" /\ cancel = {trig[t].run : t \in active} \ {0}
  BY <1>0 DEF Consider, Dispatching
<1>2. me \in [Actors -> Coroutines] /\ trig \in [Triggers -> TriggerRows]
  BY TypeParts DEF IInv
<1>3. CASE Leave(a)
  BY <1>1, <1>2, <1>3, LeaveFacts, Unbound, QuietInv
<1>4. ASSUME NEW pc, NEW cancel,
             me' = [me EXCEPT ![a].pc = pc, ![a].pending = pending, ![a].cancel = cancel],
             \/ pc = "claim" /\ active = {} /\ cancel = {}
             \/ pc = "skip" /\ cancel = {}
             \/ pc = "replace" /\ cancel = {trig[t].run : t \in active} \ {0}
      PROVE  IInv'
  <2>1. pending \subseteq Triggers /\ active \subseteq Triggers /\ pc \in {"claim", "skip", "replace"}
    BY <1>4 DEF In
  <2>2. cancel \subseteq Runs
    BY <1>2, <1>4, <2>1 DEF TriggerRows
  <2>3. \A t \in pending : t[1] = s
    BY DEF In
  <2>4. pc = "claim" => \A t \in Triggers : t[1] = s => trig[t].state \notin ActiveStates
    BY <1>4 DEF In
  <2>. HIDE DEF pending, active
  <2>5. [me[a] EXCEPT !.pc = pc, !.pending = pending, !.cancel = cancel] \in Coroutines
    BY <1>2, <2>1, <2>2 DEF Coroutines
  <2>6. /\ me' \in [Actors -> Coroutines] /\ me'[a].pc = pc /\ me'[a].pending = pending
        /\ me'[a].todo = me[a].todo
        /\ \A b \in Actors \ {a} : me'[b] = me[b]
    BY <1>2, <1>4, <2>5 DEF Coroutines
  <2>7. Current(a)' = s
    BY <1>0, <2>6, CurrentKept
  <2>8. Proper(a)'
    BY <1>1, <2>1, <2>3, <2>4, <2>6, <2>7 DEF Proper, store
  <2>. QED
    BY <1>1, <2>6, <2>8, QuietInv
<1>. QED
  BY <1>1, <1>3, <1>4

(* The actor takes an occurrence off its list, or leaves the schedule. *)
LEMMA PassOver ==
    ASSUME me \in [Actors -> Coroutines], NEW a \in Actors, Control, turn = a, turn' = a,
           me[a].pc \in {"skip", "claim"},
           me[a].pc = "claim" => trig' = trig,
           NEW t, Leave(a) \/ me' = [me EXCEPT ![a].pending = me[a].pending \ {t}]
    PROVE  /\ me' \in [Actors -> Coroutines]
           /\ \A b \in Actors \ {a} : me'[b] = me[b]
           /\ Proper(a)'
<1>1. CASE Leave(a)
  BY <1>1, LeaveFacts, Unbound
<1>2. CASE me' = [me EXCEPT ![a].pending = me[a].pending \ {t}]
  <2>1. [me[a] EXCEPT !.pending = me[a].pending \ {t}] \in Coroutines
    BY DEF Coroutines
  <2>2. /\ me' \in [Actors -> Coroutines] /\ me'[a].pc = me[a].pc
        /\ me'[a].pending = me[a].pending \ {t}
        /\ me'[a].todo = me[a].todo /\ me'[a].view = me[a].view
        /\ \A b \in Actors \ {a} : me'[b] = me[b]
    BY <1>2, <2>1 DEF Coroutines
  <2>3. Current(a)' = Current(a)
    BY <2>2, CurrentKept
  <2>4. Proper(a)
    BY DEF Control
  <2>. QED
    BY <2>2, <2>3, <2>4 DEF Proper
<1>. QED
  BY <1>1, <1>2

LEMMA SkipOverlapInv ==
    ASSUME IInv, NEW a \in Actors, SkipOverlap(a)
    PROVE  IInv'
<1>1. PICK t \in me[a].pending :
         /\ turn = a /\ turn' = a /\ me[a].pc = "skip"
         /\ trig' = [trig EXCEPT ![t].state = IF @ = "PENDING" THEN "SKIPPED" ELSE @]
         /\ Leave(a) \/ me' = [me EXCEPT ![a].pending = me[a].pending \ {t}]
         /\ UNCHANGED <<now, sched, conv, status, reply, outbox, gateway, crashes>>
  BY DEF SkipOverlap, Dispatching, Earliest
<1>2. /\ me \in [Actors -> Coroutines] /\ trig \in [Triggers -> TriggerRows]
      /\ t \in Triggers
  BY TypeParts DEF IInv, Coroutines
<1>. DEFINE row == [trig[t] EXCEPT !.state = IF trig[t].state = "PENDING" THEN "SKIPPED" ELSE trig[t].state]
<1>3. row \in TriggerRows /\ row.run = trig[t].run
      /\ \/ row.state = trig[t].state
         \/ trig[t].state = "PENDING" /\ row.state = "SKIPPED"
  BY <1>2 DEF TriggerRows, FinalStates
<1>4. trig' = [trig EXCEPT ![t] = row]
  BY <1>1, <1>2
<1>. HIDE DEF row
<1>5. trig' \in [Triggers -> TriggerRows] /\ Calm(trig')
  BY <1>2, <1>3, <1>4 DEF IInv, Tables, AllTold, Told, Kept, Calm, ActiveStates
<1>6. /\ me' \in [Actors -> Coroutines] /\ Proper(a)'
      /\ \A b \in Actors \ {a} : me'[b] = me[b]
  BY <1>1, <1>2, PassOver DEF IInv
<1>7. TypeOK'
  BY <1>1, <1>5, <1>6 DEF IInv, TypeOK
<1>8. Control'
  BY <1>1, <1>6, OthersWait, NoOneIsNoActor DEF IInv
<1>. QED
  BY <1>1, <1>5, <1>7, <1>8, CalmTables DEF IInv

(* What happens to a run that is not over says nothing a row would tell. *)
LEMMA RunsMove ==
    ASSUME IInv, UNCHANGED <<sched, trig, conv>>,
           \A r \in Runs : \/ status'[r] = status[r]
                           \/ /\ status[r] \in {"queued", "running"}
                              /\ status'[r] \in {"running"} \cup Outcomes
    PROVE  Tables'
<1>1. trig \in [Triggers -> TriggerRows]
  BY TypeParts DEF IInv
<1>2. Submitted'
  BY DEF IInv, Tables, Submitted, Outcomes
<1>3. AllTold'
  <2>. SUFFICES ASSUME NEW t \in Triggers PROVE Told(trig[t])'
    BY DEF AllTold
  <2>1. Told(trig[t]) /\ trig[t].run \in Runs \cup {0}
    BY <1>1 DEF IInv, Tables, AllTold, TriggerRows
  <2>2. CASE trig[t].run \in Runs
    BY <2>1, <2>2 DEF Told, Kept
  <2>3. CASE trig[t].run = 0
    BY <2>1, <2>3 DEF Told, Kept
  <2>. QED
    BY <2>1, <2>2, <2>3
<1>4. Linked' /\ OneActive' /\ OpenIsCurrent'
  BY DEF IInv, Tables, Linked, OneActive, OpenIsCurrent, Exists
<1>5. Occurred'
  BY RowsStay, TypeParts DEF IInv, Tables
<1>. QED
  BY <1>2, <1>3, <1>4, <1>5 DEF Tables

LEMMA CancelAtOnceInv ==
    ASSUME IInv, NEW a \in Actors, CancelAtOnce(a)
    PROVE  IInv'
<1>1. PICK r : /\ turn = a /\ turn' = a /\ me[a].pc = "replace"
               /\ status' = [status EXCEPT ![r] = IF status[r] \in {"queued", "running"}
                                                  THEN "cancelled" ELSE status[r]]
               /\ me' = [me EXCEPT ![a].cancel = me[a].cancel \ {r}]
               /\ UNCHANGED <<now, sched, trig, conv, reply, outbox, gateway, crashes>>
  BY DEF CancelAtOnce, Dispatching
<1>2. me \in [Actors -> Coroutines] /\ status \in [Runs -> Statuses]
  BY TypeParts DEF IInv
<1>3. /\ \A p \in Runs : \/ status'[p] = status[p]
                         \/ status[p] \in {"queued", "running"} /\ status'[p] = "cancelled"
      /\ status' \in [Runs -> Statuses]
  BY <1>1, <1>2 DEF Statuses, Outcomes
<1>4. Tables'
  BY <1>1, <1>3, RunsMove DEF Outcomes
<1>5. [me[a] EXCEPT !.cancel = me[a].cancel \ {r}] \in Coroutines
  BY <1>2 DEF Coroutines
<1>6. /\ me' \in [Actors -> Coroutines] /\ me'[a].pc = "replace"
      /\ me'[a].pending = me[a].pending /\ me'[a].todo = me[a].todo
      /\ \A b \in Actors \ {a} : me'[b] = me[b]
  BY <1>1, <1>2, <1>5 DEF Coroutines
<1>7. TypeOK'
  BY <1>1, <1>3, <1>6, TypeParts DEF IInv, TypeOK, RunQueue!Outcomes, Outcomes, Statuses
<1>8. Proper(a) /\ Current(a)' = Current(a)
  BY <1>6, CurrentKept DEF IInv, Control
<1>9. Proper(a)'
  BY <1>1, <1>6, <1>8 DEF Proper
<1>. QED
  BY <1>1, <1>4, <1>6, <1>7, <1>9, OthersWait, NoOneIsNoActor DEF IInv

LEMMA CancelStopsInv ==
    ASSUME IInv, NEW a \in Actors, CancelStops(a)
    PROVE  IInv'
<1>1. /\ turn = a /\ turn' = NoOne /\ me[a].pc = "replace"
      /\ me' = [me EXCEPT ![a].pc = "stopping"]
      /\ UNCHANGED <<now, store, gateway, crashes>>
  BY DEF CancelStops, Dispatching
<1>2. me \in [Actors -> Coroutines]
  BY TypeParts DEF IInv
<1>3. /\ me' \in [Actors -> Coroutines] /\ me'[a].pc = "stopping"
      /\ me'[a].pending = me[a].pending /\ me'[a].todo = me[a].todo
      /\ \A b \in Actors \ {a} : me'[b] = me[b]
  BY <1>1, <1>2 DEF Coroutines
<1>4. Proper(a) /\ Current(a)' = Current(a)
  BY <1>3, CurrentKept DEF IInv, Control
<1>5. Proper(a)'
  BY <1>1, <1>3, <1>4 DEF Proper
<1>. QED
  BY <1>1, <1>3, <1>5, QuietInv

LEMMA StopAnsweredInv ==
    ASSUME IInv, NEW a \in Actors, StopAnswered(a)
    PROVE  IInv'
<1>1. PICK r : /\ turn = NoOne /\ turn' = a /\ me[a].pc = "stopping"
               /\ status' = [status EXCEPT ![r] = IF status[r] = "running"
                                                  THEN "cancelled" ELSE status[r]]
               /\ me' = [me EXCEPT ![a].pc = "replace", ![a].cancel = me[a].cancel \ {r}]
               /\ UNCHANGED <<now, sched, trig, conv, reply, outbox, gateway, crashes>>
  BY DEF StopAnswered, LoopIsFree
<1>2. me \in [Actors -> Coroutines] /\ status \in [Runs -> Statuses]
  BY TypeParts DEF IInv
<1>3. /\ \A p \in Runs : \/ status'[p] = status[p]
                         \/ status[p] = "running" /\ status'[p] = "cancelled"
      /\ status' \in [Runs -> Statuses]
  BY <1>1, <1>2 DEF Statuses, Outcomes
<1>4. Tables'
  BY <1>1, <1>3, RunsMove DEF Outcomes
<1>5. [me[a] EXCEPT !.pc = "replace", !.cancel = me[a].cancel \ {r}] \in Coroutines
  BY <1>2 DEF Coroutines
<1>6. /\ me' \in [Actors -> Coroutines] /\ me'[a].pc = "replace"
      /\ me'[a].pending = me[a].pending /\ me'[a].todo = me[a].todo
      /\ \A b \in Actors \ {a} : me'[b] = me[b]
  BY <1>1, <1>2, <1>5 DEF Coroutines
<1>7. TypeOK'
  BY <1>1, <1>3, <1>6, TypeParts DEF IInv, TypeOK, RunQueue!Outcomes, Outcomes, Statuses
<1>8. Proper(a) /\ Current(a)' = Current(a)
  BY <1>6, CurrentKept DEF IInv, Control
<1>9. Proper(a)'
  BY <1>1, <1>6, <1>8 DEF Proper
<1>. QED
  BY <1>1, <1>4, <1>6, <1>7, <1>9, OthersWait, NoOneIsNoActor DEF IInv

LEMMA ReplacedInv ==
    ASSUME IInv, NEW a \in Actors, Replaced(a)
    PROVE  IInv'
<1>1. /\ turn = a /\ turn' = a /\ me[a].pc = "replace" /\ trig' = Synced(trig, status)
      /\ \/ Leave(a)
         \/ /\ me' = [me EXCEPT ![a].pc = "claim"]
            /\ \A t \in Triggers : t[1] = Current(a) => trig'[t].state \notin ActiveStates
      /\ UNCHANGED <<now, sched, conv, status, reply, outbox, gateway, crashes>>
  BY DEF Replaced, Dispatching
<1>2. me \in [Actors -> Coroutines] /\ trig \in [Triggers -> TriggerRows]
  BY TypeParts DEF IInv
<1>3. trig' \in [Triggers -> TriggerRows] /\ Calm(trig')
  BY <1>1, <1>2, SyncedCalm DEF Calm
<1>4. /\ me' \in [Actors -> Coroutines] /\ Proper(a)'
      /\ \A b \in Actors \ {a} : me'[b] = me[b]
  <2>1. CASE Leave(a)
    BY <1>1, <1>2, <2>1, LeaveFacts, Unbound
  <2>2. CASE /\ me' = [me EXCEPT ![a].pc = "claim"]
             /\ \A t \in Triggers : t[1] = Current(a) => trig'[t].state \notin ActiveStates
    <3>1. /\ me' \in [Actors -> Coroutines] /\ me'[a].pc = "claim"
          /\ me'[a].pending = me[a].pending /\ me'[a].todo = me[a].todo
          /\ \A b \in Actors \ {a} : me'[b] = me[b]
      BY <1>2, <2>2 DEF Coroutines
    <3>2. Proper(a) /\ Current(a)' = Current(a)
      BY <3>1, CurrentKept DEF IInv, Control
    <3>3. Proper(a)'
      BY <1>1, <2>2, <3>1, <3>2 DEF Proper
    <3>. QED
      BY <3>1, <3>3
  <2>. QED
    BY <1>1, <2>1, <2>2
<1>5. TypeOK'
  BY <1>1, <1>3, <1>4 DEF IInv, TypeOK
<1>6. Control'
  BY <1>1, <1>4, OthersWait, NoOneIsNoActor DEF IInv
<1>. QED
  BY <1>1, <1>3, <1>5, <1>6, CalmTables DEF IInv

(* The occurrence is the only active one of its schedule: either none was  *)
(* active when the claim looked, or the schedule queues and none was when  *)
(* the stretch began.                                                      *)
LEMMA ClaimTakes ==
    ASSUME IInv, NEW a \in Actors, NEW t \in me[a].pending,
           turn = a, turn' = a, me[a].pc = "claim", trig[t].state = "PENDING",
           \/ In(Current(a), ActiveStates) = {}
           \/ me[a].view[Current(a)].cfg.concurrency = "QUEUE",
           trig' = [trig EXCEPT ![t].state = "CLAIMED", ![t].lease = "held"],
           me' = [me EXCEPT ![a].pc = "submit", ![a].claimed = {t}],
           UNCHANGED <<now, sched, conv, status, reply, outbox, gateway, crashes>>
    PROVE  IInv'
<1>1. /\ me \in [Actors -> Coroutines] /\ trig \in [Triggers -> TriggerRows]
      /\ t \in Triggers
  BY TypeParts DEF IInv, Coroutines
<1>. DEFINE row == [trig[t] EXCEPT !.state = "CLAIMED", !.lease = "held"]
<1>2. row \in TriggerRows /\ row.run = trig[t].run /\ row.state = "CLAIMED"
  BY <1>1 DEF TriggerRows, ActiveStates
<1>3. trig' = [trig EXCEPT ![t] = row]
  BY <1>1
<1>. HIDE DEF row
<1>4. /\ trig' \in [Triggers -> TriggerRows]
      /\ \A u \in Triggers \ {t} : trig'[u] = trig[u]
      /\ trig'[t].state = "CLAIMED" /\ trig'[t].run = trig[t].run
  BY <1>1, <1>2, <1>3
<1>5. /\ t[1] = Current(a)
      /\ \A u \in Triggers : u[1] = Current(a) => trig[u].state \notin ActiveStates
  <2>1. Proper(a)
    BY DEF IInv, Control
  <2>. QED
    BY <2>1 DEF Proper, In
<1>6. OneActive'
  <2>. SUFFICES ASSUME NEW u \in Triggers, NEW v \in Triggers, u[1] = v[1],
                       trig'[u].state \in ActiveStates, trig'[v].state \in ActiveStates
                PROVE  u = v
    BY DEF OneActive
  <2>1. CASE u # t /\ v # t
    BY <1>4, <2>1 DEF IInv, Tables, OneActive
  <2>2. CASE u = t \/ v = t
    BY <1>4, <1>5, <2>2
  <2>. QED
    BY <2>1, <2>2
<1>7. AllTold'
  <2>1. Told(trig[t])
    BY <1>1 DEF IInv, Tables, AllTold
  <2>2. Told(trig'[t])
    BY <1>4, <2>1 DEF Told, Kept
  <2>. QED
    BY <1>4, <2>2 DEF IInv, Tables, AllTold, Told
<1>8. Submitted' /\ Linked'
  BY <1>4 DEF IInv, Tables, Submitted, Linked
<1>9. OpenIsCurrent'
  BY <1>1, <1>4 DEF IInv, Tables, OpenIsCurrent, Exists
<1>10. Occurred'
  BY <1>4, RowsStay, TypeParts DEF IInv, Tables
<1>11. [me[a] EXCEPT !.pc = "submit", !.claimed = {t}] \in Coroutines
  BY <1>1 DEF Coroutines
<1>12. /\ me' \in [Actors -> Coroutines] /\ me'[a].pc = "submit" /\ me'[a].claimed = {t}
       /\ me'[a].pending = me[a].pending /\ me'[a].todo = me[a].todo
       /\ \A b \in Actors \ {a} : me'[b] = me[b]
  BY <1>1, <1>11 DEF Coroutines
<1>13. Proper(a) /\ Current(a)' = Current(a)
  BY <1>12, CurrentKept DEF IInv, Control
<1>14. Proper(a)'
  BY <1>1, <1>4, <1>5, <1>12, <1>13 DEF Proper
<1>15. Control'
  BY <1>12, <1>14, OthersWait, NoOneIsNoActor DEF IInv
<1>16. TypeOK'
  BY <1>4, <1>12 DEF IInv, TypeOK
<1>. QED
  BY <1>6, <1>7, <1>8, <1>9, <1>10, <1>15, <1>16 DEF IInv, Tables

LEMMA ClaimInv ==
    ASSUME IInv, NEW a \in Actors, Claim(a)
    PROVE  IInv'
<1>1. /\ turn = a /\ turn' = a /\ me[a].pc = "claim"
      /\ UNCHANGED <<now, sched, conv, status, reply, outbox, gateway, crashes>>
      /\ \/ Leave(a) /\ trig' = trig
         \/ \E t \in me[a].pending :
               /\ \/ In(Current(a), ActiveStates) = {}
                  \/ me[a].view[Current(a)].cfg.concurrency = "QUEUE"
               /\ \/ /\ trig[t].state = "PENDING"
                     /\ trig' = [trig EXCEPT ![t].state = "CLAIMED", ![t].lease = "held"]
                     /\ me' = [me EXCEPT ![a].pc = "submit", ![a].claimed = {t}]
                  \/ /\ Leave(a) \/ me' = [me EXCEPT ![a].pending = me[a].pending \ {t}]
                     /\ trig' = trig
  BY DEF Claim, Dispatching, Earliest
<1>2. ASSUME NEW t, trig' = trig,
             Leave(a) \/ me' = [me EXCEPT ![a].pending = me[a].pending \ {t}]
      PROVE  IInv'
  <2>1. /\ me' \in [Actors -> Coroutines] /\ Proper(a)'
        /\ \A b \in Actors \ {a} : me'[b] = me[b]
    BY <1>1, <1>2, PassOver, TypeParts DEF IInv
  <2>. QED
    BY <1>1, <1>2, <2>1, QuietInv DEF store
<1>. QED
  BY <1>1, <1>2, ClaimTakes

LEMMA SubmitInv ==
    ASSUME IInv, NEW a \in Actors, Submit(a)
    PROVE  IInv'
<1>0. PICK s : s = Current(a)
  OBVIOUS
<1>. DEFINE r == Len(conv) + 1
            queues == me[a].view[s].cfg.concurrency = "QUEUE"
<1>1. PICK t \in me[a].claimed, c \in {<<s>>} \cup me[a].claimed :
         /\ turn = a /\ turn' = a /\ me[a].pc = "submit" /\ me[a].todo # {}
         /\ Len(conv) < MaxRuns
         /\ c = <<s>> \/ c = t
         /\ conv' = Append(conv, c)
         /\ status' = [status EXCEPT ![r] = "queued"]
         /\ trig' = [trig EXCEPT ![t].state = "DISPATCHED", ![t].lease = "none", ![t].run = r]
         /\ \/ Leave(a)
            \/ /\ ~queues
               /\ me' = [me EXCEPT ![a].pc = "claim", ![a].pending = me[a].pending \ {t},
                                   ![a].claimed = {}]
         /\ UNCHANGED <<now, sched, reply, outbox, gateway, crashes>>
  BY <1>0 DEF Submit, Dispatching
<1>2. /\ me \in [Actors -> Coroutines] /\ trig \in [Triggers -> TriggerRows]
      /\ status \in [Runs -> Statuses] /\ conv \in Seq({<<x>> : x \in Schedules} \cup Triggers)
      /\ Len(conv) \in Nat
  BY TypeParts, LenProperties DEF IInv
<1>3. Proper(a)
  BY DEF IInv, Control
<1>4. me[a].claimed = {t} /\ t \in Triggers /\ t[1] = s /\ trig[t].state = "CLAIMED"
  BY <1>0, <1>1, <1>3 DEF Proper
<1>5. s \in Schedules
  BY <1>4 DEF Triggers
<1>6. r \in Runs /\ r > Len(conv) /\ r # 0 /\ r \in Nat
  BY <1>1, <1>2, LimitsAssumption DEF Runs
<1>7. /\ conv' \in Seq({<<x>> : x \in Schedules} \cup Triggers) /\ Len(conv') = r /\ Len(conv') <= MaxRuns
  <2>1. c \in {<<x>> : x \in Schedules} \cup Triggers
    BY <1>1, <1>4, <1>5
  <2>. QED
    BY <1>1, <1>2, <2>1, AppendProperties, LimitsAssumption
<1>. HIDE DEF r
<1>8. r = Len(conv) + 1
  BY DEF r
<1>9. /\ status' \in [Runs -> Statuses] /\ status'[r] = "queued"
      /\ \A p \in Runs \ {r} : status'[p] = status[p]
  BY <1>1, <1>2, <1>6 DEF Statuses
<1>. DEFINE row == [trig[t] EXCEPT !.state = "DISPATCHED", !.lease = "none", !.run = r]
<1>10. row \in TriggerRows /\ row.run = r /\ row.state = "DISPATCHED"
  BY <1>2, <1>4, <1>6 DEF TriggerRows, ActiveStates
<1>11. trig' = [trig EXCEPT ![t] = row]
  BY <1>1, <1>2, <1>4
<1>. HIDE DEF row
<1>12. /\ trig' \in [Triggers -> TriggerRows] /\ trig'[t].run = r /\ trig'[t].state = "DISPATCHED"
       /\ \A u \in Triggers \ {t} : trig'[u] = trig[u]
  BY <1>2, <1>4, <1>10, <1>11
<1>13. trig[t].run = 0
  BY <1>4 DEF IInv, Tables, AllTold, Told, Kept
<1>14. Submitted'
  <2>. SUFFICES ASSUME NEW p \in Runs PROVE status'[p] = "absent" <=> p > Len(conv')
    BY DEF Submitted
  <2>1. status[p] = "absent" <=> p > Len(conv)
    BY DEF IInv, Tables, Submitted
  <2>. QED
    BY <1>2, <1>7, <1>8, <1>9, <2>1 DEF Runs
<1>15. Linked'
  <2>1. \A u \in Triggers : trig[u].run <= Len(conv) /\ trig[u].run \in Nat
    BY <1>2 DEF IInv, Tables, Linked, TriggerRows, Runs
  <2>2. \A u \in Triggers : trig'[u].run <= Len(conv')
    <3>1. ASSUME NEW u \in Triggers, u # t PROVE trig'[u].run <= Len(conv')
      <4>1. trig'[u].run = trig[u].run /\ trig[u].run \in Nat /\ trig[u].run <= Len(conv)
        BY <1>2, <1>12, <2>1, <3>1 DEF TriggerRows
      <4>. QED
        BY <1>2, <1>7, <1>8, <4>1
    <3>2. trig'[t].run <= Len(conv')
      BY <1>6, <1>7, <1>12
    <3>. QED
      BY <3>1, <3>2
  <2>3. ASSUME NEW p \in 1 .. Len(conv') PROVE \E u \in Triggers : trig'[u].run = p
    <3>1. CASE p = r
      BY <1>4, <1>12, <3>1
    <3>2. CASE p # r
      <4>1. p \in 1 .. Len(conv)
        BY <1>2, <1>7, <1>8, <3>2
      <4>2. PICK u \in Triggers : trig[u].run = p
        BY <4>1 DEF IInv, Tables, Linked
      <4>3. u # t
        BY <1>13, <4>1, <4>2
      <4>. QED
        BY <1>12, <4>2, <4>3
    <3>. QED
      BY <3>1, <3>2
  <2>4. ASSUME NEW u \in Triggers, NEW v \in Triggers, trig'[u].run # 0, trig'[u].run = trig'[v].run
        PROVE  u = v
    <3>1. CASE u # t /\ v # t
      BY <1>12, <2>4, <3>1 DEF IInv, Tables, Linked
    <3>2. CASE u = t \/ v = t
      BY <1>2, <1>8, <1>12, <2>1, <2>4, <3>2
    <3>. QED
      BY <3>1, <3>2
  <2>. QED
    BY <2>2, <2>3, <2>4 DEF Linked
<1>16. AllTold'
  <2>. SUFFICES ASSUME NEW u \in Triggers PROVE Told(trig[u])'
    BY DEF AllTold
  <2>1. CASE u = t
    BY <1>6, <1>12, <2>1 DEF Told, Kept
  <2>2. CASE u # t
    <3>1. Told(trig[u]) /\ trig'[u] = trig[u] /\ trig[u].run \in Runs \cup {0}
      BY <1>2, <1>12, <2>2 DEF IInv, Tables, AllTold, TriggerRows
    <3>2. trig[u].run <= Len(conv)
      BY DEF IInv, Tables, Linked
    <3>3. trig[u].run \in Runs => status'[trig[u].run] = status[trig[u].run]
      BY <1>2, <1>8, <1>9, <3>1, <3>2 DEF Runs
    <3>. QED
      BY <3>1, <3>3 DEF Told, Kept
  <2>. QED
    BY <2>1, <2>2
<1>17. OneActive'
  BY <1>4, <1>12 DEF IInv, Tables, OneActive, ActiveStates
<1>18. OpenIsCurrent'
  BY <1>1, <1>12 DEF IInv, Tables, OpenIsCurrent, Exists
<1>19. Occurred'
  BY <1>1, <1>12, RowsStay, TypeParts DEF IInv, Tables
<1>20. /\ me' \in [Actors -> Coroutines] /\ Proper(a)'
       /\ \A b \in Actors \ {a} : me'[b] = me[b]
  <2>1. CASE Leave(a)
    BY <1>1, <1>2, <2>1, LeaveFacts, Unbound
  <2>2. CASE /\ ~queues
             /\ me' = [me EXCEPT ![a].pc = "claim", ![a].pending = me[a].pending \ {t},
                                 ![a].claimed = {}]
    <3>1. [me[a] EXCEPT !.pc = "claim", !.pending = me[a].pending \ {t}, !.claimed = {}] \in Coroutines
      BY <1>2 DEF Coroutines
    <3>2. /\ me' \in [Actors -> Coroutines] /\ me'[a].pc = "claim"
          /\ me'[a].pending = me[a].pending \ {t} /\ me'[a].todo = me[a].todo
          /\ me'[a].view = me[a].view
          /\ \A b \in Actors \ {a} : me'[b] = me[b]
      BY <1>2, <2>2, <3>1 DEF Coroutines
    <3>3. Current(a)' = Current(a)
      BY <3>2, CurrentKept
    <3>4. Proper(a)'
      BY <1>0, <1>1, <1>3, <2>2, <3>2, <3>3 DEF Proper
    <3>. QED
      BY <3>2, <3>4
  <2>. QED
    BY <1>1, <2>1, <2>2
<1>21. TypeOK'
  BY <1>1, <1>7, <1>9, <1>12, <1>20, TypeParts
     DEF IInv, TypeOK, RunQueue!Outcomes, Outcomes, Statuses
<1>22. Control'
  BY <1>1, <1>20, OthersWait, NoOneIsNoActor DEF IInv
<1>. QED
  BY <1>14, <1>15, <1>16, <1>17, <1>18, <1>19, <1>21, <1>22 DEF IInv, Tables

LEMMA StopRaisesInv ==
    ASSUME IInv, NEW a \in Actors, StopRaises(a) \/ SubmitRaises(a)
    PROVE  IInv'
<1>1. Raise(a) /\ turn \in {a, NoOne} /\ UNCHANGED <<now, store, crashes>>
  BY DEF StopRaises, SubmitRaises, LoopIsFree, Dispatching
<1>. QED
  BY <1>1, ReturnInv, StillCalm DEF store

LEMMA RunNowReturnsInv ==
    ASSUME IInv, NEW a \in Actors, RunNowReturns(a)
    PROVE  IInv'
<1>1. /\ turn = a /\ Return(a) /\ trig' = Synced(trig, status)
      /\ UNCHANGED <<now, sched, conv, status, reply, outbox, crashes>>
  BY DEF RunNowReturns
<1>2. trig \in [Triggers -> TriggerRows]
  BY TypeParts DEF IInv
<1>3. trig' \in [Triggers -> TriggerRows] /\ Calm(trig')
  BY <1>1, <1>2, SyncedCalm DEF Calm
<1>. QED
  BY <1>1, <1>3, ReturnInv

-----------------------------------------------------------------------------
(* The notifications, the runs, the clock and the process.                 *)

(* One row whose run and state stay. *)
LEMMA NoteCalm ==
    ASSUME IInv, NEW t \in Triggers, NEW row \in TriggerRows,
           row.run = trig[t].run, row.state = trig[t].state,
           trig' = [trig EXCEPT ![t] = row]
    PROVE  trig' \in [Triggers -> TriggerRows] /\ Calm(trig')
<1>1. trig \in [Triggers -> TriggerRows]
  BY TypeParts DEF IInv
<1>2. trig' \in [Triggers -> TriggerRows]
  BY <1>1
<1>3. \A u \in Triggers : trig'[u].run = trig[u].run /\ trig'[u].state = trig[u].state
  BY <1>1
<1>4. Calm(trig')
  BY <1>3 DEF Calm, IInv, Tables, AllTold, Told
<1>. QED
  BY <1>2, <1>4

LEMMA ListCompletedInv ==
    ASSUME IInv, ListCompleted
    PROVE  IInv'
<1>1. PICK listed \in SUBSET Triggers :
         /\ turn = "loop" /\ turn' = "loop" /\ UNCHANGED <<now, store, gateway, crashes>>
         /\ me' = [me EXCEPT !["loop"].pc = "notify", !["loop"].pending = listed]
  BY DEF ListCompleted
<1>2. me \in [Actors -> Coroutines]
  BY TypeParts DEF IInv
<1>3. [me["loop"] EXCEPT !.pc = "notify", !.pending = listed] \in Coroutines
  BY <1>2, NoOneIsNoActor DEF Coroutines
<1>4. /\ me' \in [Actors -> Coroutines] /\ me'["loop"].pc = "notify"
      /\ \A b \in Actors \ {"loop"} : me'[b] = me[b]
  BY <1>1, <1>2, <1>3, NoOneIsNoActor DEF Coroutines
<1>5. Proper("loop")'
  BY <1>1, <1>4, Unbound
<1>. QED
  BY <1>1, <1>4, <1>5, QuietInv, NoOneIsNoActor

LEMMA NotifyClaimInv ==
    ASSUME IInv, NotifyClaim
    PROVE  IInv'
<1>1. PICK t \in me["loop"].pending :
         /\ turn = "loop" /\ turn' = "loop" /\ me["loop"].pc = "notify"
         /\ UNCHANGED <<now, sched, conv, status, reply, outbox, gateway, crashes>>
         /\ \/ /\ trig' = [trig EXCEPT ![t].note = "PROCESSING"]
               /\ me' = [me EXCEPT !["loop"].pc = "enqueue", !["loop"].claimed = {t}]
            \/ /\ me' = [me EXCEPT !["loop"].pending = me["loop"].pending \ {t}]
               /\ trig' = trig
  BY DEF NotifyClaim, Earliest
<1>2. /\ me \in [Actors -> Coroutines] /\ trig \in [Triggers -> TriggerRows]
      /\ t \in Triggers /\ "loop" \in Actors
  BY TypeParts, NoOneIsNoActor DEF IInv, Coroutines
<1>3. CASE /\ trig' = [trig EXCEPT ![t].note = "PROCESSING"]
           /\ me' = [me EXCEPT !["loop"].pc = "enqueue", !["loop"].claimed = {t}]
  <2>. DEFINE row == [trig[t] EXCEPT !.note = "PROCESSING"]
  <2>1. row \in TriggerRows /\ row.run = trig[t].run /\ row.state = trig[t].state
    BY <1>2 DEF TriggerRows
  <2>2. trig' = [trig EXCEPT ![t] = row]
    BY <1>2, <1>3
  <2>. HIDE DEF row
  <2>3. trig' \in [Triggers -> TriggerRows] /\ Calm(trig')
    BY <1>2, <2>1, <2>2, NoteCalm
  <2>4. [me["loop"] EXCEPT !.pc = "enqueue", !.claimed = {t}] \in Coroutines
    BY <1>2 DEF Coroutines
  <2>5. /\ me' \in [Actors -> Coroutines] /\ me'["loop"].pc = "enqueue"
        /\ me'["loop"].claimed = {t}
        /\ \A b \in Actors \ {"loop"} : me'[b] = me[b]
    BY <1>2, <1>3, <2>4 DEF Coroutines
  <2>6. Proper("loop")'
    BY <1>1, <1>2, <2>5 DEF Proper
  <2>7. Control'
    BY <1>1, <1>2, <2>5, <2>6, OthersWait, NoOneIsNoActor DEF IInv
  <2>8. TypeOK'
    BY <1>1, <2>3, <2>5 DEF IInv, TypeOK
  <2>. QED
    BY <1>1, <2>3, <2>7, <2>8, CalmTables DEF IInv
<1>4. CASE /\ me' = [me EXCEPT !["loop"].pending = me["loop"].pending \ {t}]
           /\ trig' = trig
  <2>1. [me["loop"] EXCEPT !.pending = me["loop"].pending \ {t}] \in Coroutines
    BY <1>2 DEF Coroutines
  <2>2. /\ me' \in [Actors -> Coroutines] /\ me'["loop"].pc = "notify"
        /\ \A b \in Actors \ {"loop"} : me'[b] = me[b]
    BY <1>1, <1>2, <1>4, <2>1 DEF Coroutines
  <2>3. Proper("loop")'
    BY <1>1, <2>2, Unbound
  <2>. QED
    BY <1>1, <1>2, <1>4, <2>2, <2>3, QuietInv DEF store
<1>. QED
  BY <1>1, <1>3, <1>4

LEMMA NotifyEnqueueInv ==
    ASSUME IInv, NotifyEnqueue
    PROVE  IInv'
<1>1. PICK t \in me["loop"].claimed :
         /\ turn = "loop" /\ turn' = "loop" /\ me["loop"].pc = "enqueue"
         /\ outbox' = IF sched[t[1]].cfg.notify /\ reply[trig[t].run]
                      THEN outbox \cup {t} ELSE outbox
         /\ me' = [me EXCEPT !["loop"].pc = "finish"]
         /\ UNCHANGED <<now, sched, trig, conv, status, reply, gateway, crashes>>
  BY DEF NotifyEnqueue
<1>2. me \in [Actors -> Coroutines] /\ "loop" \in Actors /\ outbox \subseteq Triggers
  BY TypeParts, NoOneIsNoActor DEF IInv
<1>3. me["loop"].claimed = {t} /\ t \in Triggers
  BY <1>1, <1>2 DEF IInv, Control, Proper
<1>4. /\ me' \in [Actors -> Coroutines] /\ me'["loop"].pc = "finish"
      /\ me'["loop"].claimed = {t}
      /\ \A b \in Actors \ {"loop"} : me'[b] = me[b]
  BY <1>1, <1>2, <1>3 DEF Coroutines
<1>5. Proper("loop")'
  BY <1>1, <1>3, <1>4 DEF Proper
<1>6. Control'
  BY <1>1, <1>2, <1>4, <1>5, OthersWait, NoOneIsNoActor DEF IInv
<1>7. TypeOK'
  <2>1. outbox' \subseteq Triggers
    BY <1>1, <1>2, <1>3
  <2>. QED
    BY <1>1, <1>4, <2>1 DEF IInv, TypeOK
<1>. QED
  BY <1>1, <1>6, <1>7, QuietTables DEF IInv

LEMMA NotifyFinishInv ==
    ASSUME IInv, NotifyFinish
    PROVE  IInv'
<1>1. PICK t \in me["loop"].claimed :
         /\ turn = "loop" /\ turn' = "loop"
         /\ UNCHANGED <<now, sched, conv, status, reply, outbox, gateway, crashes>>
         /\ trig' = [trig EXCEPT ![t].note = "DONE"]
         /\ me' = [me EXCEPT !["loop"].pc = "notify", !["loop"].claimed = {},
                             !["loop"].pending = me["loop"].pending \ {t}]
  BY DEF NotifyFinish
<1>2. /\ me \in [Actors -> Coroutines] /\ trig \in [Triggers -> TriggerRows]
      /\ t \in Triggers /\ "loop" \in Actors
  BY TypeParts, NoOneIsNoActor DEF IInv, Coroutines
<1>. DEFINE row == [trig[t] EXCEPT !.note = "DONE"]
<1>3. row \in TriggerRows /\ row.run = trig[t].run /\ row.state = trig[t].state
  BY <1>2 DEF TriggerRows
<1>4. trig' = [trig EXCEPT ![t] = row]
  BY <1>1, <1>2
<1>. HIDE DEF row
<1>5. trig' \in [Triggers -> TriggerRows] /\ Calm(trig')
  BY <1>2, <1>3, <1>4, NoteCalm
<1>6. [me["loop"] EXCEPT !.pc = "notify", !.claimed = {}, !.pending = me["loop"].pending \ {t}]
        \in Coroutines
  BY <1>2 DEF Coroutines
<1>7. /\ me' \in [Actors -> Coroutines] /\ me'["loop"].pc = "notify"
      /\ \A b \in Actors \ {"loop"} : me'[b] = me[b]
  BY <1>1, <1>2, <1>6 DEF Coroutines
<1>8. Proper("loop")'
  BY <1>1, <1>7, Unbound
<1>9. Control'
  BY <1>1, <1>2, <1>7, <1>8, OthersWait, NoOneIsNoActor DEF IInv
<1>10. TypeOK'
  BY <1>1, <1>5, <1>7 DEF IInv, TypeOK
<1>. QED
  BY <1>1, <1>5, <1>9, <1>10, CalmTables DEF IInv

LEMMA TickReturnsInv ==
    ASSUME IInv, TickReturns
    PROVE  IInv'
<1>1. Return("loop") /\ turn = "loop" /\ UNCHANGED <<now, store, crashes>>
  BY DEF TickReturns
<1>. QED
  BY <1>1, ReturnInv, StillCalm, NoOneIsNoActor DEF store

LEMMA RunStepInv ==
    ASSUME IInv, NEW r \in Runs, RunStarts(r) \/ RunEnds(r)
    PROVE  IInv'
<1>1. PICK outcome \in {"running"} \cup Outcomes :
         /\ turn = NoOne /\ UNCHANGED <<now, sched, trig, conv, outbox, gateway, me, turn, crashes>>
         /\ status[r] \in {"queued", "running"}
         /\ status' = [status EXCEPT ![r] = outcome]
         /\ \/ reply' = reply
            \/ \E actionable \in BOOLEAN : reply' = [reply EXCEPT ![r] = actionable]
  <2>1. ASSUME RunStarts(r)
        PROVE  /\ turn = NoOne /\ status[r] = "queued" /\ status' = [status EXCEPT ![r] = "running"]
               /\ UNCHANGED <<now, sched, trig, conv, reply, outbox, gateway, me, turn, crashes>>
    BY <2>1 DEF RunStarts, LoopIsFree, RunQueue!Start
  <2>2. ASSUME RunEnds(r)
        PROVE  \E outcome \in Outcomes, actionable \in BOOLEAN :
               /\ turn = NoOne /\ status[r] = "running" /\ status' = [status EXCEPT ![r] = outcome]
               /\ reply' = [reply EXCEPT ![r] = actionable]
               /\ UNCHANGED <<now, sched, trig, conv, outbox, gateway, me, turn, crashes>>
    BY <2>2, EndingsAssumption DEF RunEnds, LoopIsFree, RunQueue!Outcomes, Outcomes
  <2>. QED
    BY <2>1, <2>2
<1>2. status \in [Runs -> Statuses] /\ reply \in [Runs -> BOOLEAN]
  BY TypeParts DEF IInv
<1>3. /\ status' \in [Runs -> Statuses] /\ reply' \in [Runs -> BOOLEAN]
      /\ \A p \in Runs : \/ status'[p] = status[p]
                         \/ /\ status[p] \in {"queued", "running"}
                            /\ status'[p] \in {"running"} \cup Outcomes
  BY <1>1, <1>2 DEF Statuses
<1>4. Tables'
  BY <1>1, <1>3, RunsMove
<1>5. TypeOK'
  BY <1>1, <1>3, TypeParts DEF IInv, TypeOK, RunQueue!Outcomes, Outcomes, Statuses
<1>6. Control'
  BY <1>1, AllWait, NoOneIsNoActor DEF IInv
<1>. QED
  BY <1>4, <1>5, <1>6 DEF IInv

LEMMA TimePassesInv ==
    ASSUME IInv, TimePasses
    PROVE  IInv'
<1>1. /\ turn = NoOne /\ now < MaxTime /\ now' = now + 1
      /\ UNCHANGED <<sched, trig, conv, status, reply, outbox, gateway, me, turn, crashes>>
  BY DEF TimePasses, store
<1>2. TypeOK'
  BY <1>1, LimitsAssumption DEF IInv, TypeOK, Times
<1>3. Control'
  BY <1>1, AllWait, NoOneIsNoActor DEF IInv
<1>. QED
  BY <1>1, <1>2, <1>3, QuietTables DEF IInv

LEMMA LeaseExpiresInv ==
    ASSUME IInv, NEW t \in Triggers, LeaseExpires(t)
    PROVE  IInv'
<1>1. /\ turn = NoOne /\ trig' = [trig EXCEPT ![t].lease = "expired"]
      /\ UNCHANGED <<now, sched, conv, status, reply, outbox, gateway, me, turn, crashes>>
  BY DEF LeaseExpires
<1>2. trig \in [Triggers -> TriggerRows]
  BY TypeParts DEF IInv
<1>. DEFINE row == [trig[t] EXCEPT !.lease = "expired"]
<1>3. row \in TriggerRows /\ row.run = trig[t].run /\ row.state = trig[t].state
  BY <1>2 DEF TriggerRows
<1>4. trig' = [trig EXCEPT ![t] = row]
  BY <1>1, <1>2
<1>. HIDE DEF row
<1>5. trig' \in [Triggers -> TriggerRows] /\ Calm(trig')
  BY <1>3, <1>4, NoteCalm
<1>6. TypeOK'
  BY <1>1, <1>5 DEF IInv, TypeOK
<1>7. Control'
  BY <1>1, AllWait, NoOneIsNoActor DEF IInv
<1>. QED
  BY <1>1, <1>5, <1>6, <1>7, CalmTables DEF IInv

LEMMA ProcessInv ==
    ASSUME IInv, Crash \/ Boot
    PROVE  IInv'
<1>1. CASE Crash
  <2>1. /\ crashes' \in 0 .. MaxCrashes /\ gateway' = "down" /\ turn' = NoOne
        /\ me' = [a \in Actors |-> Idle]
        /\ UNCHANGED <<now, sched, trig, conv, status, reply, outbox>>
    BY <1>1, LimitsAssumption, TypeParts DEF Crash, store, IInv
  <2>2. me' \in [Actors -> Coroutines]
    BY <2>1, IdleIsTyped
  <2>3. TypeOK'
    BY <2>1, <2>2 DEF IInv, TypeOK
  <2>4. Control'
    BY <2>1 DEF Control, Proper, Idle
  <2>. QED
    BY <2>1, <2>3, <2>4, QuietTables DEF IInv
<1>2. CASE Boot
  <2>1. /\ gateway' = "starting"
        /\ UNCHANGED <<now, sched, trig, conv, status, reply, outbox, me, turn, crashes>>
    BY <1>2 DEF Boot, store
  <2>2. TypeOK'
    BY <2>1 DEF IInv, TypeOK
  <2>3. Control'
    <3>1. \A a \in Actors : Current(a)' = Current(a)
      BY <2>1, CurrentKept
    <3>. QED
      BY <2>1, <3>1 DEF IInv, Control, Proper, Enabled, Exists
  <2>. QED
    BY <2>1, <2>2, <2>3, QuietTables DEF IInv
<1>. QED
  BY <1>1, <1>2

LEMMA StutterInv ==
    ASSUME IInv, UNCHANGED vars
    PROVE  IInv'
<1>1. UNCHANGED <<now, sched, trig, conv, status, reply, outbox, gateway, me, turn, crashes>>
  BY DEF vars
<1>2. TypeOK'
  BY <1>1 DEF IInv, TypeOK
<1>3. \A a \in Actors : Current(a)' = Current(a)
  BY <1>1, CurrentKept
<1>4. Control'
  BY <1>1, <1>3 DEF IInv, Control, Proper, Enabled, Exists
<1>. QED
  BY <1>1, <1>2, <1>4, QuietTables DEF IInv

LEMMA InvStep == IInv /\ [Next]_vars => IInv'
<1>. SUFFICES ASSUME IInv, Next PROVE IInv'
  BY StutterInv
<1>1. CASE \E s \in Schedules :
              \/ \E cfg \in Configs : Create(s, cfg) \/ Update(s, cfg)
              \/ \E on \in BOOLEAN : SetEnabled(s, on)
              \/ Delete(s)
              \/ \E q \in Requests : RunNow(q, s)
  BY <1>1, CreateInv, UpdateInv, SwitchInv, RunNowInv
<1>2. CASE LoopStep
  BY <1>2, TickInv, MaterializeInv, MaterializeRaisesInv, ListCompletedInv, NotifyClaimInv,
     NotifyEnqueueInv, NotifyFinishInv, TickReturnsInv DEF LoopStep
<1>3. CASE \E a \in Actors : Step(a)
  BY <1>3, ListSchedulesInv, ConsiderInv, SkipOverlapInv, CancelAtOnceInv, CancelStopsInv,
     StopAnsweredInv, StopRaisesInv, ReplacedInv, ClaimInv, SubmitInv, RunNowReturnsInv DEF Step
<1>4. CASE \E r \in Runs : RunStarts(r) \/ RunEnds(r)
  BY <1>4, RunStepInv
<1>5. CASE \E t \in Triggers : LeaseExpires(t)
  BY <1>5, LeaseExpiresInv
<1>6. CASE TimePasses \/ Crash \/ Boot
  BY <1>6, TimePassesInv, ProcessInv
<1>. QED
  BY <1>1, <1>2, <1>3, <1>4, <1>5, <1>6 DEF Next

LEMMA InvAlways == Spec => []IInv
BY InvInit, InvStep, PTL DEF Spec

-----------------------------------------------------------------------------
(* The theorems.                                                           *)

(* Every table and coroutine keeps its type. *)
THEOREM TypeCorrect == Spec => []TypeOK
BY InvAlways, PTL DEF IInv

(* update_schedule and delete_schedule supersede what was not dispatched,  *)
(* and no stale list brings it back: what can still be dispatched belongs  *)
(* to a schedule that exists, in its current generation.                   *)
THEOREM NothingStaleOpen == Spec => []OpenIsCurrent
<1>1. IInv => OpenIsCurrent
  BY DEF IInv, Tables
<1>. QED
  BY <1>1, InvAlways, PTL

(* Every scheduled run is the run of one occurrence, and a decision tells  *)
(* what became of its run.                                                 *)
THEOREM DecisionsTellRuns == Spec => []DecisionMatchesRun
<1>1. IInv => DecisionMatchesRun
  <2>. SUFFICES ASSUME IInv PROVE DecisionMatchesRun
    OBVIOUS
  <2>1. Len(conv) \in Nat /\ DOMAIN conv = 1 .. Len(conv)
    BY TypeParts, LenProperties DEF IInv
  <2>2. ASSUME NEW r \in DOMAIN conv
        PROVE  \E t \in Triggers : /\ trig[t].run = r
                                   /\ \A u \in Triggers \ {t} : trig[u].run # r
    <3>1. PICK t \in Triggers : trig[t].run = r
      BY <2>1 DEF IInv, Tables, Linked
    <3>2. r # 0
      BY <2>1
    <3>. QED
      BY <3>1, <3>2 DEF IInv, Tables, Linked
  <2>3. ASSUME NEW t \in Triggers PROVE Told(trig[t])
    BY DEF IInv, Tables, AllTold
  <2>. QED
    BY <2>2, <2>3 DEF DecisionMatchesRun, Told, Kept
<1>. QED
  BY <1>1, InvAlways, PTL

(* No schedule ever has two live runs, under any policy, with any number   *)
(* of run-now requests, edits, crashes and expired leases: a live run is   *)
(* that of an active occurrence, and of those there is one.                *)
THEOREM OneLiveRunPerSchedule == Spec => []NoOverlap
<1>1. IInv => NoOverlap
  <2>. SUFFICES ASSUME IInv, NEW t \in Triggers, NEW u \in Triggers, t[1] = u[1],
                       trig[t].run # 0, trig[u].run # 0,
                       status[trig[t].run] \in {"queued", "running"},
                       status[trig[u].run] \in {"queued", "running"}
                PROVE  t = u
    BY DEF NoOverlap
  <2>1. Told(trig[t]) /\ Told(trig[u])
    BY DEF IInv, Tables, AllTold
  <2>2. trig[t].state \in ActiveStates /\ trig[u].state \in ActiveStates
    BY <2>1 DEF Told, Kept, ActiveStates
  <2>. QED
    BY <2>2 DEF IInv, Tables, OneActive
<1>. QED
  BY <1>1, InvAlways, PTL

(* Every time the current generation was due before next_run_at has its    *)
(* row, for any interval and any backlog: what materialize_triggers moves  *)
(* next_run_at over it has decided.                                        *)
THEOREM NoTimeSkipped == Spec => []NoOccurrenceLost
<1>1. IInv => NoOccurrenceLost
  <2>. SUFFICES ASSUME IInv, NEW s \in Schedules, Exists(s)
                PROVE  IF sched[s].cfg.kind = "one_shot"
                       THEN sched[s].next = 0 =>
                               trig[<<s, sched[s].gen, sched[s].first>>].state # "none"
                       ELSE \A at \in sched[s].first .. sched[s].next - 1 :
                               (at - sched[s].first) % Interval = 0 =>
                                  trig[<<s, sched[s].gen, at>>].state # "none"
    BY DEF NoOccurrenceLost
  <2>1. Occurs(s)
    BY DEF IInv, Tables, Occurred
  <2>2. CASE sched[s].cfg.kind = "one_shot"
    BY <2>1, <2>2 DEF Occurs, OccurredOnce, HasRow
  <2>3. ASSUME sched[s].cfg.kind # "one_shot",
               NEW at \in sched[s].first .. sched[s].next - 1,
               (at - sched[s].first) % Interval = 0
        PROVE  HasRow(s, at)
    <3>1. /\ sched[s].first \in Nat /\ sched[s].next \in Nat /\ Interval \in Nat \ {0}
          /\ at \in Nat /\ at >= sched[s].first /\ at < sched[s].next
      BY GenerationOfExisting, TypeParts, LimitsAssumption DEF IInv
    <3>2. at - sched[s].first \in Nat
      BY <3>1
    <3>3. PICK k \in Nat : at - sched[s].first = Interval * k
      BY <2>3, <3>1, <3>2, Multiples
    <3>4. at = Nth(s, k)
      BY <3>1, <3>3, SMT DEF Nth
    <3>. QED
      BY <2>1, <2>3, <3>1, <3>4 DEF Occurs, OccurredInOrder
  <2>. QED
    BY <2>2, <2>3 DEF HasRow
<1>. QED
  BY <1>1, InvAlways, PTL

(* What a step may do to an occurrence: a final state and a run stay, and  *)
(* only the end of its notification makes that done.                       *)
Standing(t) ==
    /\ trig[t].state \in FinalStates => trig'[t].state = trig[t].state
    /\ trig[t].run # 0 => trig'[t].run = trig[t].run
    /\ trig'[t].note = "DONE" => \/ trig[t].note = "DONE"
                                 \/ NotifyFinish /\ t \in me["loop"].claimed

LEMMA SyncedStands ==
    ASSUME IInv, NEW T \in [Triggers -> TriggerRows], NEW t \in Triggers,
           T[t].run = trig[t].run,
           T[t].state = trig[t].state \/ (trig[t].state = "CLAIMED" /\ T[t].state = "PENDING"),
           T[t].note = trig[t].note \/ T[t].note = "PENDING"
    PROVE  LET y == Synced(T, status)[t] IN
           /\ trig[t].state \in FinalStates => y.state = trig[t].state
           /\ y.run = trig[t].run
           /\ y.note = "DONE" => trig[t].note = "DONE"
<1>1. status \in [Runs -> Statuses]
  BY TypeParts DEF IInv
<1>. DEFINE y == Synced(T, status)[t]
<1>2. /\ y.run = T[t].run /\ y.note = T[t].note
      /\ y.state = T[t].state \/ T[t].state \in {"DISPATCHED", "RUNNING"}
  BY <1>1, SyncedRows
<1>. QED
  BY <1>2 DEF FinalStates

LEMMA StepStands ==
    ASSUME IInv, Next, NEW t \in Triggers
    PROVE  Standing(t)
<1>1. /\ trig \in [Triggers -> TriggerRows] /\ me \in [Actors -> Coroutines]
      /\ now \in Times /\ sched \in [Schedules -> ScheduleRows]
  BY TypeParts DEF IInv
<1>2. Told(trig[t])
  BY DEF IInv, Tables, AllTold
<1>3. ASSUME trig' = trig PROVE Standing(t)
  BY <1>3 DEF Standing
<1>4. ASSUME NEW u, NEW row \in TriggerRows, trig' = [trig EXCEPT ![u] = row],
             u \in Triggers =>
                /\ trig[u].state \in FinalStates => row.state = trig[u].state
                /\ trig[u].run # 0 => row.run = trig[u].run
                /\ row.note = "DONE" => trig[u].note = "DONE" \/ (NotifyFinish /\ u \in me["loop"].claimed)
      PROVE  Standing(t)
  BY <1>1, <1>4 DEF Standing
<1>5. ASSUME NEW s, trig' = Superseded(s) PROVE Standing(t)
  BY <1>1, <1>5 DEF Standing, Superseded, In, TriggerRows, FinalStates
<1>6. ASSUME trig' = Synced(Recovered(trig), status) PROVE Standing(t)
  BY <1>6, RecoveredCalm, SyncedStands DEF Standing
<1>7. ASSUME trig' = Synced(trig, status) PROVE Standing(t)
  BY <1>1, <1>7, SyncedStands DEF Standing
<1>8. CASE \E s \in Schedules :
              \/ \E cfg \in Configs : Create(s, cfg) \/ Update(s, cfg)
              \/ \E on \in BOOLEAN : SetEnabled(s, on)
              \/ Delete(s)
  BY <1>3, <1>5, <1>8 DEF Create, Update, SetEnabled, Delete
<1>9. ASSUME NEW q \in Requests, NEW s \in Schedules, RunNow(q, s) PROVE Standing(t)
  <2>. DEFINE T == Synced(Recovered(trig), status)
              t0 == <<s, sched[s].gen, q>>
  <2>1. \/ trig' = T
        \/ /\ trig' = [T EXCEPT ![t0] = [NoTrigger EXCEPT !.state = "PENDING", !.due = now]]
           /\ T[t0].state = "none"
    BY <1>9 DEF RunNow
  <2>2. /\ T \in [Triggers -> TriggerRows]
        /\ T[t].run = trig[t].run /\ (T[t].state = "none" <=> trig[t].state = "none")
    BY RecoveredCalm, SyncedCalm
  <2>3. CASE trig' = T
    BY <1>6, <2>3
  <2>4. CASE /\ trig' = [T EXCEPT ![t0] = [NoTrigger EXCEPT !.state = "PENDING", !.due = now]]
             /\ T[t0].state = "none"
    <3>1. CASE t = t0
      <4>1. trig[t].state = "none" /\ trig[t].run = 0
        BY <1>2, <2>2, <2>4, <3>1 DEF Told, Kept
      <4>2. NoTrigger \in TriggerRows /\ NoTrigger.note = "PENDING"
        BY DEF NoTrigger, TriggerRows
      <4>3. trig'[t] = [NoTrigger EXCEPT !.state = "PENDING", !.due = now]
        BY <2>2, <2>4, <3>1
      <4>4. trig'[t].note = "PENDING"
        BY <4>2, <4>3 DEF TriggerRows
      <4>. QED
        BY <4>1, <4>4 DEF Standing, FinalStates
    <3>2. CASE t # t0
      <4>1. trig'[t] = T[t]
        BY <2>2, <2>4, <3>2
      <4>. QED
        BY <4>1, RecoveredCalm, SyncedStands DEF Standing
    <3>. QED
      BY <3>1, <3>2
  <2>. QED
    BY <2>1, <2>3, <2>4
<1>10. CASE Materialize
  <2>. DEFINE s == Current("loop")
  <2>1. CASE trig[t].state = "none"
    <3>1. NoTrigger \in TriggerRows /\ NoTrigger.note = "PENDING"
      BY DEF NoTrigger, TriggerRows
    <3>2. \/ trig'[t] = trig[t]
          \/ trig'[t] = [NoTrigger EXCEPT !.state = Decision(s, t[3]), !.due = t[3]]
      BY <1>10 DEF Materialize
    <3>3. trig'[t] = trig[t] \/ trig'[t].note = "PENDING"
      BY <3>1, <3>2 DEF TriggerRows
    <3>. QED
      BY <1>2, <2>1, <3>3 DEF Standing, Told, Kept, FinalStates
  <2>2. CASE trig[t].state # "none"
    <3>1. trig'[t] = trig[t]
      BY <1>10, <2>2 DEF Materialize
    <3>. QED
      BY <3>1 DEF Standing
  <2>. QED
    BY <2>1, <2>2
<1>11. CASE Tick
  BY <1>6, <1>11 DEF Tick
<1>12. CASE MaterializeRaises \/ ListCompleted \/ NotifyEnqueue \/ TickReturns
  BY <1>3, <1>12 DEF MaterializeRaises, ListCompleted, NotifyEnqueue, TickReturns, store
<1>13. CASE NotifyClaim
  <2>1. \/ trig' = trig
        \/ \E u \in Triggers : trig' = [trig EXCEPT ![u] = [trig[u] EXCEPT !.note = "PROCESSING"]]
    BY <1>1, <1>13, NoOneIsNoActor DEF NotifyClaim, Earliest, Coroutines
  <2>2. ASSUME NEW u \in Triggers, trig' = [trig EXCEPT ![u] = [trig[u] EXCEPT !.note = "PROCESSING"]]
        PROVE  Standing(t)
    BY <1>1, <2>2 DEF Standing, TriggerRows
  <2>. QED
    BY <1>3, <2>1, <2>2
<1>14. CASE NotifyFinish
  <2>1. PICK u \in me["loop"].claimed : trig' = [trig EXCEPT ![u].note = "DONE"]
    BY <1>14 DEF NotifyFinish
  <2>2. u \in Triggers
    BY <1>1, NoOneIsNoActor DEF Coroutines
  <2>. QED
    BY <1>1, <1>14, <2>1, <2>2 DEF Standing, TriggerRows
<1>15. ASSUME NEW a \in Actors, Step(a) PROVE Standing(t)
  <2>1. CASE ListSchedules(a) \/ Consider(a) \/ CancelAtOnce(a) \/ CancelStops(a) \/
             StopAnswered(a) \/ StopRaises(a) \/ SubmitRaises(a)
    BY <1>3, <2>1 DEF ListSchedules, Consider, CancelAtOnce, CancelStops, StopAnswered, StopRaises,
                      SubmitRaises, store
  <2>2. CASE Replaced(a) \/ RunNowReturns(a)
    BY <1>7, <2>2 DEF Replaced, RunNowReturns
  <2>3. CASE SkipOverlap(a)
    <3>1. PICK u \in me[a].pending :
             trig' = [trig EXCEPT ![u].state = IF @ = "PENDING" THEN "SKIPPED" ELSE @]
      BY <2>3 DEF SkipOverlap, Earliest
    <3>2. u \in Triggers
      BY <1>1 DEF Coroutines
    <3>. QED
      BY <1>1, <3>1, <3>2 DEF Standing, TriggerRows, FinalStates
  <2>4. CASE Claim(a)
    <3>1. \/ trig' = trig
          \/ \E u \in Triggers :
                /\ trig[u].state = "PENDING"
                /\ trig' = [trig EXCEPT ![u].state = "CLAIMED", ![u].lease = "held"]
      BY <1>1, <2>4 DEF Claim, Earliest, Coroutines
    <3>2. ASSUME NEW u \in Triggers, trig[u].state = "PENDING",
                 trig' = [trig EXCEPT ![u].state = "CLAIMED", ![u].lease = "held"]
          PROVE  Standing(t)
      BY <1>1, <3>2 DEF Standing, TriggerRows, FinalStates
    <3>. QED
      BY <1>3, <3>1, <3>2
  <2>5. CASE Submit(a)
    <3>1. PICK u \in me[a].claimed, r \in {Len(conv) + 1} :
             /\ me[a].pc = "submit"
             /\ trig' = [trig EXCEPT ![u].state = "DISPATCHED", ![u].lease = "none", ![u].run = r]
      BY <2>5 DEF Submit, Dispatching
    <3>2. u \in Triggers /\ trig[u].state = "CLAIMED"
      BY <3>1 DEF IInv, Control, Proper
    <3>3. trig[u].run = 0
      BY <3>2 DEF IInv, Tables, AllTold, Told, Kept
    <3>. QED
      BY <1>1, <3>1, <3>2, <3>3 DEF Standing, TriggerRows, FinalStates
  <2>. QED
    BY <1>15, <2>1, <2>2, <2>3, <2>4, <2>5 DEF Step
<1>16. CASE \E r \in Runs : RunStarts(r) \/ RunEnds(r)
  BY <1>3, <1>16 DEF RunStarts, RunEnds
<1>17. ASSUME NEW u \in Triggers, LeaseExpires(u) PROVE Standing(t)
  BY <1>1, <1>17 DEF LeaseExpires, Standing, TriggerRows
<1>18. CASE TimePasses \/ Crash \/ Boot
  BY <1>3, <1>18 DEF TimePasses, Crash, Boot, store
<1>. QED
  BY <1>8, <1>9, <1>10, <1>11, <1>12, <1>13, <1>14, <1>15, <1>16, <1>17, <1>18 DEF Next, LoopStep

(* A decision stands, and the run an occurrence was given stays its own,   *)
(* whatever recovery, a repeated request or a stale list does next.        *)
THEOREM DecisionsStand == Spec => DecisionIsFinal
<1>1. IInv /\ [Next]_vars =>
         [\A t \in Triggers :
            /\ trig[t].state \in FinalStates => trig'[t].state = trig[t].state
            /\ trig[t].run # 0 => trig'[t].run = trig[t].run]_vars
  BY StepStands DEF Standing
<1>. QED
  BY <1>1, InvAlways, PTL DEF Spec, DecisionIsFinal

(* Wherever a crash falls between the claim of a notification, the message *)
(* and the mark, an actionable reply that is marked is in the outbox.      *)
THEOREM NoNotificationLost == Spec => NotificationKept
<1>1. ASSUME IInv, Next, NEW t \in Triggers,
             trig[t].note # "DONE", trig'[t].note = "DONE", sched[t[1]].cfg.notify,
             reply[trig[t].run]
      PROVE  t \in outbox'
  <2>1. NotifyFinish /\ t \in me["loop"].claimed
    BY <1>1, StepStands DEF Standing
  <2>2. me["loop"].pc = "finish" /\ outbox' = outbox
    BY <2>1 DEF NotifyFinish
  <2>3. Proper("loop")
    BY <1>1, NoOneIsNoActor DEF IInv, Control
  <2>. QED
    BY <1>1, <2>1, <2>2, <2>3 DEF Proper
<1>2. IInv /\ [Next]_vars =>
         [\A t \in Triggers :
            (trig[t].note # "DONE" /\ trig'[t].note = "DONE" /\ sched[t[1]].cfg.notify
               /\ reply[trig[t].run]) => t \in outbox']_vars
  BY <1>1
<1>. QED
  BY <1>2, InvAlways, PTL DEF Spec, NotificationKept

-----------------------------------------------------------------------------
(* The run queue.                                                          *)

LEMMA SettlesOne ==
    ASSUME status \in [Runs -> Statuses], NEW r \in Runs, status[r] = "running",
           NEW outcome \in Outcomes, status' = [status EXCEPT ![r] = outcome], conv' = conv
    PROVE  RunQueue!Next
<1>. DEFINE ends == [p \in {r} |-> outcome]
<1>1. /\ ends \in [{r} -> RunQueue!Outcomes]
      /\ status' = [p \in RunQueue!Runs |-> IF p \in {r} THEN ends[p] ELSE status[p]]
  BY DEF RunQueue!Outcomes, Outcomes, RunQueue!Runs, Runs
<1>2. RunQueue!Settle({r})
  BY <1>1 DEF RunQueue!Settle
<1>3. {r} \in SUBSET RunQueue!Runs
  BY DEF RunQueue!Runs, Runs
<1>. QED
  BY <1>2, <1>3 DEF RunQueue!Next

LEMMA CancelsOne ==
    ASSUME status \in [Runs -> Statuses], NEW r, conv' = conv,
           \/ status[r] \in {"queued", "running"} /\ status' = [status EXCEPT ![r] = "cancelled"]
           \/ status' = [status EXCEPT ![r] = status[r]]
    PROVE  RunQueue!Next \/ UNCHANGED <<conv, status>>
<1>1. CASE r \notin Runs \/ status' = [status EXCEPT ![r] = status[r]]
  BY <1>1
<1>2. CASE r \in Runs /\ status[r] = "queued" /\ status' = [status EXCEPT ![r] = "cancelled"]
  BY <1>2 DEF RunQueue!Next, RunQueue!CancelQueued, RunQueue!Runs, Runs
<1>3. CASE r \in Runs /\ status[r] = "running" /\ status' = [status EXCEPT ![r] = "cancelled"]
  BY <1>3, SettlesOne DEF Outcomes
<1>. QED
  BY <1>1, <1>2, <1>3

(* What the scheduler, its cancellations and its crashes do to the runs is *)
(* what the run queue allows: it submits behind what is queued, and a      *)
(* cancellation ends a run that is not over.                               *)
THEOREM KeepsRunLifecycle == Spec => RunsKeepTheirLifecycle
<1>1. Init => RunQueue!Init
  BY DEF Init, RunQueue!Init, Runs, RunQueue!Runs
<1>2. ASSUME IInv, Next PROVE RunQueue!Next \/ UNCHANGED <<conv, status>>
  <2>1. status \in [Runs -> Statuses]
    BY <1>2, TypeParts DEF IInv
  <2>2. CASE \E s \in Schedules :
                \/ \E cfg \in Configs : Create(s, cfg) \/ Update(s, cfg)
                \/ \E on \in BOOLEAN : SetEnabled(s, on)
                \/ Delete(s)
                \/ \E q \in Requests : RunNow(q, s)
    BY <2>2 DEF Create, Update, SetEnabled, Delete, RunNow
  <2>3. CASE LoopStep
    BY <2>3 DEF LoopStep, Tick, Materialize, MaterializeRaises, ListCompleted, NotifyClaim,
                NotifyEnqueue, NotifyFinish, TickReturns, store
  <2>4. ASSUME NEW a \in Actors, Step(a)
        PROVE  RunQueue!Next \/ UNCHANGED <<conv, status>>
    <3>1. CASE ListSchedules(a) \/ Consider(a) \/ SkipOverlap(a) \/ CancelStops(a) \/ StopRaises(a) \/
               Replaced(a) \/ Claim(a) \/ SubmitRaises(a) \/ RunNowReturns(a)
      BY <3>1 DEF ListSchedules, Consider, SkipOverlap, CancelStops, StopRaises, Replaced, Claim,
                  SubmitRaises, RunNowReturns, store
    <3>2. CASE CancelAtOnce(a)
      <4>1. PICK r : /\ conv' = conv
                     /\ status' = [status EXCEPT ![r] = IF status[r] \in {"queued", "running"}
                                                        THEN "cancelled" ELSE status[r]]
        BY <3>2 DEF CancelAtOnce
      <4>. QED
        BY <2>1, <4>1, CancelsOne
    <3>3. CASE StopAnswered(a)
      <4>1. PICK r : /\ conv' = conv
                     /\ status' = [status EXCEPT ![r] = IF status[r] = "running"
                                                        THEN "cancelled" ELSE status[r]]
        BY <3>3 DEF StopAnswered
      <4>. QED
        BY <2>1, <4>1, CancelsOne
    <3>4. CASE Submit(a)
      <4>1. PICK t \in me[a].claimed, c \in {<<Current(a)>>} \cup me[a].claimed :
               /\ me[a].pc = "submit" /\ Len(conv) < MaxRuns
               /\ c = <<Current(a)>> \/ c = t
               /\ conv' = Append(conv, c)
               /\ status' = [status EXCEPT ![Len(conv) + 1] = "queued"]
        BY <3>4 DEF Submit, Dispatching
      <4>2. t \in Triggers /\ t[1] = Current(a) /\ t[1] \in Schedules
        BY <1>2, <4>1 DEF IInv, Control, Proper, Triggers
      <4>3. c \in {<<s>> : s \in Schedules} \cup Triggers
        BY <4>1, <4>2
      <4>4. RunQueue!Submit(c)
        BY <4>1 DEF RunQueue!Submit
      <4>. QED
        BY <4>3, <4>4 DEF RunQueue!Next
    <3>. QED
      BY <2>4, <3>1, <3>2, <3>3, <3>4 DEF Step
  <2>5. ASSUME NEW r \in Runs, RunStarts(r) PROVE RunQueue!Next
    BY <2>5 DEF RunStarts, RunQueue!Next, RunQueue!Runs, Runs
  <2>6. ASSUME NEW r \in Runs, RunEnds(r) PROVE RunQueue!Next
    <3>1. PICK outcome \in Outcomes : /\ status[r] = "running" /\ conv' = conv
                                      /\ status' = [status EXCEPT ![r] = outcome]
      BY <2>6, EndingsAssumption DEF RunEnds, RunQueue!Outcomes, Outcomes
    <3>. QED
      BY <2>1, <3>1, SettlesOne
  <2>7. CASE (\E t \in Triggers : LeaseExpires(t)) \/ TimePasses \/ Crash \/ Boot
    BY <2>7 DEF LeaseExpires, TimePasses, Crash, Boot, store
  <2>. QED
    BY <1>2, <2>2, <2>3, <2>4, <2>5, <2>6, <2>7 DEF Next
<1>3. IInv /\ [Next]_vars => [RunQueue!Next]_RunQueue!vars
  BY <1>2 DEF vars, RunQueue!vars
<1>. QED
  BY <1>1, <1>3, InvAlways, PTL DEF Spec, RunsKeepTheirLifecycle, RunQueue!Spec
=============================================================================
