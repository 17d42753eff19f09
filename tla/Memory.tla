-------------------------------- MODULE Memory --------------------------------
(***************************************************************************)
(* Long-term memory: the curated rows of SQLite and the lines of MEMORY.md *)
(* that mirror them, the memory curator, the learning jobs that review a   *)
(* run in the background, the candidates waiting for the user's word, and  *)
(* the console's editor of the document (src/gravityclaw/curator.py,       *)
(* learning.py, memory.py, identity.py and their routes in api.py).        *)
(*                                                                         *)
(* Every operation is code that runs without a pause on the event loop and *)
(* writes to SQLite and to the file one after the other; the process can   *)
(* stop between two writes.  An operation is one action that makes a       *)
(* prefix of its writes.  Only a review leaves the loop, while it asks its *)
(* model.  USER.md is a second document treated like MEMORY.md.            *)
(***************************************************************************)
EXTENDS Gateway, Sequences, SequencesExt, FiniteSets

CONSTANTS Contents,      \* what a memory may say
          Repeats,       \* <<new, old>>: texts that say nearly the same
          Opposes,       \* <<new, old>>: texts that say the opposite
          SearchLimit,   \* how many rows a search returns: ten
          MaxMemories,   \* bound: curated rows ever made
          MaxEvents,     \* bound: rows of learning_events
          MaxVersions,   \* bound: recorded versions of the document
          MaxRevisions,  \* bound: supersessions of one memory
          MaxRetries,    \* max_retries of the learning engine
          Approval,      \* memory_approval_required
          Nothing        \* no row, no line

Memories == 1..MaxMemories
Events == 1..MaxEvents
Modes == {"manual", "assisted", "automatic"}

\* The lines of the document: of a memory the curator promoted, of a candidate
\* the user promoted, of the fact that reviews keep under their key.
Markers == ({"memory"} \X Memories) \cup ({"event"} \X Events) \cup {<<"key", 1>>}

ASSUME MemoryAssumption ==
  /\ Nothing \notin Contents
  /\ Repeats \cup Opposes \subseteq Contents \X Contents
  /\ SearchLimit \in Nat \ {0}
  /\ {MaxMemories, MaxEvents, MaxVersions, MaxRevisions, MaxRetries} \subseteq Nat
  /\ Approval \in BOOLEAN

VARIABLES made,      \* the number of curated rows ever made
          row,       \* the curated rows of memories
          others,    \* the rows of other kinds, counted up to SearchLimit
          revised,   \* memory_revisions: previous and new content, per memory
          doc,       \* MEMORY.md, by marker
          event,     \* the rows of learning_events
          mode,      \* the governance mode of the curator
          job,       \* the rows of learning_jobs, one per reviewed run
          live,      \* jobs whose background task exists
          version,   \* identity_revisions: the last version and its text
          editor,    \* what the console's editor was opened with
          \* Three auxiliary variables, for the properties.
          unchecked, \* rows that were written without the curator's check, or by
                     \* one that was not shown all they repeat or oppose
          apart,     \* rows that were cut off from their line
          suggested  \* contents the curator said it queued for approval

memoryVars == <<made, row, others, revised, doc, event, mode, job, live, version, editor,
                crashes, unchecked, apart, suggested>>

NoEvent == [content |-> Nothing, status |-> "none"]
NoJob == [state |-> "none", attempts |-> 0]
Blank == [number |-> 0, doc |-> [k \in Markers |-> Nothing]]
EventStates == {"applied", "pending_approval", "rejected", "failed"}
JobStates == {"pending", "running", "completed", "failed"}
Documents == [Markers -> Contents \cup {Nothing}]

MemoryTypeOK ==
  /\ made \in 0..MaxMemories
  /\ row \in [Memories -> Contents \cup {Nothing}]
  /\ others \in 0..SearchLimit
  /\ revised \in [Memories -> Seq(Contents \X Contents)]
  /\ doc \in Documents
  /\ event \in [Events -> {NoEvent} \cup
                  [content : Contents \cup {Nothing}, status : EventStates]]
  /\ mode \in Modes
  /\ job \in [Runs -> {NoJob} \cup [state : JobStates, attempts : {0, 1}]]
  /\ live \subseteq {r \in Runs : job[r].state \in {"pending", "running"}}
  /\ {version.number, editor.number} \subseteq 0..MaxVersions
  /\ {version.doc, editor.doc} \subseteq Documents
  /\ crashes \in 0..MaxCrashes
  /\ unchecked \cup apart \subseteq 1..made
  /\ suggested \subseteq Contents

MemoryInit ==
  /\ made = 0
  /\ row = [m \in Memories |-> Nothing]
  /\ others = 0
  /\ revised = [m \in Memories |-> <<>>]
  /\ doc = Blank.doc
  /\ event = [e \in Events |-> NoEvent]
  /\ mode = "assisted"
  /\ job = [r \in Runs |-> NoJob] /\ live = {}
  /\ version = Blank /\ editor = Blank
  /\ crashes = 0
  /\ unchecked = {} /\ apart = {} /\ suggested = {}

(***************************************************************************)
(* Writes.                                                                 *)
(***************************************************************************)
\* What an operation writes where; the fields it does not need keep these.
Op == [memory |-> 1, marker |-> <<"none", 0>>, content |-> Nothing,
       event |-> 1, status |-> "none", run |-> 1, outcome |-> NoJob]

WithRow(op) == [row EXCEPT ![op.memory] = op.content]

WithRevision(op) ==
  [revised EXCEPT ![op.memory] = Append(@, <<row[op.memory], op.content>>)]

WithLine(op) == [doc EXCEPT ![op.marker] = op.content]

\* The text of an event that failed is its error.
WithEvent(op) ==
  [event EXCEPT ![op.event] =
     [content |-> IF op.status = "failed" THEN Nothing ELSE op.content,
      status |-> op.status]]

WithOutcome(op) == [job EXCEPT ![op.run] = op.outcome]

\* One more row of another kind; more than the limit is as good as the limit.
OneMore == IF others < SearchLimit THEN others + 1 ELSE others

Write(op, done) ==
  /\ made' = IF "row" \in done /\ op.memory > made THEN op.memory ELSE made
  /\ row' = IF "row" \in done THEN WithRow(op) ELSE row
  /\ others' = IF "episode" \in done THEN OneMore ELSE others
  /\ revised' = IF "revise" \in done THEN WithRevision(op) ELSE revised
  /\ doc' = IF "line" \in done THEN WithLine(op) ELSE doc
  /\ event' = IF "event" \in done THEN WithEvent(op) ELSE event
  /\ job' = IF "job" \in done THEN WithOutcome(op) ELSE job

\* The background tasks after the operation: a task that wrote its job's outcome
\* has ended.
StillLive(op, died) ==
  CASE died -> {}
    [] ~died /\ op.outcome = NoJob -> live
    [] OTHER -> live \ {op.run}

\* The first k of the steps are made; with fewer than all of them the process
\* died, and its background tasks with it.  Some operations log a write that
\* fails, of a document grown too large, and go on.
Operate(op, steps, mayFail) ==
  \E k \in 0..Len(steps), refused \in SUBSET mayFail :
    LET died == k < Len(steps)
        done == Range(SubSeq(steps, 1, k)) \ refused
        missed == Range(steps) \ done
    IN /\ refused \subseteq Range(SubSeq(steps, 1, k))
       /\ Write(op, done)
       /\ crashes' = crashes + (IF died THEN 1 ELSE 0) /\ crashes' <= MaxCrashes
       /\ live' = StillLive(op, died)
       /\ apart' = IF "row" \in done
                      /\ ("line" \in missed \/ op.marker[1] # "memory")
                   THEN apart \cup {op.memory} ELSE apart
       /\ UNCHANGED <<mode, version, editor, suggested>>

\* The number of the next learning event.
NextEvent(e) == \A i \in Events : event[i] = NoEvent <=> i >= e

(***************************************************************************)
(* The curator.                                                            *)
(***************************************************************************)
Stored == {m \in Memories : row[m] # Nothing}

\* search_memories returns the SearchLimit rows that match best, whatever their
\* kind; the curated ones are picked out of these.  It misses a curated row only
\* where others fill its place.
Shows(found) ==
  \/ found = Stored
  \/ /\ Cardinality(found) <= SearchLimit
     /\ Cardinality(found) + others >= SearchLimit

\* check_contradiction_and_overlap: the first of the rows found that the new
\* text repeats or opposes; the order is the search's.
Relates(new, old) == <<new, old>> \in Repeats \cup Opposes
Related(c, found) == {m \in found : Relates(c, row[m])}

\* A row that is repeated word for word, or nearly, is not taken for opposed.
Contradicts(old, new) == <<new, old>> \in Opposes \ Repeats

\* A slip: the old content is recorded after it was replaced.
SupersedeLate == <<"row", "revise", "line">>

\* A slip: the line of the document keeps the old content.
SupersedeOnlyRow == <<"revise", "row">>

\* A memory is one line here: of a text of several lines the code would rewrite the
\* one with the marker, and leave those above it as they were.
SupersedeSteps == <<"revise", "row", "line">>
PromoteSteps == <<"row", "line">>

Promote(c, found) ==
  /\ made < MaxMemories
  /\ Operate([Op EXCEPT !.memory = made + 1, !.marker = <<"memory", made + 1>>,
                        !.content = c], PromoteSteps, {"line"})
  /\ unchecked' = IF made' > made /\ Related(c, Stored \ found) # {}
                  THEN unchecked \cup {made'} ELSE unchecked

\* supersede_memory rewrites the line only where the document has it.
Supersede(m, c) ==
  /\ Len(revised[m]) < MaxRevisions
  /\ LET op == [Op EXCEPT !.memory = m, !.marker = <<"memory", m>>, !.content = c]
     IN IF doc[op.marker] # Nothing THEN Operate(op, SupersedeSteps, {"line"})
        ELSE Operate(op, SubSeq(SupersedeSteps, 1, 2), {})
  /\ UNCHANGED unchecked

\* _record_candidate_event: the row is typed after the verdict, and the table
\* takes none of those types; the error is logged.
Accepted == {"memory_upsert", "memory_remove", "skill_candidate",
             "review_skipped"}
TypeOf == [new |-> "memory_new", supersede |-> "memory_supersede"]

Suggest(c, verdict) ==
  /\ suggested' = suggested \cup {c}
  /\ IF TypeOf[verdict] \in Accepted
        /\ \A e \in Events : event[e] # [content |-> c, status |-> "pending_approval"]
     THEN \E e \in Events :
            /\ NextEvent(e)
            /\ event' = [event EXCEPT ![e] =
                           [content |-> c, status |-> "pending_approval"]]
     ELSE UNCHANGED event
  /\ UNCHANGED <<made, row, others, revised, doc, mode, job, live, version, editor,
                 crashes, unchecked, apart>>

\* Where a text may come from and what its detectors may take it for.
Sources == {"user", "agent", "journal"}
Categories == {"preference", "constraint", "decision", "correction", "fact"}

\* In thousandths, of a text of any length and with no risk found.
Worth == [preference |-> 950, constraint |-> 950, decision |-> 900,
          correction |-> 950, fact |-> 850]
Trust == [user |-> 1000, agent |-> 500, journal |-> 800]
Confidence == [user |-> 950, agent |-> 850, journal |-> 850]
Score(source, category) ==
  (50 * Worth[category] + 20 * Confidence[source] + 15 * 1000
     + 15 * Trust[source]) \div 100

\* A slip: assisted mode promotes what contradicts a memory.
GovernedHastily(source, category, verdict) ==
  CASE mode = "manual" ->
         IF source = "user" /\ verdict = "new" THEN "promote" ELSE "discard"
    [] mode = "assisted" -> IF source = "user" THEN "promote" ELSE "suggest"
    [] mode = "automatic" ->
         IF verdict = "supersede" THEN "supersede" ELSE "promote"

\* What the mode lets a candidate become.
Governed(source, category, verdict) ==
  CASE mode = "manual" ->
         IF source = "user" /\ verdict = "new" THEN "promote" ELSE "discard"
    [] mode = "assisted" ->
         IF source = "user" /\ verdict = "new" THEN "promote" ELSE "suggest"
    [] mode = "automatic" ->
         IF verdict = "supersede" THEN "supersede"
         ELSE IF Score(source, category) >= 700 THEN "promote" ELSE "suggest"

\* What becomes of a candidate that says c, given what the search shows of the
\* curated rows and what may be decided on each verdict.
Curate(c, decisions) ==
  \E found \in SUBSET Stored :
    /\ Shows(found)
    /\ \/ /\ Related(c, found) = {}
          /\ \/ "promote" \in decisions["new"] /\ Promote(c, found)
             \/ "suggest" \in decisions["new"] /\ Suggest(c, "new")
       \/ \E m \in Related(c, found) :
            /\ Contradicts(row[m], c)
            /\ \/ "supersede" \in decisions["supersede"] /\ Supersede(m, c)
               \/ "promote" \in decisions["supersede"] /\ Promote(c, found)
               \/ "suggest" \in decisions["supersede"] /\ Suggest(c, "supersede")

\* One candidate of a completed run: from the user's prompt or from the answer.
\* A run with several of them is as many such steps in a row.
ProcessRun(c) ==
  Curate(c, [verdict \in {"new", "supersede"} |->
    {Governed(source, category, verdict) :
       source \in Sources \ {"journal"}, category \in Categories}])

\* consolidate_journals: one entry of a journal, suggested in every mode but
\* the automatic one, which asks more of it.
Consolidated(category, verdict) ==
  IF mode # "automatic" THEN "suggest"
  ELSE IF verdict = "supersede" THEN "supersede"
  ELSE IF Score("journal", category) >= 750 THEN "promote" ELSE "suggest"

Consolidate(c) ==
  Curate(c, [verdict \in {"new", "supersede"} |->
    {Consolidated(category, verdict) : category \in Categories}])

\* The user's /remember.
Remember(c) ==
  \E found \in SUBSET Stored :
    /\ Shows(found)
    /\ \/ Related(c, found) = {} /\ Promote(c, found)
       \/ \E m \in Related(c, found) : Contradicts(row[m], c) /\ Supersede(m, c)

SetMode(new) ==
  /\ mode # new /\ mode' = new
  /\ UNCHANGED <<made, row, others, revised, doc, event, job, live, version, editor,
                 crashes, unchecked, apart, suggested>>

Curator ==
  \/ \E c \in Contents : ProcessRun(c) \/ Consolidate(c) \/ Remember(c)
  \/ \E new \in Modes : SetMode(new)

(***************************************************************************)
(* Learning: a job is made when a run was found worth a review, its task   *)
(* starts, asks the reviewer, and applies what it answered.                *)
(***************************************************************************)
NewJob == [state |-> "pending", attempts |-> 0]

Enqueue(r) ==
  /\ \A q \in Runs : job[q] = NoJob <=> q >= r
  /\ job' = [job EXCEPT ![r] = NewJob]
  /\ live' = live \cup {r}
  /\ UNCHANGED <<made, row, others, revised, doc, event, mode, version, editor, crashes,
                 unchecked, apart, suggested>>

Begin(r) ==
  /\ r \in live /\ job[r].state = "pending"
  /\ job' = [job EXCEPT ![r].state = "running"]
  /\ UNCHANGED <<made, row, others, revised, doc, event, mode, live, version, editor,
                 crashes, unchecked, apart, suggested>>

Completed == [state |-> "completed", attempts |-> 0]

\* The handler of an exception counts from the record the task was given.
Raised(attempts) ==
  [state |-> IF attempts + 1 >= MaxRetries THEN "failed" ELSE "pending",
   attempts |-> attempts + 1]

\* The writes for a fact: what it says goes to the document, and for the search
\* into a row of its own.  A write that raises leaves the ones before it, and an
\* event that says so.
FactWrites(c, status) ==
  CASE status = "pending_approval" -> {<<"event">>}
    [] status = "applied" /\ c = Nothing -> {<<"line", "event">>}
    [] status = "applied" /\ c # Nothing -> {<<"line", "episode", "event">>}
    [] status = "failed" -> {<<"event">>, <<"line", "event">>} \cup
         (IF c = Nothing THEN {} ELSE {<<"line", "episode", "event">>})

Fact(r, outcome, c, e, status) ==
  [Op EXCEPT !.run = r, !.outcome = outcome, !.marker = <<"key", 1>>,
             !.content = c, !.event = e, !.status = status]

\* What a review may be told: nothing worth it, a fact (with no content when it
\* is one to drop), a procedure for the skills, or an operation that the event
\* table has no type for, alone or after a fact.  A model that answers nothing
\* worth it, or not in time, or not in JSON, is replaced by the heuristic, which
\* only knows facts to keep and procedures.
Parsed == {<<>>, <<"fact">>, <<"skill">>, <<"odd">>, <<"fact", "odd">>}
Heuristic == {<<>>, <<"fact">>, <<"skill">>}
Answers == (Parsed \ {<<>>}) \cup Heuristic

Outcome(answer) == IF "odd" \in Range(answer) THEN Raised(0) ELSE Completed

\* _apply_memory_operation: kept for the user where approval is required.
ApplyFact(r, e, outcome) ==
  \E c \in Contents \cup {Nothing},
     status \in IF Approval THEN {"pending_approval"} ELSE {"applied", "failed"} :
    \E writes \in FactWrites(c, status) :
      Operate(Fact(r, outcome, c, e, status), writes \o <<"job">>, {})

\* _apply_skill_operation: the skills' registry has its own proposal of it.
ApplySkill(r, e, outcome) ==
  \E c \in Contents, status \in {"pending_approval", "failed"} :
    Operate(Fact(r, outcome, c, e, status), <<"event", "job">>, {})

FinishJob(r) ==
  /\ r \in live /\ job[r].state = "running"
  /\ \E answer \in Answers, e \in Events :
       /\ NextEvent(e)
       /\ \/ answer = <<>> /\ Operate(Fact(r, Completed, Nothing, e, "applied"),
                                      <<"job", "event">>, {})
          \/ "fact" \in Range(answer) /\ ApplyFact(r, e, Outcome(answer))
          \/ "skill" \in Range(answer) /\ ApplySkill(r, e, Outcome(answer))
          \/ answer = <<"odd">> /\ Operate(Fact(r, Raised(0), Nothing, e, "failed"),
                                           <<"job">>, {})
  /\ UNCHANGED unchecked

Review == \E r \in Runs : Begin(r) \/ FinishJob(r)

(***************************************************************************)
(* The learning routes: a scan for candidates, and the user's decisions.   *)
(***************************************************************************)
Mark(e, content, status) ==
  /\ event' = [event EXCEPT ![e] = [content |-> content, status |-> status]]
  /\ UNCHANGED <<made, row, others, revised, doc, mode, job, live, version, editor,
                 crashes, unchecked, apart, suggested>>

\* Bound: the rows left are enough for the reviews that still can end.
Room ==
  Cardinality({e \in Events : event[e] = NoEvent})
    > Cardinality({r \in Runs : job[r] = NoJob \/ r \in live})

Scan(c) ==
  Room /\ \E e \in Events : NextEvent(e) /\ Mark(e, c, "pending_approval")

Dismiss(e) == event[e] # NoEvent /\ Mark(e, event[e].content, "rejected")

MayPromote(e) == event[e] # NoEvent /\ event[e].status # "applied"

\* A candidate with no text makes no row; the error text of an event that failed
\* would make one, which is left out.
PromoteCandidate(e) ==
  /\ MayPromote(e) /\ event[e].content # Nothing
  /\ made < MaxMemories
  /\ Operate([Op EXCEPT !.memory = made + 1, !.marker = <<"event", e>>,
                        !.content = event[e].content, !.event = e,
                        !.status = "applied"],
             <<"row", "line", "event">>, {"line"})
  /\ unchecked' = IF made' > made THEN unchecked \cup {made'} ELSE unchecked

\* PATCH and DELETE change the row alone; the revisions go with a deleted row.
Rewrite(m, content) ==
  /\ row[m] # Nothing
  /\ row' = [row EXCEPT ![m] = content]
  /\ unchecked' = unchecked \cup {m} /\ apart' = apart \cup {m}
  /\ UNCHANGED <<made, others, doc, event, mode, job, live, version, editor, crashes,
                 suggested>>

UpdateMemory(m) == \E c \in Contents : Rewrite(m, c) /\ UNCHANGED revised
DeleteMemory(m) ==
  Rewrite(m, Nothing) /\ revised' = [revised EXCEPT ![m] = <<>>]

\* POST /memories, and DELETE of a row that is not curated; a PATCH of one may do
\* either.
CountOthers(n) ==
  /\ others' = n
  /\ UNCHANGED <<made, row, revised, doc, event, mode, job, live, version, editor,
                 crashes, unchecked, apart, suggested>>

RecordMemory == others < SearchLimit /\ CountOthers(OneMore)
DropMemory == others > 0 /\ CountOthers(others - 1)

(***************************************************************************)
(* The console's editor of the document.                                   *)
(***************************************************************************)
\* A slip: the last recorded version stands for the document.
SyncedFromTable ==
  IF version.number = 0 THEN [number |-> 1, doc |-> doc] ELSE version

\* sync_identity_revision: a text nobody recorded becomes the next version.
Synced ==
  IF version.number = 0 \/ version.doc # doc
  THEN [number |-> version.number + 1, doc |-> doc] ELSE version

OpenEditor ==
  /\ Synced.number <= MaxVersions
  /\ version' = Synced
  /\ editor' = [number |-> Synced.number, doc |-> doc]
  /\ UNCHANGED <<made, row, others, revised, doc, event, mode, job, live, crashes,
                 unchecked, apart, suggested>>

\* What the user may have made of the text: one line less, or none.
Edited == {editor.doc} \cup {[editor.doc EXCEPT ![k] = Nothing] : k \in Markers}

Save ==
  /\ editor.number > 0 /\ Synced.number < MaxVersions
  /\ editor' = Blank
  /\ \/ /\ Synced.number # editor.number
        /\ version' = Synced /\ UNCHANGED <<doc, apart, live, crashes>>
     \/ /\ Synced.number = editor.number
        /\ doc' \in Edited
        /\ apart' = apart \cup {m \in 1..made :
                                  doc'[<<"memory", m>>] # doc[<<"memory", m>>]}
        /\ \/ /\ version' = [number |-> Synced.number + 1, doc |-> doc']
              /\ UNCHANGED <<live, crashes>>
           \/ /\ crashes < MaxCrashes /\ crashes' = crashes + 1
              /\ version' = Synced /\ live' = {}
  /\ UNCHANGED <<made, row, others, revised, event, mode, job, unchecked, suggested>>

Route ==
  \/ \E c \in Contents : Scan(c)
  \/ \E e \in Events : Dismiss(e) \/ PromoteCandidate(e)
  \/ \E m \in Memories : UpdateMemory(m) \/ DeleteMemory(m)
  \/ RecordMemory \/ DropMemory
  \/ OpenEditor \/ Save

MemoryNext == Curator \/ Review \/ Route \/ \E r \in Runs : Enqueue(r)

MemorySpec == MemoryInit /\ [][MemoryNext]_memoryVars

(***************************************************************************)
(* Properties.                                                             *)
(***************************************************************************)
\* The document says of a memory what its row says, as long as no crash, no
\* failed write of the document and no hand of the user came between them.
LinesSpeakTrue ==
  \A m \in Memories :
    row[m] # Nothing /\ m \notin apart => doc[<<"memory", m>>] = row[m]

\* Curated memories that went through the curator's check never contradict or
\* repeat each other, whatever mode they were taken in and however the mode,
\* the reviews and the user's own rows changed in between.  A check that was not
\* shown a row, because rows of other kinds filled the search, is none.
NoContradiction ==
  \A m, n \in Stored \ unchecked : m # n => ~Relates(row[m], row[n])

\* A memory is never rewritten by the curator without its former content being
\* on record, also when the gateway dies in the middle.
NothingForgotten ==
  [][Curator => \A m \in Memories :
       row[m] # Nothing /\ row'[m] # row[m]
         => <<row[m], row'[m]>> \in Range(revised'[m])]_memoryVars

\* What the user saves over the document was written with all of its present
\* lines in view: a line the curator or a review added since is a conflict.
EditorSeesAll == [][Save /\ doc' # doc => editor.doc = doc]_memoryVars

\* The code refutes this one (README, section 5): what the curator reports as
\* suggested waits for the user ("Persist a memory candidate suggestion into the
\* learning_events table", curator.py:803).
SuggestionsWait ==
  \A c \in suggested : \E e \in Events : event[e].content = c
===============================================================================
