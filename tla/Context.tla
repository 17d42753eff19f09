-------------------------------- MODULE Context --------------------------------
(***************************************************************************)
(* What an agent is told of its conversation.  A run's prompt is compiled  *)
(* when the run is dispatched: a fresh AGY conversation gets a summary and *)
(* the messages after it, a resumed one nothing of the history, for it is  *)
(* taken to know it (src/gravityclaw/context.py, the run and summary       *)
(* methods of store.py, the dispatch of manager.py).                       *)
(*                                                                         *)
(* One conversation.  A message is its number, in the order of the rows.   *)
(* Claiming a run, compiling its prompt, the start of its worker and its   *)
(* attachment are separated by awaits, at which anything else may happen.  *)
(* The identity, memory and artifact sources of a prompt are left out, and *)
(* every message and every summary takes one unit of the budget.           *)
(*                                                                         *)
(* That a summary folds a message means that its range and count account   *)
(* for it, which is what manifest and watermark record.  How much of it    *)
(* the text keeps is another matter: the last 80 of the messages folded,   *)
(* 160 characters of each, 16000 of the whole (_summarize_messages).       *)
(***************************************************************************)
EXTENDS Gateway, Sequences, SequencesExt, FiniteSets, FiniteSetsExt

CONSTANTS Threshold,       \* compaction_threshold of the profile
          Recent,          \* recent_turns of the profile
          Keep,            \* values of keep_recent_turns the user may give
          Cap,             \* budget of a prompt's history, in units
          MaxCompactions   \* bound: compactions the user asks for

Roles == {"user", "assistant"}
Statuses == {"none", "queued", "running", "completed", "failed", "interrupted",
             "cancelled"}

ASSUME ContextAssumption ==
  /\ {Threshold, MaxCompactions} \subseteq Nat
  /\ {Recent, Cap} \subseteq Nat \ {0} /\ Keep \subseteq Nat \ {0}
  /\ Recent <= Threshold

VARIABLES message,     \* the rows of messages: which run, which role
          status,      \* of the runs
          phase,       \* how far the dispatch of a run has come
          manifest,    \* context_manifests
          summary,     \* the rows of conversation_summaries
          bound,       \* agy_conversation_id, named by the run that began it
          watermark,   \* context_watermarks
          compactions,
          \* Three auxiliary variables, for the properties.
          agent,       \* what each AGY conversation has been told or has said
          heard,       \* runs whose agent was heard of
          left         \* messages a prompt left out, or a summary stepped over

contextVars == <<message, status, phase, manifest, summary, bound, watermark,
                 compactions, crashes, agent, heard, left>>

Numbers == 1..Len(message)
Phases == {"none", "claimed", "compiled", "started", "attached", "over"}
NoSummary == [version |-> 0, first |-> 0, last |-> 0, count |-> 0, folded |-> {}]
NoManifest == [lifecycle |-> "none", resumed |-> 0, shown |-> {}, folded |-> {},
               omitted |-> {}, upto |-> 0]
NoWatermark == [run |-> 0, message |-> 0, backend |-> 0]

ContextTypeOK ==
  /\ message \in Seq([run : Runs, role : Roles])
  /\ status \in [Runs -> Statuses] /\ phase \in [Runs -> Phases]
  /\ manifest \in [Runs ->
       [lifecycle : {"none", "COMPILED", "DISPATCHED", "ARCHIVED"},
        resumed : Runs \cup {0}, shown : SUBSET Numbers,
        folded : SUBSET Numbers, omitted : SUBSET Numbers,
        upto : Numbers \cup {0}]]
  /\ \A s \in summary : /\ s.version \in Nat \ {0} /\ s.count \in Nat \ {0}
                        /\ {s.first, s.last} \subseteq s.folded
                        /\ s.folded \subseteq Numbers
  /\ \A s, t \in summary : s # t => /\ s.version # t.version
                                    /\ <<s.first, s.last>> # <<t.first, t.last>>
  /\ bound \in Runs \cup {0}
  /\ watermark \in [run : Runs \cup {0}, message : Numbers \cup {0},
                    backend : Runs \cup {0}]
  /\ compactions \in 0..MaxCompactions /\ crashes \in 0..MaxCrashes
  /\ agent \in [Runs -> SUBSET Numbers]
  /\ heard \subseteq Runs /\ left \subseteq Numbers

ContextInit ==
  /\ message = <<>>
  /\ status = [r \in Runs |-> "none"] /\ phase = [r \in Runs |-> "none"]
  /\ manifest = [r \in Runs |-> NoManifest]
  /\ summary = {}
  /\ bound = 0 /\ watermark = NoWatermark
  /\ compactions = 0 /\ crashes = 0
  /\ agent = [r \in Runs |-> {}]
  /\ heard = {} /\ left = {}

(***************************************************************************)
(* The user.                                                               *)
(***************************************************************************)
Submit(r) ==
  /\ \A q \in Runs : status[q] = "none" <=> q >= r
  /\ message' = Append(message, [run |-> r, role |-> "user"])
  /\ status' = [status EXCEPT ![r] = "queued"]
  /\ UNCHANGED <<phase, manifest, summary, bound, watermark, compactions,
                 crashes, agent, heard, left>>

\* latest_context_summary.
Latest == IF summary = {} THEN NoSummary
          ELSE CHOOSE s \in summary : \A t \in summary : t.version <= s.version

\* _summarize_messages: what the summary before accounted for, then the older
\* messages.
Folded(prior, older) ==
  [version |-> prior.version + 1,
   first |-> IF prior.version = 0 THEN Min(older) ELSE prior.first,
   last |-> Max(older),
   count |-> prior.count + Cardinality(older),
   folded |-> prior.folded \cup older]

\* The rows a new one may not stand beside.
Clash(s) ==
  {t \in summary : \/ t.version = s.version
                   \/ t.first = s.first /\ t.last = s.last}

\* compact_conversation folds from the first message on, whatever the summary
\* before has folded, and up to the last one if there are few.
Compact(keep) ==
  /\ compactions < MaxCompactions /\ compactions' = compactions + 1
  /\ Len(message) >= 2
  /\ LET older == 1..(Len(message) - (IF Len(message) <= keep THEN 1 ELSE keep))
         new == Folded(Latest, older)
     IN summary' = (summary \ Clash(new)) \cup {new}
  /\ UNCHANGED <<message, status, phase, manifest, bound, watermark, crashes,
                 agent, heard, left>>

(***************************************************************************)
(* Dispatch.                                                               *)
(***************************************************************************)
\* A slip: a conversation may run twice.
OldestQueued(r) ==
  /\ status[r] = "queued"
  /\ \A q \in Runs : status[q] = "queued" => q >= r

Claimable(r) ==
  /\ status[r] = "queued"
  /\ \A q \in Runs : /\ status[q] # "running"
                     /\ status[q] = "queued" => q >= r

\* One dispatch at a time holds the lock of the conversation.
Claim(r) ==
  /\ Claimable(r)
  /\ \A q \in Runs : phase[q] \notin {"claimed", "compiled", "started"}
  /\ status' = [status EXCEPT ![r] = "running"]
  /\ phase' = [phase EXCEPT ![r] = "claimed"]
  /\ UNCHANGED <<message, manifest, summary, bound, watermark, compactions,
                 crashes, agent, heard, left>>

\* get_run_message_id.
Own(r) == CHOOSE n \in Numbers : message[n] = [run |-> r, role |-> "user"]

\* A slip: the last message of the summary is told again.
FromTheLast(last, r) == {n \in Numbers : n >= last /\ message[n].run # r}

\* A slip: off by one, the first message after the summary is skipped.
FromTheNext(last, r) == {n \in Numbers : n > last + 1 /\ message[n].run # r}

\* messages_after: the later rows, without those of the run itself.
After(last, r) == {n \in Numbers : n > last /\ message[n].run # r}

\* The k greatest numbers of a set, or all of it.
Newest(k, ns) == {n \in ns : Cardinality({i \in ns : i > n}) < k}

\* The number of messages that are folded: all but the recent ones, once there
\* are more than the threshold.
Older(history) ==
  IF Cardinality(history) > Threshold THEN history \ Newest(Recent, history)
  ELSE {}

\* The summary ranks before the messages, of these the newest come first.
Shown(messages, folded) ==
  Newest(IF folded = {} THEN Cap ELSE Cap - 1, messages)

\* The prompt of a run: nothing of the history where an AGY conversation is
\* resumed.  A summary that clashes with a stored one is not stored.
Prompt(r, last) ==
  IF bound # 0
  THEN [manifest |-> [NoManifest EXCEPT !.lifecycle = "COMPILED",
                        !.resumed = bound, !.upto = Len(message)],
        summary |-> {}]
  ELSE LET history == After(last, r)
           older == Older(history)
           used == IF older = {} THEN Latest ELSE Folded(Latest, older)
           shown == Shown(history \ older, used.folded)
       IN [manifest |-> [lifecycle |-> "COMPILED", resumed |-> 0,
                         shown |-> shown, folded |-> used.folded,
                         omitted |-> (history \ older) \ shown,
                         upto |-> Len(message)],
           summary |-> IF older = {} \/ Clash(used) # {} THEN {} ELSE {used}]

\* prepare_run_context: the manifest and the summary are stored together.
Prepared(r, prompt) ==
  /\ manifest' = [manifest EXCEPT ![r] = prompt.manifest]
  /\ summary' = summary \cup prompt.summary
  /\ left' = left \cup prompt.manifest.omitted \cup
               UNION {({Own(r)} \cap 1..s.last) \ s.folded : s \in prompt.summary}
  /\ phase' = [phase EXCEPT ![r] = "compiled"]

\* prepare_run_context refuses a run that was cancelled meanwhile.
Compile(r) ==
  /\ phase[r] = "claimed"
  /\ \/ status[r] = "running" /\ Prepared(r, Prompt(r, Latest.last))
     \/ /\ status[r] # "running"
        /\ phase' = [phase EXCEPT ![r] = "over"]
        /\ UNCHANGED <<manifest, summary, left>>
  /\ UNCHANGED <<message, status, bound, watermark, compactions, crashes,
                 agent, heard>>

\* The worker is asked for, and later it has started.
Start(r) ==
  /\ phase[r] = "compiled"
  /\ phase' = [phase EXCEPT ![r] = "started"]
  /\ UNCHANGED <<message, status, manifest, summary, bound, watermark,
                 compactions, crashes, agent, heard, left>>

\* attach_worker: the manifest is dispatched, and the watermark tells so.
Attached(r) ==
  /\ manifest' = [manifest EXCEPT ![r].lifecycle = "DISPATCHED"]
  /\ watermark' = [run |-> r, message |-> Own(r), backend |-> bound]
  /\ phase' = [phase EXCEPT ![r] = "attached"]

Attach(r) ==
  /\ phase[r] = "started"
  /\ \/ status[r] = "running" /\ Attached(r)
     \/ /\ status[r] # "running"
        /\ phase' = [phase EXCEPT ![r] = "over"]
        /\ UNCHANGED <<manifest, watermark>>
  /\ UNCHANGED <<message, status, summary, bound, compactions, crashes, agent,
                 heard, left>>

(***************************************************************************)
(* The worker.                                                             *)
(***************************************************************************)
\* The AGY conversation a run's worker talks to.
Backend(r) == IF manifest[r].resumed # 0 THEN manifest[r].resumed ELSE r

\* bind_backend_conversation, which refuses to replace a binding.
Bound(r) == IF bound = 0 THEN Backend(r) ELSE bound

\* The first events of a worker are ingested: its agent has its prompt.
Hear(r) ==
  /\ phase[r] = "attached" /\ status[r] = "running" /\ r \notin heard
  /\ heard' = heard \cup {r}
  /\ bound' = Bound(r)
  /\ watermark' = [watermark EXCEPT !.backend = bound']
  /\ agent' = [agent EXCEPT ![Backend(r)] =
                 @ \cup manifest[r].shown \cup manifest[r].folded \cup {Own(r)}]
  /\ UNCHANGED <<message, status, phase, manifest, summary, compactions,
                 crashes, left>>

Archived(m) ==
  IF m.lifecycle = "none" THEN m ELSE [m EXCEPT !.lifecycle = "ARCHIVED"]

\* transition_run to an end, with what the agent answered, if it did.
End(r, end, answered) ==
  /\ status' = [status EXCEPT ![r] = end]
  /\ manifest' = [manifest EXCEPT ![r] = Archived(@)]
  /\ IF answered
     THEN /\ message' = Append(message, [run |-> r, role |-> "assistant"])
          /\ agent' = [agent EXCEPT ![Backend(r)] = @ \cup {Len(message')}]
     ELSE UNCHANGED <<message, agent>>

\* _finalize, the loss of the worker, or an error of the monitor.
Finish(r) ==
  /\ phase[r] = "attached" /\ status[r] = "running"
  /\ \E end \in {"completed", "failed", "interrupted", "cancelled"},
        answered \in BOOLEAN :
       /\ end = "completed" \/ answered => r \in heard
       /\ End(r, end, answered)
  /\ phase' = [phase EXCEPT ![r] = "over"]
  /\ UNCHANGED <<summary, bound, watermark, compactions, crashes, heard, left>>

\* The compiler, the capabilities or the backend raise.
FailDispatch(r) ==
  /\ phase[r] \in {"claimed", "compiled", "started"}
  /\ phase' = [phase EXCEPT ![r] = "over"]
  /\ IF status[r] = "running" THEN End(r, "failed", FALSE)
     ELSE UNCHANGED <<message, status, manifest, agent>>
  /\ UNCHANGED <<summary, bound, watermark, compactions, crashes, heard, left>>

\* A dispatch that is under way goes on, and finds the run cancelled.
Cancel(r) ==
  /\ status[r] \in {"queued", "running"}
  /\ End(r, "cancelled", FALSE)
  /\ phase' = [phase EXCEPT ![r] = IF @ = "attached" THEN "over" ELSE @]
  /\ UNCHANGED <<summary, bound, watermark, compactions, crashes, heard, left>>

\* The gateway dies and reconcile runs: a worker that has started is attached,
\* a run that has none is interrupted, a dispatch is forgotten.
Crash ==
  /\ crashes < MaxCrashes /\ crashes' = crashes + 1
  /\ \/ /\ \A r \in Runs : phase[r] \notin {"claimed", "compiled", "started"}
        /\ UNCHANGED <<message, status, phase, manifest, watermark, agent>>
     \/ \E r \in Runs :
          /\ phase[r] \in {"claimed", "compiled", "started"}
          /\ \/ /\ phase[r] = "started" /\ status[r] = "running" /\ Attached(r)
                /\ UNCHANGED <<message, status, agent>>
             \/ /\ status[r] = "running" /\ End(r, "interrupted", FALSE)
                /\ phase' = [phase EXCEPT ![r] = "over"]
                /\ UNCHANGED watermark
             \/ /\ status[r] # "running"
                /\ phase' = [phase EXCEPT ![r] = "over"]
                /\ UNCHANGED <<message, status, manifest, watermark, agent>>
  /\ UNCHANGED <<summary, bound, compactions, heard, left>>

ContextNext ==
  \/ \E r \in Runs : \/ Submit(r) \/ Claim(r) \/ Compile(r) \/ Start(r)
                     \/ Attach(r) \/ Hear(r) \/ Finish(r) \/ FailDispatch(r)
                     \/ Cancel(r)
  \/ \E keep \in Keep : Compact(keep)
  \/ Crash

ContextSpec == ContextInit /\ [][ContextNext]_contextVars

(***************************************************************************)
(* Properties.                                                             *)
(***************************************************************************)
Compiled(r) == manifest[r].lifecycle # "none"
Others(r) == (1..manifest[r].upto) \ {Own(r)}

\* What a fresh agent is given accounts for every earlier message, by a summary
\* that covers it or verbatim, but for what its manifest reports as omitted for the budget and for the
\* message of a run whose own compaction stepped over it: whatever order the
\* user's and the compiler's compactions come in, and through every crash.
HistoryComplete ==
  \A r \in Runs : Compiled(r) /\ manifest[r].resumed = 0 =>
    Others(r) \subseteq manifest[r].shown \cup manifest[r].folded \cup
                        manifest[r].omitted \cup left

\* Unless the user compacts by hand, a prompt repeats nothing ("Recent messages
\* and summary coverage do not overlap", docs/milestone-5.md), and a summary
\* that stepped over no message counts exactly those between its ends.
NothingTwice ==
  compactions = 0 =>
    /\ \A r \in Runs : manifest[r].shown \cap manifest[r].folded = {}
    /\ \A s \in summary : /\ s.count = Cardinality(s.folded)
                          /\ (s.first..s.last) \ s.folded \subseteq left

\* The agent that later runs resume, without a word of history, was given, itself
\* or within the range of a summary, what was said before its conversation began,
\* and all that any run heard of has asked and answered.
ResumedKnows ==
  bound # 0 =>
    /\ Others(bound) \subseteq agent[bound] \cup left
    /\ \A n \in Numbers : message[n].run \in heard => n \in agent[bound]

===============================================================================
