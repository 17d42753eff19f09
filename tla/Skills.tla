-------------------------------- MODULE Skills --------------------------------
(***************************************************************************)
(* The skill library: SKILL.md files with numbered snapshots in .history/, *)
(* a registry row and revision rows in SQLite, and proposals to create,    *)
(* patch or archive a skill (src/gravityclaw/skills, the learning routes   *)
(* of api.py and the curator).  A skill's file, its snapshots and its rows *)
(* are written one after the other by code that runs without a pause on    *)
(* the event loop: nothing interleaves with it, but the process can stop   *)
(* between any two writes.  An operation is therefore one action that      *)
(* makes a prefix of its writes: all of them, or those before the stop.    *)
(***************************************************************************)
EXTENDS Integers, Sequences, SequencesExt, FiniteSetsExt

CONSTANTS Names,           \* skill names
          Contents,        \* what a SKILL.md may say
          MaxProposals,    \* bound: proposals ever made
          MaxRevision,     \* bound: the highest revision number reached
          MaxCrashes,      \* bound: process stops
          CreateApproval,  \* create_approval_required
          ModifyApproval,  \* modify_approval_required
          TrustMode,       \* "strict", "balanced" or "autonomous"
          NoContent        \* the file does not exist

Owners == {"user", "agent", "bundled"}
Protected == {"user", "bundled"}
States == {"active", "stale", "archived"}
ProposalStates == {"pending", "approved", "rejected", "conflict"}
Proposals == 1..MaxProposals

ASSUME SkillsAssumption ==
  /\ NoContent \notin Contents
  /\ MaxProposals \in Nat /\ MaxRevision \in Nat \ {0} /\ MaxCrashes \in Nat
  /\ CreateApproval \in BOOLEAN /\ ModifyApproval \in BOOLEAN
  /\ TrustMode \in {"strict", "balanced", "autonomous"}

VARIABLES skill,     \* the row of learned_skills, by name
          file,      \* SKILL.md, by name
          meta,      \* the owner skill.json records, by name
          history,   \* the snapshots in .history/, by name and revision
          logged,    \* the revisions that have a row in skill_revisions
          proposal,  \* the rows of skill_proposals
          crashes,
          \* Two auxiliary variables, for the properties.
          applied,   \* how often a proposal raised the revision of its skill
          torn       \* skills whose last operation was cut short

vars == <<skill, file, meta, history, logged, proposal, crashes, applied, torn>>

NoSkill == [owner |-> "none", state |-> "none", revision |-> 0,
            pinned |-> FALSE]
NoProposal == [op |-> "none", name |-> "none", content |-> NoContent,
               base |-> 0, status |-> "none"]

Known(n) == skill[n] # NoSkill

TypeOK ==
  /\ skill \in [Names -> {NoSkill} \cup
                  [owner : Owners, state : States, revision : 0..MaxRevision,
                   pinned : BOOLEAN]]
  /\ file \in [Names -> Contents \cup {NoContent}]
  /\ meta \in [Names -> Owners \cup {"none"}]
  /\ history \in [Names -> [0..MaxRevision -> Contents \cup {NoContent}]]
  /\ logged \in [Names -> SUBSET (1..MaxRevision)]
  /\ proposal \in [Proposals -> {NoProposal} \cup
                     [op : {"create", "patch", "archive"}, name : Names,
                      content : Contents \cup {NoContent},
                      base : 0..MaxRevision, status : ProposalStates]]
  /\ crashes \in 0..MaxCrashes
  /\ applied \in [Proposals -> Nat]
  /\ torn \subseteq Names

Init ==
  /\ skill = [n \in Names |-> NoSkill]
  /\ file = [n \in Names |-> NoContent]
  /\ meta = [n \in Names |-> "none"]
  /\ history = [n \in Names |-> [r \in 0..MaxRevision |-> NoContent]]
  /\ logged = [n \in Names |-> {}]
  /\ proposal = [p \in Proposals |-> NoProposal]
  /\ crashes = 0
  /\ applied = [p \in Proposals |-> 0] /\ torn = {}

(***************************************************************************)
(* The writes of an operation, in the order the code makes them.           *)
(***************************************************************************)
CreateSteps == <<"file", "meta", "register", "revise", "log", "snapshot">>
\* A slip: the new text is not kept as a snapshot.
PatchWithoutSnapshot == <<"old", "file", "revise", "log">>

PatchSteps == <<"old", "file", "snapshot", "revise", "log">>

RollbackSteps == <<"file", "snapshot", "revise", "log">>
ArchiveSteps == <<"archive">>                          \* SkillService.archive
LoggedArchiveSteps == <<"archive", "revise", "log">>   \* ProposalService

Approves(steps) == Append(steps, "resolve")

\* A slip: the revision number is reused, not raised.
JobOfSameRevision(n, c, p) ==
  [name |-> n, content |-> c, owner |-> "agent", proposal |-> p,
   revision |-> Max({1, skill[n].revision})]

\* An operation: the skill it is about, what it writes, for which proposal.
Job(n, c, p) == [name |-> n, content |-> c, owner |-> "agent", proposal |-> p,
                 revision |-> skill[n].revision + 1]
NewJob(n, c, owner, p) == [Job(n, c, p) EXCEPT !.owner = owner, !.revision = 1]
Room(n) == skill[n].revision < MaxRevision

\* A name that is registered refuses a second row, and the operation ends there
\* with its files written.
Reach(j, steps) ==
  IF "register" \in Range(steps) /\ Known(j.name)
  THEN SelectInSeq(steps, LAMBDA s : s = "register") - 1
  ELSE Len(steps)

\* What the writes that were made leave in the row.
Row(j, done) ==
  LET row == IF "register" \in done
             THEN [NoSkill EXCEPT !.owner = j.owner, !.state = "active"]
             ELSE skill[j.name]
  IN [row EXCEPT !.revision = IF "revise" \in done THEN j.revision ELSE @,
                 !.state = IF "archive" \in done THEN "archived" ELSE @]

\* Torn: the file was replaced, the revision it stands for was not finished.
Tears(done, left) == "file" \in done /\ {"snapshot", "revise"} \cap left # {}

\* The writes in done are made, those in left are not.
Writes(j, done, left) ==
  LET n == j.name
  IN /\ skill' = [skill EXCEPT ![n] = Row(j, done)]
     /\ file' = [file EXCEPT ![n] = IF "file" \in done THEN j.content ELSE @]
     /\ meta' = [meta EXCEPT ![n] = IF "meta" \in done THEN j.owner ELSE @]
     /\ history' = [history EXCEPT
          ![n][j.revision - 1] = IF "old" \in done /\ file[n] # NoContent
                                 THEN file[n] ELSE @,
          ![n][j.revision] = IF "snapshot" \in done THEN j.content ELSE @]
     /\ logged' = [logged EXCEPT ![n] = IF "log" \in done
                                       THEN @ \cup {j.revision} ELSE @]
     /\ proposal' = [p \in Proposals |->
          IF p = j.proposal /\ "resolve" \in done /\ proposal[p].status = "pending"
          THEN [proposal[p] EXCEPT !.status = "approved"] ELSE proposal[p]]
     /\ applied' = [p \in Proposals |->
          applied[p] + IF p = j.proposal /\ "revise" \in done THEN 1 ELSE 0]
     /\ torn' = IF "file" \notin done THEN torn
                ELSE IF Tears(done, left) THEN torn \cup {n} ELSE torn \ {n}

\* The first k writes are made; fewer than it can reach, and the process stopped.
Operate(j, steps) ==
  \E k \in 0..Reach(j, steps) :
    /\ crashes' = IF k = Reach(j, steps) THEN crashes ELSE crashes + 1
    /\ crashes' <= MaxCrashes
    /\ Writes(j, Range(SubSeq(steps, 1, k)), Range(SubSeq(steps, k + 1, Len(steps))))

(***************************************************************************)
(* TrustPolicy.evaluate.  Confidence is high or low: 0.7 divides them.     *)
(***************************************************************************)
CuratorOps == {"curator stale", "curator archive", "curator restore"}
StrictRule(op) == "approve"
BalancedRule(op) ==
  IF op \in {"patch", "restore"} \cup CuratorOps THEN "allow" ELSE "approve"
AutonomousRule(op) == "allow"

ModeRule(op) == CASE TrustMode = "strict" -> StrictRule(op)
                  [] TrustMode = "balanced" -> BalancedRule(op)
                  [] TrustMode = "autonomous" -> AutonomousRule(op)

HardDeny(op, owner, pinned) ==
  \/ owner = "user" /\ op # "create"
  \/ owner = "bundled"
  \/ pinned /\ op \in {"curator stale", "curator archive"}

Gated(op) == op \in {"create", "patch", "archive"}

Evaluate(op, owner, pinned, sure) ==
  IF HardDeny(op, owner, pinned) THEN "deny"
  ELSE IF ModeRule(op) = "allow" /\ Gated(op) /\ ~sure THEN "approve"
  ELSE ModeRule(op)

(***************************************************************************)
(* Proposals.  They are numbered in the order they are made.               *)
(***************************************************************************)
Propose(op, n, c) ==
  \E p \in Proposals :
    /\ \A q \in Proposals : proposal[q] = NoProposal <=> q >= p
    /\ proposal' = [proposal EXCEPT ![p] =
         [op |-> op, name |-> n, content |-> c,
          base |-> IF op = "create" THEN 0 ELSE skill[n].revision,
          status |-> "pending"]]
    /\ UNCHANGED <<skill, file, meta, history, logged, crashes, applied, torn>>

\* The learning reviewer: SkillService.process_skill_operation.  It creates
\* under any name, also under one that is taken, and of the policy's answer it
\* heeds only a denial: the two settings say whether to ask.
ReviewCreate(n, c) ==
  /\ Evaluate("create", "agent", FALSE, TRUE) # "deny"
  /\ IF CreateApproval THEN Propose("create", n, c)
     ELSE Operate(NewJob(n, c, "agent", 0), CreateSteps)

ReviewPatch(n, c) ==
  /\ Known(n)
  /\ Evaluate("patch", skill[n].owner, FALSE, TRUE) # "deny"
  /\ IF skill[n].owner = "user" \/ ModifyApproval THEN Propose("patch", n, c)
     ELSE Room(n) /\ Operate(Job(n, c, 0), PatchSteps)

ReviewArchive(n) ==
  /\ Known(n) /\ skill[n].owner # "user"
  /\ Propose("archive", n, file[n])

Review ==
  /\ \E n \in Names :
       \/ \E c \in Contents : ReviewCreate(n, c) \/ ReviewPatch(n, c)
       \/ ReviewArchive(n)

\* The agent's own interface, skill_manage, which only ever proposes.
ManageCreate(n, c) == ~Known(n) /\ Propose("create", n, c)
ManageImprove(n, c) == Known(n) /\ Propose("patch", n, c)
ManageArchive(n) ==
  Known(n) /\ skill[n].owner \notin Protected /\ Propose("archive", n, file[n])

Manage ==
  /\ \E n \in Names :
       \/ \E c \in Contents : ManageCreate(n, c) \/ ManageImprove(n, c)
       \/ ManageArchive(n)

\* /learn: a name that is taken, or an active skill whose description is nearly
\* the same, turns the proposal into a patch of that skill.
Duplicates(n) ==
  IF Known(n) THEN {n}
  ELSE {m \in Names : Known(m) /\ skill[m].state = "active"}

\* _create_proposal: a patch of what was taken for the same, or a new skill.
ProposeLearned(n, c) ==
  \/ \E m \in Duplicates(n) : Propose("patch", m, c)
  \/ ~Known(n) /\ Propose("create", n, c)

Learn == \E n \in Names, c \in Contents : ProposeLearned(n, c)

(***************************************************************************)
(* Decisions.                                                              *)
(***************************************************************************)
Settle(p, status) ==
  /\ proposal[p].status = "pending"
  /\ proposal' = [proposal EXCEPT ![p].status = status]
  /\ UNCHANGED <<skill, file, meta, history, logged, crashes, applied, torn>>

Reject(p) == Settle(p, "rejected")

\* A slip: the base revision may lie one behind.
StaleByTwo(p) == proposal[p].op = "patch"
                 /\ skill[proposal[p].name].revision > proposal[p].base + 1

Stale(p) == proposal[p].op = "patch"
            /\ proposal[p].base # skill[proposal[p].name].revision

\* POST /api/learning/proposals/{id}/approve: only a pending proposal, applied
\* by the direct operations of SkillService.
ApproveRoute(p) ==
  LET q == proposal[p] IN
    /\ q.status = "pending"
    /\ \/ Stale(p) /\ Settle(p, "conflict")
       \/ /\ q.op = "create"
          /\ Operate(NewJob(q.name, q.content, "agent", p),
                     Approves(CreateSteps))
       \/ /\ q.op = "patch" /\ ~Stale(p) /\ Room(q.name)
          /\ Operate(Job(q.name, q.content, p), Approves(PatchSteps))
       \/ /\ q.op = "archive"
          /\ Operate(Job(q.name, NoContent, p), Approves(ArchiveSteps))

\* ProposalService.approve, which looks at the status only when it resolves.
ServiceCreate(p) ==
  IF Known(proposal[p].name) THEN Settle(p, "conflict")
  ELSE Operate(NewJob(proposal[p].name, proposal[p].content, "agent", p),
               Approves(CreateSteps))

ServicePatch(p) ==
  LET n == proposal[p].name IN
    CASE Stale(p) -> Settle(p, "conflict")
      [] ~Stale(p) /\ skill[n].owner = "user" -> Settle(p, "rejected")
      [] OTHER -> Room(n) /\ Operate(Job(n, proposal[p].content, p),
                                     Approves(PatchSteps))

ServiceArchive(p) ==
  LET n == proposal[p].name IN
    /\ Room(n)
    /\ Operate(Job(n, NoContent, p), Approves(LoggedArchiveSteps))

ApproveService(p) ==
  /\ proposal[p] # NoProposal
  /\ \/ proposal[p].op = "create" /\ ServiceCreate(p)
     \/ proposal[p].op = "patch" /\ ServicePatch(p)
     \/ proposal[p].op = "archive" /\ ServiceArchive(p)

Decide ==
  /\ \E p \in Proposals : Reject(p) \/ ApproveRoute(p) \/ ApproveService(p)

(***************************************************************************)
(* The user's own operations.                                              *)
(***************************************************************************)
Create(n, c) == Operate(NewJob(n, c, "user", 0), CreateSteps)
Patch(n, c) == Known(n) /\ Room(n) /\ Operate(Job(n, c, 0), PatchSteps)

Rollback(n) ==
  \E r \in 0..MaxRevision :
    /\ Known(n) /\ Room(n) /\ history[n][r] # NoContent
    /\ Operate(Job(n, history[n][r], 0), RollbackSteps)

Update(n, row) ==
  /\ Known(n) /\ skill' = [skill EXCEPT ![n] = row]
  /\ UNCHANGED <<file, meta, history, logged, proposal, crashes, applied, torn>>

Archive(n) == Update(n, [skill[n] EXCEPT !.state = "archived"])
Restore(n) == Update(n, [skill[n] EXCEPT !.state = "active"])
Pin(n) == Update(n, [skill[n] EXCEPT !.pinned = TRUE])
Unpin(n) == Update(n, [skill[n] EXCEPT !.pinned = FALSE])

Direct ==
  /\ \E n \in Names :
       \/ \E c \in Contents : Create(n, c) \/ Patch(n, c)
       \/ Rollback(n) \/ Archive(n) \/ Restore(n) \/ Pin(n) \/ Unpin(n)

\* SkillService.discover registers every skill directory that has no row: one
\* the user or the installer put there, or one a crash left half made.
Discovered(n) == [NoSkill EXCEPT !.state = "active",
               !.owner = IF meta[n] \in Owners THEN meta[n] ELSE "user"]

Discover ==
  /\ \E n \in Names : file[n] # NoContent /\ ~Known(n)
  /\ skill' = [n \in Names |-> IF file[n] # NoContent /\ ~Known(n)
                              THEN Discovered(n) ELSE skill[n]]
  /\ UNCHANGED <<file, meta, history, logged, proposal, crashes, applied, torn>>

PutOnDisk ==
  /\ \E n \in Names, c \in Contents, o \in Protected :
       /\ ~Known(n) /\ file[n] = NoContent
       /\ file' = [file EXCEPT ![n] = c] /\ meta' = [meta EXCEPT ![n] = o]
  /\ UNCHANGED <<skill, history, logged, proposal, crashes, applied, torn>>

(***************************************************************************)
(* The curator.  What telemetry says of a skill is one of seven things:    *)
(* enough executions to judge, and a score under both thresholds, between  *)
(* them or above; or too few, and a last use that is missing, recent,      *)
(* older than stale_after_days or older than archive_after_days.           *)
(***************************************************************************)
Judged == {"poor", "weak", "good"}
Evidence == Judged \cup {"never used", "recent", "old", "ancient"}

Verdict(state, e) ==
  CASE state = "active" /\ e \in {"poor", "weak", "old", "ancient"} -> "stale"
    [] state = "stale" /\ e = "good" -> "active"
    [] state = "stale" /\ e \in {"poor", "ancient"} -> "archived"
    [] OTHER -> state

KindOf == [stale |-> "curator stale", archived |-> "curator archive",
           active |-> "curator restore"]

\* A slip: the policy is not asked whether the change may be applied.
CuratedUnasked(row, e) ==
  LET next == Verdict(row.state, e) IN
    IF row # NoSkill /\ ~row.pinned THEN [row EXCEPT !.state = next] ELSE row

Curated(row, e) ==
  LET next == Verdict(row.state, e) IN
    IF /\ row # NoSkill /\ row.owner \notin Protected /\ ~row.pinned
       /\ next # row.state
       /\ Evaluate(KindOf[next], row.owner, row.pinned, TRUE) = "allow"
    THEN [row EXCEPT !.state = next] ELSE row

CuratorRun ==
  /\ \E e \in [Names -> Evidence] :
       skill' = [n \in Names |-> Curated(skill[n], e[n])]
  /\ UNCHANGED <<file, meta, history, logged, proposal, crashes, applied, torn>>

RestoreOnReuse ==
  /\ \E n \in Names :
       /\ skill[n].state = "archived"
       /\ Evaluate("curator restore", skill[n].owner, skill[n].pinned, TRUE)
            = "allow"
       /\ Update(n, [skill[n] EXCEPT !.state = "active"])

Next == \/ Review \/ Manage \/ Learn \/ Decide \/ Direct
        \/ Discover \/ PutOnDisk \/ CuratorRun \/ RestoreOnReuse

Spec == Init /\ [][Next]_vars

(***************************************************************************)
(* Properties.                                                             *)
(***************************************************************************)
\* The snapshots that stand behind a skill as it is: those of its revisions so
\* far, none for one that was only discovered.
Snapshots(n) == {r \in 0..skill[n].revision : history[n][r] # NoContent}

\* Between operations SKILL.md says what the newest snapshot of the skill says,
\* so that a rollback can always come back to it.  Only an operation that was
\* cut short, by a crash or by the refusal of a name that is taken, leaves them
\* apart, and the next change of that skill that runs to its end mends it.
FileIsRecorded ==
  \A n \in Names :
    Known(n) /\ n \notin torn /\ Snapshots(n) # {}
      => file[n] = history[n][Max(Snapshots(n))]

\* The recorded content of a revision, the current one included, is never lost
\* or rewritten, whatever is approved, rolled back or interrupted afterwards.
\* The one exception is the current revision of a skill whose SKILL.md an
\* operation cut short has replaced: the next patch records that file as the
\* revision it leaves behind, over what the revision was.
PastIsKept ==
  [][\A n \in Names : \A r \in 0..skill[n].revision :
       history[n][r] # NoContent /\ ~(n \in torn /\ r = skill[n].revision)
         => history'[n][r] = history[n][r]]_vars

\* Two patches written against the same revision of a skill are never both
\* approved: the later approval meets the stale-patch check and is a conflict.
OneApprovalPerBase ==
  \A p, q \in Proposals :
    /\ p # q /\ proposal[p].op = "patch" /\ proposal[q].op = "patch"
    /\ proposal[p].name = proposal[q].name
    /\ proposal[p].base = proposal[q].base
    => ~(proposal[p].status = "approved" /\ proposal[q].status = "approved")

\* A proposal to create or patch raises its skill's revision at most once, also
\* when a crash hides that it was applied and it is approved again.
AppliedOnce ==
  \A p \in Proposals : proposal[p].op \in {"create", "patch"} => applied[p] <= 1

\* What the reviewer and the curator do by themselves leaves the skills of the
\* user and of the installer alone, and the curator leaves pinned ones alone:
\* "User-owned skills: DENY all autonomous mutations" (trust.py:198).
AutonomyKeepsOut ==
  [][\A n \in Names :
       /\ skill[n].owner \in Protected /\ <<file[n], skill[n]>>' # <<file[n], skill[n]>>
          => ~Review
       /\ (skill[n].owner \in Protected \/ skill[n].pinned) /\ skill'[n] # skill[n]
          => ~CuratorRun]_vars

\* Every revision a skill has had since it was made has its row in the log,
\* unless a crash came between the two writes.
NothingUnlogged ==
  crashes = 0 => \A n \in Names : logged[n] = 1..skill[n].revision
=============================================================================
