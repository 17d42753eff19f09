----------------------------- MODULE SkillsProof -----------------------------
(***************************************************************************)
(* Proofs about Skills, for every set of names and texts, every setting of *)
(* the trust policy, every number of proposals, revisions and crashes.     *)
(*                                                                         *)
(* An operation makes a prefix of its writes.  What the proofs need of the *)
(* order of the writes is Orderly: it is shown once for each of the        *)
(* sequences of writes, and everything else only uses it.                  *)
(***************************************************************************)
EXTENDS Skills, FiniteSetTheorems, SequenceTheorems, TLAPS

SkillRows == [owner : Owners, state : States, revision : 0..MaxRevision, pinned : BOOLEAN]
ProposalRows == [op : {"create", "patch", "archive"}, name : Names,
                 content : Contents \cup {NoContent}, base : 0..MaxRevision,
                 status : ProposalStates]

(* There are no snapshots without a row, none more than one ahead of the   *)
(* row's revision, and none ahead of it unless an operation was cut short. *)
SnapshotsBehind ==
  \A n \in Names : \A r \in 0..MaxRevision : history[n][r] # NoContent =>
    /\ Known(n) /\ r <= skill[n].revision + 1
    /\ n \notin torn => r <= skill[n].revision

(* What a proposal is about exists, and a patch that was approved has made *)
(* the revision after the one it was written against.                      *)
Fits(q, rows) ==
  /\ q.op \in {"create", "patch"} => q.content \in Contents
  /\ q.op \in {"patch", "archive"} => rows[q.name] # NoSkill
  /\ q.op = "patch" => /\ q.base <= rows[q.name].revision
                       /\ q.status = "approved" => q.base < rows[q.name].revision
ProposalsFit == \A p \in Proposals : proposal[p] # NoProposal => Fits(proposal[p], skill)

(* A proposal that was applied cannot be applied again: the skill it       *)
(* creates exists, the revision it patches is past.                        *)
AppliedForGood ==
  \A p \in Proposals : applied[p] > 0 =>
    /\ proposal[p] # NoProposal
    /\ proposal[p].op \in {"create", "patch"} => applied[p] = 1
    /\ proposal[p].op = "create" => skill[proposal[p].name] # NoSkill
    /\ proposal[p].op = "patch" => proposal[p].base < skill[proposal[p].name].revision

IInv == /\ TypeOK /\ SnapshotsBehind /\ FileIsRecorded /\ ProposalsFit /\ OneApprovalPerBase
        /\ AppliedForGood /\ NothingUnlogged

-----------------------------------------------------------------------------
(* The order of the writes.                                                *)

Orderly(j, done, left) ==
  /\ j.name \in Names /\ j.owner \in Owners /\ j.revision \in Nat \ {0}
  /\ "register" \in done => ~Known(j.name) /\ j.revision = 1 /\ "file" \in done
  /\ done \cap {"old", "snapshot", "revise", "log", "archive"} # {} =>
       "register" \in done \/ (Known(j.name) /\ j.revision = skill[j.name].revision + 1)
  /\ done \cap {"snapshot", "revise", "log"} # {} => j.revision \in 1..MaxRevision
  /\ "file" \in done => /\ j.content \in Contents
                        /\ {"snapshot", "revise"} \subseteq done \cup left
  /\ "snapshot" \in done => "file" \in done
  /\ "old" \in done => /\ "register" \notin done
                       /\ "revise" \in done => "file" \in done
  /\ \A p \in Proposals :
       p = j.proposal /\ "resolve" \in done /\ proposal[p].op = "patch" =>
         /\ "revise" \in done /\ proposal[p].name = j.name
         /\ proposal[p].base = skill[j.name].revision
  /\ \A p \in Proposals : p = j.proposal /\ "revise" \in done =>
       /\ proposal[p] # NoProposal /\ proposal[p].name = j.name
       /\ proposal[p].op = "create" => "register" \in done
       /\ proposal[p].op = "patch" => proposal[p].base = skill[j.name].revision

(* The writes before and after a cut. *)
Cut(s, k, done, left) ==
  /\ k \in 0..Len(s)
  /\ \A x : x \in done <=> \E i \in 1..k : x = s[i]
  /\ \A x : x \in left <=> \E i \in k + 1 .. Len(s) : x = s[i]

LEMMA PrefixOf ==
    ASSUME NEW S, NEW s \in Seq(S), NEW k \in 0..Len(s)
    PROVE  Cut(s, k, Range(SubSeq(s, 1, k)), Range(SubSeq(s, k + 1, Len(s))))
<1>1. Len(s) \in Nat /\ k \in Int /\ \A i \in 1..Len(s) : s[i] \in S
  BY LenProperties, ElementOfSeq
<1>2. /\ SubSeq(s, 1, k) \in Seq(S) /\ Len(SubSeq(s, 1, k)) = k
      /\ \A i \in 1..k : SubSeq(s, 1, k)[i] = s[i]
  <2>1. \A i \in 1..k : s[i] \in S
    BY <1>1
  <2>2. /\ SubSeq(s, 1, k) \in Seq(S) /\ Len(SubSeq(s, 1, k)) = IF 1 <= k THEN k - 1 + 1 ELSE 0
        /\ \A i \in 1 .. k - 1 + 1 : SubSeq(s, 1, k)[i] = s[1 + i - 1]
    BY <1>1, <2>1, SubSeqProperties
  <2>. QED
    BY <1>1, <2>2
<1>3. /\ SubSeq(s, k + 1, Len(s)) \in Seq(S) /\ Len(SubSeq(s, k + 1, Len(s))) = Len(s) - k
      /\ \A i \in 1 .. Len(s) - k : SubSeq(s, k + 1, Len(s))[i] = s[k + i]
  <2>1. \A i \in k + 1 .. Len(s) : s[i] \in S
    BY <1>1
  <2>2. k + 1 \in Int /\ Len(s) \in Int
    BY <1>1
  <2>3. /\ SubSeq(s, k + 1, Len(s)) \in Seq(S)
        /\ Len(SubSeq(s, k + 1, Len(s))) = IF k + 1 <= Len(s) THEN Len(s) - (k + 1) + 1 ELSE 0
        /\ \A i \in 1 .. Len(s) - (k + 1) + 1 : SubSeq(s, k + 1, Len(s))[i] = s[k + 1 + i - 1]
    BY <2>1, <2>2, SubSeqProperties
  <2>. QED
    BY <1>1, <2>3
<1>4. \A x : x \in Range(SubSeq(s, 1, k)) <=> \E i \in 1..k : x = s[i]
  <2>1. DOMAIN SubSeq(s, 1, k) = 1..k
    BY <1>2, LenProperties
  <2>. QED
    BY <1>2, <2>1 DEF Range
<1>5. ASSUME NEW x
      PROVE  x \in Range(SubSeq(s, k + 1, Len(s))) <=> \E i \in k + 1 .. Len(s) : x = s[i]
  <2>1. PICK t : t = SubSeq(s, k + 1, Len(s))
    OBVIOUS
  <2>2. DOMAIN t = 1 .. Len(s) - k /\ \A i \in 1 .. Len(s) - k : t[i] = s[k + i]
    BY <1>3, <2>1, LenProperties
  <2>3. ASSUME NEW i \in k + 1 .. Len(s) PROVE i - k \in DOMAIN t /\ t[i - k] = s[i]
    BY <1>1, <2>2
  <2>4. ASSUME NEW i \in DOMAIN t PROVE k + i \in k + 1 .. Len(s) /\ t[i] = s[k + i]
    BY <1>1, <2>2
  <2>5. x \in Range(t) <=> \E i \in DOMAIN t : x = t[i]
    BY DEF Range
  <2>6. ASSUME NEW i \in DOMAIN t, x = t[i] PROVE \E h \in k + 1 .. Len(s) : x = s[h]
    BY <2>4, <2>6
  <2>7. ASSUME NEW i \in k + 1 .. Len(s), x = s[i] PROVE \E h \in DOMAIN t : x = t[h]
    BY <2>3, <2>7
  <2>. QED
    BY <2>1, <2>5, <2>6, <2>7
<1>. QED
  BY <1>4, <1>5 DEF Cut

Kinds == {"old", "file", "meta", "register", "snapshot", "revise", "log", "archive"}

LEMMA Resolved ==
    ASSUME NEW s \in Seq(Kinds \cup {"resolve"})
    PROVE  /\ Approves(s) \in Seq(Kinds \cup {"resolve"})
           /\ Len(Approves(s)) = Len(s) + 1 /\ Len(s) \in Nat
           /\ \A i \in 1..Len(s) : Approves(s)[i] = s[i]
BY AppendProperties, LenProperties DEF Approves

(* Resolving the proposal comes after everything else. *)
LEMMA ApprovedCut ==
    ASSUME NEW steps \in Seq(Kinds), NEW s, s = steps \/ s = Approves(steps),
           NEW k, NEW done, NEW left, Cut(s, k, done, left)
    PROVE  \E h : /\ Cut(steps, h, done \ {"resolve"}, left \ {"resolve"}) /\ h <= k
                  /\ "resolve" \in done \/ k = Len(s) => h = Len(steps)
<1>1. Len(steps) \in Nat /\ \A i \in 1..Len(steps) : steps[i] # "resolve"
  BY LenProperties, ElementOfSeq DEF Kinds
<1>2. CASE s = steps
  <2>1. "resolve" \notin done /\ "resolve" \notin left
    BY <1>1, <1>2 DEF Cut
  <2>2. done \ {"resolve"} = done /\ left \ {"resolve"} = left
    BY <2>1
  <2>3. k <= k
    BY <1>1, <1>2 DEF Cut
  <2>. QED
    BY <1>2, <2>1, <2>2, <2>3
<1>3. CASE s = Approves(steps)
  <2>. DEFINE m == Len(steps)
  <2>1. /\ Len(s) = m + 1 /\ s[m + 1] = "resolve"
        /\ \A i \in 1..m : s[i] = steps[i]
    <3>1. steps \in Seq(Kinds \cup {"resolve"})
      BY SMT
    <3>. QED
      BY <1>3, <3>1, AppendProperties DEF Approves
  <2>. HIDE DEF m
  <2>2. m \in Nat /\ m = Len(steps)
    BY <1>1 DEF m
  <2>3. k \in 0 .. m + 1
    BY <2>1 DEF Cut
  <2>4. CASE k = m + 1
    <3>1. ASSUME NEW x, x \in done \ {"resolve"} PROVE \E i \in 1..m : x = steps[i]
      BY <1>3, <2>1, <2>2, <2>4, <3>1 DEF Cut
    <3>2. ASSUME NEW i \in 1..m PROVE steps[i] \in done \ {"resolve"}
      BY <1>1, <1>3, <2>1, <2>2, <2>4 DEF Cut
    <3>3. left = {}
      BY <1>3, <2>1, <2>2, <2>4 DEF Cut
    <3>4. Cut(steps, m, done \ {"resolve"}, left \ {"resolve"})
      BY <2>2, <3>1, <3>2, <3>3 DEF Cut
    <3>5. m <= k
      BY <2>2, <2>4
    <3>. QED
      BY <2>2, <3>4, <3>5
  <2>5. CASE k \in 0..m
    <3>1. "resolve" \notin done
      BY <1>1, <1>3, <2>1, <2>2, <2>5 DEF Cut
    <3>2. \A x : x \in done <=> \E i \in 1..k : x = steps[i]
      BY <1>3, <2>1, <2>2, <2>5 DEF Cut
    <3>3. ASSUME NEW x, x \in left \ {"resolve"} PROVE \E i \in k + 1 .. m : x = steps[i]
      BY <1>3, <2>1, <2>2, <2>5, <3>3 DEF Cut
    <3>4. ASSUME NEW i \in k + 1 .. m PROVE steps[i] \in left \ {"resolve"}
      <4>1. i \in 1..m /\ i \in k + 1 .. m + 1
        BY <2>2, <2>5
      <4>. QED
        BY <1>1, <1>3, <2>1, <2>2, <4>1 DEF Cut
    <3>5. Cut(steps, k, done \ {"resolve"}, left \ {"resolve"})
      BY <2>2, <2>5, <3>1, <3>2, <3>3, <3>4 DEF Cut
    <3>6. k <= k
      BY <2>2, <2>5
    <3>7. k # Len(s)
      BY <2>1, <2>2, <2>5
    <3>. QED
      BY <2>2, <3>1, <3>5, <3>6, <3>7
  <2>6. k \in 0..m \/ k = m + 1
    BY <2>2, <2>3
  <2>. QED
    BY <2>4, <2>5, <2>6
<1>. QED
  BY <1>2, <1>3

LEMMA PatchOrder ==
    ASSUME NEW k, NEW done, NEW left, Cut(PatchSteps, k, done, left)
    PROVE  /\ done \subseteq {"old", "file", "snapshot", "revise", "log"}
           /\ "snapshot" \in done => "file" \in done
           /\ "revise" \in done => "snapshot" \in done
           /\ k = Len(PatchSteps) => "revise" \in done /\ "log" \in done
           /\ {"snapshot", "revise"} \subseteq done \cup left
<1>1. PICK s : s = PatchSteps
  OBVIOUS
<1>2. /\ Len(s) = 5
      /\ s[1] = "old" /\ s[2] = "file" /\ s[3] = "snapshot" /\ s[4] = "revise" /\ s[5] = "log"
  BY <1>1 DEF PatchSteps
<1>3. /\ k \in 0..5
      /\ \A x : x \in done <=> \E i \in 1..k : x = s[i]
      /\ \A x : x \in left <=> \E i \in k + 1 .. 5 : x = s[i]
  BY <1>1, <1>2 DEF Cut
<1>4. /\ k >= 2 => "file" \in done
      /\ k >= 3 => "snapshot" \in done
      /\ k >= 4 => "revise" \in done
      /\ k >= 5 => "log" \in done
      /\ k < 3 => "snapshot" \in left
      /\ k < 4 => "revise" \in left
  BY <1>2, <1>3
<1>5. /\ "snapshot" \in done => k >= 3
      /\ "revise" \in done => k >= 4
      /\ done \subseteq {"old", "file", "snapshot", "revise", "log"}
  BY <1>2, <1>3
<1>. QED
  BY <1>1, <1>2, <1>3, <1>4, <1>5

LEMMA RollbackOrder ==
    ASSUME NEW k, NEW done, NEW left, Cut(RollbackSteps, k, done, left)
    PROVE  /\ done \subseteq {"file", "snapshot", "revise", "log"}
           /\ "snapshot" \in done => "file" \in done
           /\ k = Len(RollbackSteps) => "revise" \in done /\ "log" \in done
           /\ {"snapshot", "revise"} \subseteq done \cup left
<1>1. PICK s : s = RollbackSteps
  OBVIOUS
<1>2. /\ Len(s) = 4
      /\ s[1] = "file" /\ s[2] = "snapshot" /\ s[3] = "revise" /\ s[4] = "log"
  BY <1>1 DEF RollbackSteps
<1>3. /\ k \in 0..4
      /\ \A x : x \in done <=> \E i \in 1..k : x = s[i]
      /\ \A x : x \in left <=> \E i \in k + 1 .. 4 : x = s[i]
  BY <1>1, <1>2 DEF Cut
<1>4. /\ k >= 1 => "file" \in done
      /\ k >= 2 => "snapshot" \in done
      /\ k >= 3 => "revise" \in done
      /\ k >= 4 => "log" \in done
      /\ k < 2 => "snapshot" \in left
      /\ k < 3 => "revise" \in left
  BY <1>2, <1>3
<1>5. /\ "snapshot" \in done => k >= 2
      /\ done \subseteq {"file", "snapshot", "revise", "log"}
  BY <1>2, <1>3
<1>. QED
  BY <1>1, <1>2, <1>3, <1>4, <1>5

LEMMA CreateOrder ==
    ASSUME NEW k, NEW done, NEW left, Cut(CreateSteps, k, done, left)
    PROVE  /\ done \subseteq {"file", "meta", "register", "revise", "log", "snapshot"}
           /\ done \cap {"register", "revise", "log", "snapshot"} # {} =>
                "register" \in done /\ k >= 3
           /\ done # {} => "file" \in done
           /\ k = Len(CreateSteps) => "revise" \in done /\ "log" \in done
           /\ {"snapshot", "revise"} \subseteq done \cup left
<1>1. PICK s : s = CreateSteps
  OBVIOUS
<1>2. /\ Len(s) = 6
      /\ s[1] = "file" /\ s[2] = "meta" /\ s[3] = "register" /\ s[4] = "revise" /\ s[5] = "log"
      /\ s[6] = "snapshot"
  BY <1>1 DEF CreateSteps
<1>3. /\ k \in 0..6
      /\ \A x : x \in done <=> \E i \in 1..k : x = s[i]
      /\ \A x : x \in left <=> \E i \in k + 1 .. 6 : x = s[i]
  BY <1>1, <1>2 DEF Cut
<1>4. /\ k >= 1 => "file" \in done
      /\ k >= 3 => "register" \in done
      /\ k >= 4 => "revise" \in done
      /\ k >= 5 => "log" \in done
      /\ k >= 6 => "snapshot" \in done
      /\ k < 4 => "revise" \in left
      /\ k < 6 => "snapshot" \in left
  BY <1>2, <1>3
<1>5. /\ "register" \in done => k >= 3
      /\ "revise" \in done => k >= 4
      /\ "log" \in done => k >= 5
      /\ "snapshot" \in done => k >= 6
      /\ done # {} => k >= 1
      /\ done \subseteq {"file", "meta", "register", "revise", "log", "snapshot"}
  BY <1>2, <1>3
<1>. QED
  BY <1>1, <1>2, <1>3, <1>4, <1>5

LEMMA ArchiveOrder ==
    ASSUME NEW k, NEW done, NEW left,
           Cut(ArchiveSteps, k, done, left) \/ Cut(LoggedArchiveSteps, k, done, left)
    PROVE  /\ done \subseteq {"archive", "revise", "log"}
           /\ Cut(LoggedArchiveSteps, k, done, left) /\ k = Len(LoggedArchiveSteps) =>
                "revise" \in done /\ "log" \in done
<1>1. ASSUME Cut(ArchiveSteps, k, done, left) PROVE done \subseteq {"archive"}
  <2>1. Len(ArchiveSteps) = 1 /\ ArchiveSteps[1] = "archive"
    BY DEF ArchiveSteps
  <2>. QED
    BY <1>1, <2>1 DEF Cut
<1>2. ASSUME Cut(LoggedArchiveSteps, k, done, left)
      PROVE  /\ done \subseteq {"archive", "revise", "log"}
             /\ k = Len(LoggedArchiveSteps) => "revise" \in done /\ "log" \in done
  <2>1. PICK s : s = LoggedArchiveSteps
    OBVIOUS
  <2>2. Len(s) = 3 /\ s[1] = "archive" /\ s[2] = "revise" /\ s[3] = "log"
    BY <2>1 DEF LoggedArchiveSteps
  <2>3. k \in 0..3 /\ \A x : x \in done <=> \E i \in 1..k : x = s[i]
    BY <1>2, <2>1, <2>2 DEF Cut
  <2>4. k = 3 => "revise" \in done /\ "log" \in done
    BY <2>2, <2>3
  <2>. QED
    BY <2>1, <2>2, <2>3, <2>4
<1>. QED
  BY <1>1, <1>2

(* A name that is taken stops a creation before its row.                   *)
LEMMA CreateReach ==
    ASSUME NEW j, Known(j.name)
    PROVE  Reach(j, CreateSteps) = 2 /\ Reach(j, Approves(CreateSteps)) = 2
<1>1. ASSUME NEW s, s \in Seq(Kinds \cup {"resolve"}), Len(s) >= 3,
             s[1] # "register", s[2] # "register", s[3] = "register"
      PROVE  Reach(j, s) = 2
  <2>1. Len(s) \in Nat /\ DOMAIN s = 1..Len(s)
    BY <1>1, LenProperties
  <2>2. "register" \in Range(s)
    BY <1>1, <2>1 DEF Range
  <2>. DEFINE I == {i \in 1..Len(s) : s[i] = "register"}
  <2>3. 3 \in I /\ \A i \in I : 3 <= i /\ i \in Int
    BY <1>1, <2>1
  <2>4. Min(I) = 3
    BY <2>3 DEF Min
  <2>5. SelectInSeq(s, LAMBDA x : x = "register") = 3
    BY <2>3, <2>4 DEF SelectInSeq
  <2>. QED
    BY <2>2, <2>5 DEF Reach
<1>2. PICK c : c = CreateSteps
  OBVIOUS
<1>3. /\ c \in Seq(Kinds \cup {"resolve"}) /\ Len(c) = 6
      /\ c[1] = "file" /\ c[2] = "meta" /\ c[3] = "register"
  BY <1>2 DEF CreateSteps, Kinds
<1>4. PICK a : a = Approves(c)
  OBVIOUS
<1>5. /\ a \in Seq(Kinds \cup {"resolve"}) /\ Len(a) = 7
      /\ \A i \in 1..6 : a[i] = c[i]
  <2>1. /\ a \in Seq(Kinds \cup {"resolve"}) /\ Len(a) = Len(c) + 1
        /\ \A i \in 1..Len(c) : a[i] = c[i]
    BY <1>3, <1>4, Resolved
  <2>. QED
    BY <1>3, <2>1
<1>. QED
  BY <1>1, <1>2, <1>3, <1>4, <1>5

(* What an operation does: some of its writes, in their order.             *)
LEMMA Operated ==
    ASSUME TypeOK, NEW j, NEW steps \in Seq(Kinds), NEW s, s = steps \/ s = Approves(steps),
           Reach(j, s) \in 0..Len(s), Operate(j, s)
    PROVE  \E k, done, left :
              /\ Cut(steps, k, done \ {"resolve"}, left \ {"resolve"})
              /\ "resolve" \in done => k = Len(steps)
              /\ k <= Reach(j, s)
              /\ Writes(j, done, left) /\ crashes' \in 0..MaxCrashes
              /\ crashes' = 0 => crashes = 0 /\ (Reach(j, s) = Len(s) => k = Len(steps))
<1>1. s \in Seq(Kinds \cup {"resolve"}) /\ Len(s) \in Nat
  <2>1. steps \in Seq(Kinds \cup {"resolve"})
    BY SMT
  <2>. QED
    BY <2>1, AppendProperties, LenProperties DEF Approves
<1>2. PICK k \in 0..Reach(j, s) :
         /\ crashes' = IF k = Reach(j, s) THEN crashes ELSE crashes + 1
         /\ crashes' <= MaxCrashes
         /\ Writes(j, Range(SubSeq(s, 1, k)), Range(SubSeq(s, k + 1, Len(s))))
  BY DEF Operate
<1>3. PICK done, left : /\ done = Range(SubSeq(s, 1, k)) /\ left = Range(SubSeq(s, k + 1, Len(s)))
                        /\ Writes(j, done, left)
  BY <1>2
<1>4. k \in 0..Len(s) /\ k \in Nat
  BY <1>1, <1>2
<1>5. Cut(s, k, done, left)
  BY <1>1, <1>3, <1>4, PrefixOf
<1>6. PICK h : /\ Cut(steps, h, done \ {"resolve"}, left \ {"resolve"}) /\ h <= k
               /\ "resolve" \in done \/ k = Len(s) => h = Len(steps)
  BY <1>5, ApprovedCut
<1>7. h \in Nat /\ h <= Reach(j, s)
  <2>1. h \in Nat
    BY <1>6, LenProperties DEF Cut
  <2>2. Reach(j, s) \in Nat
    BY <1>1
  <2>. QED
    BY <1>2, <1>4, <1>6, <2>1, <2>2
<1>8. crashes' \in 0..MaxCrashes
  <2>1. crashes \in Nat
    BY SkillsAssumption DEF TypeOK
  <2>. QED
    BY <1>2, <2>1, SkillsAssumption
<1>9. crashes' = 0 => crashes = 0 /\ k = Reach(j, s)
  <2>1. crashes \in Nat
    BY SkillsAssumption DEF TypeOK
  <2>. QED
    BY <1>2, <2>1
<1>. QED
  BY <1>3, <1>6, <1>7, <1>8, <1>9

LEMMA PlainReach ==
    ASSUME NEW j, NEW steps \in Seq(Kinds \ {"register"}), NEW s, s = steps \/ s = Approves(steps)
    PROVE  Reach(j, s) = Len(s) /\ Reach(j, s) \in 0..Len(s)
<1>1. s \in Seq((Kinds \ {"register"}) \cup {"resolve"})
  <2>1. steps \in Seq((Kinds \ {"register"}) \cup {"resolve"})
    BY SMT
  <2>. QED
    BY <2>1, AppendProperties DEF Approves
<1>2. "register" \notin Range(s)
  BY <1>1, LenProperties, ElementOfSeq DEF Range, Kinds
<1>3. Len(s) \in Nat
  BY <1>1, LenProperties
<1>. QED
  BY <1>2, <1>3 DEF Reach

(* Without a row to be made nothing but a crash ends it before its end. *)
LEMMA PlainOperated ==
    ASSUME TypeOK, NEW j, NEW steps \in Seq(Kinds \ {"register"}),
           Operate(j, steps) \/ Operate(j, Approves(steps))
    PROVE  \E k, done, left :
              /\ Cut(steps, k, done \ {"resolve"}, left \ {"resolve"})
              /\ "resolve" \in done => k = Len(steps)
              /\ Writes(j, done, left) /\ crashes' \in 0..MaxCrashes
              /\ crashes' = 0 => crashes = 0 /\ k = Len(steps)
<1>1. PICK s : (s = steps \/ s = Approves(steps)) /\ Operate(j, s)
  OBVIOUS
<1>2. Reach(j, s) = Len(s) /\ Reach(j, s) \in 0..Len(s)
  BY <1>1, PlainReach
<1>3. steps \in Seq(Kinds)
  BY SMT
<1>4. PICK k, done, left :
         /\ Cut(steps, k, done \ {"resolve"}, left \ {"resolve"})
         /\ "resolve" \in done => k = Len(steps)
         /\ Writes(j, done, left) /\ crashes' \in 0..MaxCrashes
         /\ crashes' = 0 => crashes = 0 /\ (Reach(j, s) = Len(s) => k = Len(steps))
  BY <1>1, <1>2, <1>3, Operated
<1>. QED
  BY <1>2, <1>4

(* A job on a skill that exists, and on a new one. *)
Aims(j) ==
  /\ j.name \in Names /\ j.owner \in Owners /\ j.revision \in Nat \ {0}
  /\ \A p \in Proposals : p = j.proposal =>
        /\ proposal[p] # NoProposal /\ proposal[p].name = j.name
        /\ proposal[p].op = "patch" => proposal[p].base = skill[j.name].revision
OnKnown(j) ==
  /\ Aims(j) /\ Known(j.name) /\ j.revision = skill[j.name].revision + 1
  /\ \A p \in Proposals : p = j.proposal => proposal[p].op # "create"
NoPatch(j) == \A p \in Proposals : p = j.proposal => proposal[p].op # "patch"

Effect(j) ==
  \E done, left : /\ Orderly(j, done, left) /\ Writes(j, done, left)
                  /\ crashes' \in 0..MaxCrashes
                  /\ crashes' = 0 => crashes = 0 /\ ("revise" \in done <=> "log" \in done)

LEMMA PatchEffect ==
    ASSUME TypeOK, NEW j, OnKnown(j), j.revision \in 1..MaxRevision, j.content \in Contents,
           Operate(j, PatchSteps) \/ Operate(j, Approves(PatchSteps))
    PROVE  Effect(j)
<1>1. PatchSteps \in Seq(Kinds \ {"register"})
  BY DEF PatchSteps, Kinds
<1>2. PICK k, done, left :
         /\ Cut(PatchSteps, k, done \ {"resolve"}, left \ {"resolve"})
         /\ "resolve" \in done => k = Len(PatchSteps)
         /\ Writes(j, done, left) /\ crashes' \in 0..MaxCrashes
         /\ crashes' = 0 => crashes = 0 /\ k = Len(PatchSteps)
  BY <1>1, PlainOperated
<1>3. /\ done \subseteq {"old", "file", "snapshot", "revise", "log", "resolve"}
      /\ "snapshot" \in done => "file" \in done
      /\ "revise" \in done => "snapshot" \in done
      /\ "resolve" \in done => "revise" \in done
      /\ k = Len(PatchSteps) => "revise" \in done /\ "log" \in done
      /\ {"snapshot", "revise"} \subseteq done \cup left
  <2>1. PICK d, e : d = done \ {"resolve"} /\ e = left \ {"resolve"}
    OBVIOUS
  <2>2. /\ d \subseteq {"old", "file", "snapshot", "revise", "log"}
        /\ "snapshot" \in d => "file" \in d
        /\ "revise" \in d => "snapshot" \in d
        /\ k = Len(PatchSteps) => "revise" \in d /\ "log" \in d
        /\ {"snapshot", "revise"} \subseteq d \cup e
    <3>1. Cut(PatchSteps, k, d, e)
      BY <1>2, <2>1
    <3>. QED
      BY <3>1, PatchOrder
  <2>. QED
    BY <1>2, <2>1, <2>2
<1>4. Orderly(j, done, left)
  BY <1>3 DEF Orderly, OnKnown, Aims
<1>. QED
  BY <1>2, <1>3, <1>4 DEF Effect

LEMMA RollbackEffect ==
    ASSUME TypeOK, NEW j, OnKnown(j), NoPatch(j), j.revision \in 1..MaxRevision, j.content \in Contents,
           Operate(j, RollbackSteps)
    PROVE  Effect(j)
<1>1. RollbackSteps \in Seq(Kinds \ {"register"})
  BY DEF RollbackSteps, Kinds
<1>2. PICK k, done, left :
         /\ Cut(RollbackSteps, k, done \ {"resolve"}, left \ {"resolve"})
         /\ Writes(j, done, left) /\ crashes' \in 0..MaxCrashes
         /\ crashes' = 0 => crashes = 0 /\ k = Len(RollbackSteps)
  BY <1>1, PlainOperated
<1>3. /\ done \subseteq {"file", "snapshot", "revise", "log", "resolve"}
      /\ "snapshot" \in done => "file" \in done
      /\ k = Len(RollbackSteps) => "revise" \in done /\ "log" \in done
      /\ {"snapshot", "revise"} \subseteq done \cup left
  <2>1. PICK d, e : d = done \ {"resolve"} /\ e = left \ {"resolve"}
    OBVIOUS
  <2>2. /\ d \subseteq {"file", "snapshot", "revise", "log"}
        /\ "snapshot" \in d => "file" \in d
        /\ k = Len(RollbackSteps) => "revise" \in d /\ "log" \in d
        /\ {"snapshot", "revise"} \subseteq d \cup e
    <3>1. Cut(RollbackSteps, k, d, e)
      BY <1>2, <2>1
    <3>. QED
      BY <3>1, RollbackOrder
  <2>. QED
    BY <2>1, <2>2
<1>4. Orderly(j, done, left)
  BY <1>3 DEF Orderly, OnKnown, Aims, NoPatch
<1>. QED
  BY <1>2, <1>3, <1>4 DEF Effect

LEMMA ArchiveEffect ==
    ASSUME TypeOK, NEW j, OnKnown(j), NoPatch(j),
           \/ Operate(j, Approves(ArchiveSteps))
           \/ j.revision \in 1..MaxRevision /\ Operate(j, Approves(LoggedArchiveSteps))
    PROVE  Effect(j)
<1>1. CASE Operate(j, Approves(ArchiveSteps))
  <2>1. ArchiveSteps \in Seq(Kinds \ {"register"})
    BY DEF ArchiveSteps, Kinds
  <2>2. PICK k, done, left :
           /\ Cut(ArchiveSteps, k, done \ {"resolve"}, left \ {"resolve"})
           /\ Writes(j, done, left) /\ crashes' \in 0..MaxCrashes
           /\ crashes' = 0 => crashes = 0
    BY <1>1, <2>1, PlainOperated
  <2>3. done \subseteq {"archive", "resolve"}
    BY <2>2 DEF Cut, ArchiveSteps
  <2>4. Orderly(j, done, left)
    BY <2>3 DEF Orderly, OnKnown, Aims, NoPatch
  <2>. QED
    BY <2>2, <2>3, <2>4 DEF Effect
<1>2. CASE j.revision \in 1..MaxRevision /\ Operate(j, Approves(LoggedArchiveSteps))
  <2>1. LoggedArchiveSteps \in Seq(Kinds \ {"register"})
    BY DEF LoggedArchiveSteps, Kinds
  <2>2. PICK k, done, left :
           /\ Cut(LoggedArchiveSteps, k, done \ {"resolve"}, left \ {"resolve"})
           /\ Writes(j, done, left) /\ crashes' \in 0..MaxCrashes
           /\ crashes' = 0 => crashes = 0 /\ k = Len(LoggedArchiveSteps)
    BY <1>2, <2>1, PlainOperated
  <2>3. /\ done \subseteq {"archive", "revise", "log", "resolve"}
        /\ k = Len(LoggedArchiveSteps) => "revise" \in done /\ "log" \in done
    <3>1. PICK d, e : d = done \ {"resolve"} /\ e = left \ {"resolve"}
      OBVIOUS
    <3>2. Cut(LoggedArchiveSteps, k, d, e)
      BY <2>2, <3>1
    <3>3. /\ d \subseteq {"archive", "revise", "log"}
          /\ k = Len(LoggedArchiveSteps) => "revise" \in d /\ "log" \in d
      BY <3>2, ArchiveOrder
    <3>. QED
      BY <3>1, <3>3
  <2>4. Orderly(j, done, left)
    BY <1>2, <2>3 DEF Orderly, OnKnown, Aims, NoPatch
  <2>. QED
    BY <2>2, <2>3, <2>4 DEF Effect
<1>. QED
  BY <1>1, <1>2

LEMMA CreateEffect ==
    ASSUME TypeOK, NEW j, Aims(j), NoPatch(j), j.revision = 1, j.content \in Contents,
           Operate(j, CreateSteps) \/ Operate(j, Approves(CreateSteps))
    PROVE  Effect(j)
<1>1. PICK s : (s = CreateSteps \/ s = Approves(CreateSteps)) /\ Operate(j, s)
  OBVIOUS
<1>2. CreateSteps \in Seq(Kinds) /\ Len(CreateSteps) = 6
  BY DEF CreateSteps, Kinds
<1>3. /\ Reach(j, s) \in 0..Len(s)
      /\ IF Known(j.name) THEN Reach(j, s) = 2 ELSE Reach(j, s) = Len(s)
  <2>1. Len(s) \in Nat /\ Len(s) >= 6
    <3>1. CreateSteps \in Seq(Kinds \cup {"resolve"})
      BY <1>2
    <3>. QED
      BY <1>1, <1>2, <3>1, Resolved
  <2>2. CASE Known(j.name)
    BY <1>1, <2>1, <2>2, CreateReach
  <2>3. CASE ~Known(j.name)
    BY <2>1, <2>3 DEF Reach
  <2>. QED
    BY <2>2, <2>3
<1>4. PICK k, done, left :
         /\ Cut(CreateSteps, k, done \ {"resolve"}, left \ {"resolve"}) /\ k <= Reach(j, s)
         /\ "resolve" \in done => k = Len(CreateSteps)
         /\ Writes(j, done, left) /\ crashes' \in 0..MaxCrashes
         /\ crashes' = 0 => crashes = 0 /\ (Known(j.name) \/ k = Len(CreateSteps))
  BY <1>1, <1>2, <1>3, Operated
<1>5. /\ done \subseteq {"file", "meta", "register", "revise", "log", "snapshot", "resolve"}
      /\ done \cap {"register", "revise", "log", "snapshot"} # {} => "register" \in done /\ k >= 3
      /\ done \ {"resolve"} # {} => "file" \in done
      /\ k = Len(CreateSteps) => "revise" \in done /\ "log" \in done
      /\ {"snapshot", "revise"} \subseteq done \cup left
  <2>1. PICK d, e : d = done \ {"resolve"} /\ e = left \ {"resolve"}
    OBVIOUS
  <2>2. /\ d \subseteq {"file", "meta", "register", "revise", "log", "snapshot"}
        /\ d \cap {"register", "revise", "log", "snapshot"} # {} => "register" \in d /\ k >= 3
        /\ d # {} => "file" \in d
        /\ k = Len(CreateSteps) => "revise" \in d /\ "log" \in d
        /\ {"snapshot", "revise"} \subseteq d \cup e
    <3>1. Cut(CreateSteps, k, d, e)
      BY <1>4, <2>1
    <3>. QED
      BY <3>1, CreateOrder
  <2>. QED
    BY <2>1, <2>2
<1>6. k \in Nat
  BY <1>2, <1>4 DEF Cut
<1>7. "register" \in done => ~Known(j.name)
  BY <1>3, <1>4, <1>5, <1>6
<1>8. Orderly(j, done, left)
  BY <1>5, <1>7, SkillsAssumption DEF Orderly, Aims, NoPatch
<1>9. crashes' = 0 => ("revise" \in done <=> "log" \in done)
  BY <1>4, <1>5, <1>7
<1>. QED
  BY <1>4, <1>8, <1>9 DEF Effect

-----------------------------------------------------------------------------
(* What the writes leave.                                                  *)

LEMMA RowFacts ==
    ASSUME TypeOK, NEW j, NEW done, NEW left, Orderly(j, done, left)
    PROVE  /\ Row(j, done) \in {NoSkill} \cup SkillRows
           /\ Row(j, done).revision = IF "revise" \in done THEN j.revision ELSE skill[j.name].revision
           /\ skill[j.name].revision \in 0..MaxRevision /\ Row(j, done).revision \in 0..MaxRevision
           /\ skill[j.name].revision <= Row(j, done).revision
           /\ Row(j, done) # NoSkill <=> Known(j.name) \/ "register" \in done
<1>1. /\ skill[j.name] \in {NoSkill} \cup SkillRows /\ j.owner \in Owners /\ MaxRevision \in Nat \ {0}
      /\ "revise" \in done => j.revision \in 1..MaxRevision
      /\ "revise" \in done \/ "archive" \in done =>
           "register" \in done \/ (Known(j.name) /\ j.revision = skill[j.name].revision + 1)
      /\ "register" \in done => skill[j.name] = NoSkill /\ j.revision = 1
  BY SkillsAssumption DEF TypeOK, SkillRows, Orderly, Known
<1>2. NoSkill \notin SkillRows /\ NoSkill.revision = 0 /\ Owners = {"user", "agent", "bundled"}
  BY DEF NoSkill, SkillRows, Owners
<1>3. PICK old : old = skill[j.name]
  OBVIOUS
<1>4. PICK row : row = Row(j, done)
  OBVIOUS
<1>5. CASE "register" \in done
  <2>1. row = [owner |-> j.owner, state |-> IF "archive" \in done THEN "archived" ELSE "active",
               revision |-> IF "revise" \in done THEN j.revision ELSE 0, pinned |-> FALSE]
    BY <1>4, <1>5 DEF Row, NoSkill
  <2>2. row \in SkillRows
    BY <1>1, <1>2, <1>5, <2>1 DEF SkillRows, States
  <2>3. row.revision = IF "revise" \in done THEN j.revision ELSE 0
    BY <2>1
  <2>. QED
    BY <1>1, <1>2, <1>4, <1>5, <2>2, <2>3
<1>6. CASE "register" \notin done /\ old = NoSkill
  <2>1. "revise" \notin done /\ "archive" \notin done
    BY <1>1, <1>3, <1>6 DEF Known
  <2>2. row = NoSkill
    BY <1>3, <1>4, <1>6, <2>1 DEF Row, NoSkill
  <2>. QED
    BY <1>1, <1>2, <1>3, <1>4, <1>6, <2>1, <2>2 DEF Known
<1>7. CASE "register" \notin done /\ old # NoSkill
  <2>1. old \in SkillRows
    BY <1>1, <1>3, <1>7
  <2>2. row = [old EXCEPT !.revision = IF "revise" \in done THEN j.revision ELSE old.revision,
                          !.state = IF "archive" \in done THEN "archived" ELSE old.state]
    BY <1>3, <1>4, <1>7, <2>1 DEF Row, SkillRows
  <2>3. row \in SkillRows /\ row.revision = IF "revise" \in done THEN j.revision ELSE old.revision
    <3>1. PICK rev, st : /\ rev = IF "revise" \in done THEN j.revision ELSE old.revision
                         /\ st = IF "archive" \in done THEN "archived" ELSE old.state
      OBVIOUS
    <3>2. rev \in 0..MaxRevision /\ st \in States
      BY <1>1, <2>1, <3>1 DEF SkillRows, States
    <3>3. row = [old EXCEPT !.revision = rev, !.state = st]
      BY <2>2, <3>1
    <3>. QED
      BY <2>1, <3>1, <3>2, <3>3 DEF SkillRows
  <2>4. old.revision \in 0..MaxRevision
    BY <2>1 DEF SkillRows
  <2>. QED
    BY <1>1, <1>2, <1>3, <1>4, <1>7, <2>3, <2>4 DEF Known
<1>. QED
  BY <1>3, <1>5, <1>6, <1>7

LEMMA HistoryFacts ==
    ASSUME TypeOK, NEW j, NEW done, NEW left, Orderly(j, done, left), Writes(j, done, left)
    PROVE  /\ history' \in [Names -> [0..MaxRevision -> Contents \cup {NoContent}]]
           /\ \A m \in Names, r \in 0..MaxRevision :
                history'[m][r] =
                  IF m = j.name /\ r = j.revision /\ "snapshot" \in done THEN j.content
                  ELSE IF m = j.name /\ r = j.revision - 1 /\ "old" \in done /\ file[m] # NoContent
                  THEN file[m] ELSE history[m][r]
<1>. DEFINE n == j.name
            v == j.revision
            older == IF "old" \in done /\ file[n] # NoContent THEN file[n] ELSE history[n][v - 1]
            newer == IF "snapshot" \in done THEN j.content ELSE history[n][v]
<1>1. /\ n \in Names /\ v \in Int /\ file[n] \in Contents \cup {NoContent}
      /\ "snapshot" \in done => j.content \in Contents
  BY DEF TypeOK, Orderly
<1>2. history \in [Names -> [0..MaxRevision -> Contents \cup {NoContent}]]
  BY DEF TypeOK
<1>3. PICK row : row = [history[n] EXCEPT ![v - 1] = older, ![v] = newer]
  OBVIOUS
<1>4. /\ row \in [0..MaxRevision -> Contents \cup {NoContent}]
      /\ \A r \in 0..MaxRevision : row[r] = IF r = v THEN newer ELSE IF r = v - 1 THEN older ELSE history[n][r]
  <2>1. \A r \in 0..MaxRevision : row[r] = IF r = v THEN newer ELSE IF r = v - 1 THEN older ELSE history[n][r]
    <3>. HIDE DEF older, newer
    <3>. QED
      BY <1>1, <1>2, <1>3
  <2>2. DOMAIN row = 0..MaxRevision /\ row = [r \in 0..MaxRevision |-> row[r]]
    <3>. HIDE DEF older, newer
    <3>. QED
      BY <1>1, <1>2, <1>3
  <2>3. ASSUME NEW r \in 0..MaxRevision PROVE row[r] \in Contents \cup {NoContent}
    <3>1. history[n][r] \in Contents \cup {NoContent}
      BY <1>1, <1>2
    <3>2. r = v => newer \in Contents \cup {NoContent}
      BY <1>1, <3>1
    <3>3. r = v - 1 => older \in Contents \cup {NoContent}
      BY <1>1, <3>1
    <3>. HIDE DEF older, newer
    <3>. QED
      BY <2>1, <3>1, <3>2, <3>3
  <2>. QED
    BY <2>1, <2>2, <2>3
<1>5. history' = [history EXCEPT ![n] = row]
  BY <1>1, <1>2, <1>3 DEF Writes
<1>. QED
  BY <1>1, <1>2, <1>4, <1>5

LEMMA WriteFacts ==
    ASSUME TypeOK, NEW j, NEW done, NEW left, Orderly(j, done, left), Writes(j, done, left)
    PROVE  /\ skill' \in [Names -> {NoSkill} \cup SkillRows] /\ skill'[j.name] = Row(j, done)
           /\ file' \in [Names -> Contents \cup {NoContent}]
           /\ file'[j.name] = IF "file" \in done THEN j.content ELSE file[j.name]
           /\ \A m \in Names : m # j.name =>
                 skill'[m] = skill[m] /\ file'[m] = file[m] /\ (m \in torn' <=> m \in torn)
           /\ j.name \notin torn' =>
                 /\ "file" \in done => {"snapshot", "revise"} \subseteq done
                 /\ "file" \notin done => j.name \notin torn
           /\ torn' \subseteq Names
<1>1. j.name \in Names /\ ("file" \in done => j.content \in Contents)
  BY DEF Orderly
<1>2. /\ skill \in [Names -> {NoSkill} \cup SkillRows] /\ file \in [Names -> Contents \cup {NoContent}]
      /\ torn \subseteq Names
  BY DEF TypeOK, SkillRows
<1>3. Row(j, done) \in {NoSkill} \cup SkillRows
  BY RowFacts
<1>4. /\ skill' = [skill EXCEPT ![j.name] = Row(j, done)]
      /\ file' = [file EXCEPT ![j.name] = IF "file" \in done THEN j.content ELSE file[j.name]]
      /\ torn' = IF "file" \notin done THEN torn
                 ELSE IF Tears(done, left) THEN torn \cup {j.name} ELSE torn \ {j.name}
  BY DEF Writes
<1>5. /\ skill' \in [Names -> {NoSkill} \cup SkillRows] /\ skill'[j.name] = Row(j, done)
      /\ \A m \in Names : m # j.name => skill'[m] = skill[m]
  BY <1>1, <1>2, <1>3, <1>4
<1>6. /\ file' \in [Names -> Contents \cup {NoContent}]
      /\ file'[j.name] = IF "file" \in done THEN j.content ELSE file[j.name]
      /\ \A m \in Names : m # j.name => file'[m] = file[m]
  BY <1>1, <1>2, <1>4
<1>7. /\ \A m \in Names : m # j.name => (m \in torn' <=> m \in torn)
      /\ torn' \subseteq Names
  BY <1>1, <1>2, <1>4
<1>8. ASSUME j.name \notin torn', "file" \in done PROVE {"snapshot", "revise"} \subseteq done
  <2>1. ~Tears(done, left)
    BY <1>4, <1>8
  <2>. QED
    BY <1>8, <2>1 DEF Tears, Orderly
<1>9. ASSUME j.name \notin torn', "file" \notin done PROVE j.name \notin torn
  BY <1>4, <1>9
<1>. QED
  BY <1>5, <1>6, <1>7, <1>8, <1>9

LEMMA WritesType ==
    ASSUME TypeOK, NEW j, NEW done, NEW left, Orderly(j, done, left), Writes(j, done, left),
           crashes' \in 0..MaxCrashes
    PROVE  TypeOK'
<1>1. /\ skill' \in [Names -> {NoSkill} \cup SkillRows] /\ file' \in [Names -> Contents \cup {NoContent}]
      /\ torn' \subseteq Names
  BY WriteFacts
<1>2. history' \in [Names -> [0..MaxRevision -> Contents \cup {NoContent}]]
  BY HistoryFacts
<1>3. meta' \in [Names -> Owners \cup {"none"}]
  BY DEF TypeOK, Writes, Orderly
<1>4. logged' \in [Names -> SUBSET (1..MaxRevision)]
  <2>1. logged' = [logged EXCEPT ![j.name] = IF "log" \in done THEN logged[j.name] \cup {j.revision}
                                             ELSE logged[j.name]]
    BY DEF Writes
  <2>2. logged \in [Names -> SUBSET (1..MaxRevision)] /\ ("log" \in done => j.revision \in 1..MaxRevision)
    BY DEF TypeOK, Orderly
  <2>3. (IF "log" \in done THEN logged[j.name] \cup {j.revision} ELSE logged[j.name]) \in SUBSET (1..MaxRevision)
    BY <2>2 DEF Orderly
  <2>. QED
    BY <2>1, <2>2, <2>3
<1>5. proposal' \in [Proposals -> {NoProposal} \cup ProposalRows]
  <2>1. proposal \in [Proposals -> {NoProposal} \cup ProposalRows]
    BY DEF TypeOK, ProposalRows
  <2>2. ASSUME NEW q \in {NoProposal} \cup ProposalRows, q.status = "pending"
        PROVE  [q EXCEPT !.status = "approved"] \in ProposalRows
    BY <2>2 DEF NoProposal, ProposalRows, ProposalStates
  <2>. QED
    BY <2>1, <2>2 DEF Writes
<1>6. applied' \in [Proposals -> Nat]
  BY DEF TypeOK, Writes
<1>. QED
  BY <1>1, <1>2, <1>3, <1>4, <1>5, <1>6 DEF TypeOK, SkillRows, ProposalRows

LEMMA WritesBehind ==
    ASSUME TypeOK, SnapshotsBehind,
           NEW j, NEW done, NEW left, Orderly(j, done, left), Writes(j, done, left)
    PROVE  SnapshotsBehind'
<1>. SUFFICES ASSUME NEW n \in Names, NEW r \in 0..MaxRevision, history'[n][r] # NoContent
              PROVE  /\ skill'[n] # NoSkill /\ r <= skill'[n].revision + 1
                     /\ n \notin torn' => r <= skill'[n].revision
  BY DEF SnapshotsBehind, Known
<1>1. CASE n # j.name
  BY <1>1, HistoryFacts, WriteFacts DEF SnapshotsBehind, Known
<1>2. CASE n = j.name
  <2>. DEFINE now == skill[n].revision
              next == skill'[n].revision
  <2>1. /\ skill'[n] = Row(j, done) /\ now \in Nat /\ next \in Nat /\ now <= next
        /\ next = IF "revise" \in done THEN j.revision ELSE now
        /\ skill'[n] # NoSkill <=> Known(n) \/ "register" \in done
    BY <1>2, RowFacts, WriteFacts
  <2>2. /\ n \notin torn' => /\ "file" \in done => "revise" \in done
                             /\ "file" \notin done => n \notin torn
        /\ "register" \in done => ~Known(n) /\ j.revision = 1
        /\ "snapshot" \in done => "file" \in done
        /\ "old" \in done => "register" \notin done
        /\ "old" \in done \/ "snapshot" \in done \/ "revise" \in done =>
             "register" \in done \/ (Known(n) /\ j.revision = now + 1)
    BY <1>2, WriteFacts DEF Orderly
  <2>3. ~Known(n) => now = 0
    BY <1>2 DEF Known, NoSkill
  <2>. HIDE DEF now, next
  <2>4. CASE r = j.revision /\ "snapshot" \in done
    <3>1. skill'[n] # NoSkill /\ j.revision = now + 1
      BY <2>1, <2>2, <2>3, <2>4
    <3>2. n \notin torn' => next = j.revision
      BY <2>1, <2>2, <2>4
    <3>. QED
      BY <2>1, <2>4, <3>1, <3>2 DEF next
  <2>5. CASE r = j.revision - 1 /\ "old" \in done
    <3>1. Known(n) /\ j.revision = now + 1
      BY <2>2, <2>5
    <3>. QED
      BY <2>1, <2>5, <3>1 DEF next
  <2>6. CASE history'[n][r] = history[n][r]
    <3>1. /\ Known(n) /\ r <= now + 1
          /\ n \notin torn => r <= now
      BY <2>6 DEF SnapshotsBehind, now
    <3>2. n \notin torn' => r <= next
      <4>1. CASE "file" \in done
        BY <2>1, <2>2, <3>1, <4>1
      <4>2. CASE "file" \notin done
        BY <2>1, <2>2, <3>1, <4>2
      <4>. QED
        BY <4>1, <4>2
    <3>. QED
      BY <2>1, <3>1, <3>2 DEF next
  <2>. QED
    BY <1>2, <2>4, <2>5, <2>6, HistoryFacts
<1>. QED
  BY <1>1, <1>2

LEMMA MaxIs ==
    ASSUME NEW S \in SUBSET Nat, NEW m \in S, \A x \in S : x <= m
    PROVE  Max(S) = m
<1>1. \A x \in S : m >= x
  OBVIOUS
<1>2. PICK x : x = Max(S)
  OBVIOUS
<1>3. x \in S /\ \A y \in S : x >= y
  BY <1>1, <1>2 DEF Max
<1>4. x \in Nat /\ m \in Nat /\ x >= m /\ x <= m
  BY <1>3
<1>5. x = m
  BY <1>4
<1>. QED
  BY <1>2, <1>5

LEMMA WritesRecorded ==
    ASSUME TypeOK, SnapshotsBehind, FileIsRecorded,
           NEW j, NEW done, NEW left, Orderly(j, done, left), Writes(j, done, left)
    PROVE  FileIsRecorded'
<1>. SUFFICES ASSUME NEW n \in Names, skill'[n] # NoSkill, n \notin torn', Snapshots(n)' # {}
              PROVE  file'[n] = history'[n][Max(Snapshots(n)')]
  BY DEF FileIsRecorded, Known
<1>1. /\ skill[n] \in {NoSkill} \cup SkillRows /\ skill'[n] \in {NoSkill} \cup SkillRows
      /\ MaxRevision \in Nat
  BY WriteFacts, SkillsAssumption DEF TypeOK, SkillRows
<1>2. skill[n].revision \in 0..MaxRevision /\ skill'[n].revision \in 0..MaxRevision
  BY <1>1 DEF SkillRows, NoSkill
<1>3. PICK now, next : now = skill[n].revision /\ next = skill'[n].revision
  OBVIOUS
<1>4. /\ Snapshots(n) = {r \in 0..now : history[n][r] # NoContent}
      /\ Snapshots(n)' = {r \in 0..next : history'[n][r] # NoContent}
      /\ now \in 0..MaxRevision /\ next \in 0..MaxRevision
  BY <1>2, <1>3 DEF Snapshots
<1>5. ASSUME Known(n), n \notin torn, file'[n] = file[n], Snapshots(n)' = Snapshots(n),
             \A r \in 0..MaxRevision : history'[n][r] = history[n][r]
      PROVE  file'[n] = history'[n][Max(Snapshots(n)')]
  <2>1. file[n] = history[n][Max(Snapshots(n))]
    BY <1>5 DEF FileIsRecorded
  <2>2. PICK old, new : old = history[n] /\ new = history'[n]
    OBVIOUS
  <2>3. old \in [0..MaxRevision -> Contents \cup {NoContent}] /\ new \in [0..MaxRevision -> Contents \cup {NoContent}]
    BY <2>2, HistoryFacts DEF TypeOK
  <2>4. \A r \in 0..MaxRevision : new[r] = old[r]
    BY <1>5, <2>2
  <2>5. new = old
    <3>1. new = [r \in 0..MaxRevision |-> new[r]] /\ old = [r \in 0..MaxRevision |-> old[r]]
      BY <2>3
    <3>. QED
      BY <2>4, <3>1
  <2>. QED
    BY <1>5, <2>1, <2>2, <2>5
<1>6. ASSUME file'[n] = history'[n][next], file'[n] # NoContent
      PROVE  file'[n] = history'[n][Max(Snapshots(n)')]
  <2>1. PICK S : S = Snapshots(n)'
    OBVIOUS
  <2>2. S \in SUBSET Nat /\ next \in S /\ \A x \in S : x <= next
    BY <1>1, <1>4, <1>6, <2>1
  <2>3. Max(S) = next
    BY <2>2, MaxIs
  <2>. QED
    BY <1>6, <2>1, <2>3
<1>7. CASE n # j.name
  <2>1. /\ skill'[n] = skill[n] /\ file'[n] = file[n] /\ n \notin torn
        /\ \A r \in 0..MaxRevision : history'[n][r] = history[n][r]
    BY <1>7, HistoryFacts, WriteFacts
  <2>2. Snapshots(n)' = Snapshots(n)
    BY <1>1, <1>3, <1>4, <2>1
  <2>. QED
    BY <1>5, <2>1, <2>2 DEF Known
<1>8. CASE n = j.name
  <2>1. /\ next = IF "revise" \in done THEN j.revision ELSE now
        /\ skill'[n] # NoSkill <=> Known(n) \/ "register" \in done
        /\ file'[n] = IF "file" \in done THEN j.content ELSE file[n]
        /\ "file" \in done => "revise" \in done /\ "snapshot" \in done
        /\ "file" \notin done => n \notin torn
    BY <1>3, <1>8, RowFacts, WriteFacts
  <2>2. /\ "register" \in done => "file" \in done
        /\ "snapshot" \in done => "file" \in done
        /\ "old" \in done /\ "revise" \in done => "file" \in done
        /\ "file" \in done => j.content \in Contents
        /\ "old" \in done \/ "revise" \in done => "register" \in done \/ j.revision = now + 1
    BY <1>3, <1>8 DEF Orderly
  <2>3. \A r \in 0..MaxRevision :
           history'[n][r] =
             IF r = j.revision /\ "snapshot" \in done THEN j.content
             ELSE IF r = j.revision - 1 /\ "old" \in done /\ file[n] # NoContent
             THEN file[n] ELSE history[n][r]
    BY <1>8, HistoryFacts
  <2>4. CASE "file" \in done
    <3>1. next = j.revision /\ history'[n][next] = j.content
      BY <1>4, <2>1, <2>3, <2>4
    <3>. QED
      BY <1>6, <2>1, <2>2, <2>4, <3>1, SkillsAssumption
  <2>5. CASE "file" \notin done /\ "old" \in done /\ file[n] # NoContent
    <3>1. next = now /\ j.revision = now + 1
      BY <2>1, <2>2, <2>5
    <3>2. next = j.revision - 1
      BY <1>1, <1>4, <3>1
    <3>3. history'[n][next] = file[n]
      BY <1>4, <2>2, <2>3, <2>5, <3>2
    <3>. QED
      BY <1>6, <2>1, <2>5, <3>3
  <2>6. CASE "file" \notin done /\ ~("old" \in done /\ file[n] # NoContent)
    <3>1. \A r \in 0..MaxRevision : history'[n][r] = history[n][r]
      BY <2>2, <2>3, <2>6
    <3>2. Known(n) /\ n \notin torn /\ file'[n] = file[n]
      BY <2>1, <2>2, <2>6
    <3>3. \A r \in 0..MaxRevision : history[n][r] # NoContent => r <= now
      BY <1>3, <3>2 DEF SnapshotsBehind
    <3>4. next = now \/ next = now + 1
      BY <2>1, <2>2, <2>6
    <3>5. ASSUME NEW r PROVE r \in Snapshots(n)' <=> r \in Snapshots(n)
      <4>1. now \in Nat /\ next \in Nat /\ now <= next /\ now <= MaxRevision /\ next <= MaxRevision
        BY <1>1, <1>4, <3>4
      <4>2. r \in 0..next => r \in 0..MaxRevision
        BY <1>1, <4>1
      <4>3. r \in 0..now => r \in 0..next
        BY <4>1
      <4>4. r \in 0..next /\ history[n][r] # NoContent => r \in 0..now
        BY <3>3, <4>1, <4>2
      <4>. QED
        BY <1>4, <3>1, <4>2, <4>3, <4>4
    <3>6. Snapshots(n)' = Snapshots(n)
      <4>1. PICK S, T : S = Snapshots(n) /\ T = Snapshots(n)'
        OBVIOUS
      <4>2. S \subseteq 0..now /\ T \subseteq 0..next /\ \A r : r \in T <=> r \in S
        BY <1>4, <3>5, <4>1
      <4>3. S = T
        BY <4>2
      <4>. QED
        BY <4>1, <4>3
    <3>. QED
      BY <1>5, <3>1, <3>2, <3>6
  <2>. QED
    BY <2>4, <2>5, <2>6
<1>. QED
  BY <1>7, <1>8

(* No write takes a row away or its revision back. *)
LEMMA RowsGrow ==
    ASSUME TypeOK, NEW m \in Names,
           NEW j, NEW done, NEW left, Orderly(j, done, left), Writes(j, done, left)
    PROVE  /\ skill[m].revision \in Nat /\ skill'[m].revision \in Nat
           /\ skill[m].revision <= skill'[m].revision
           /\ Known(m) => skill'[m] # NoSkill
<1>1. CASE m = j.name
  BY <1>1, RowFacts, WriteFacts
<1>2. CASE m # j.name
  <2>1. skill[m].revision \in Nat
    BY DEF TypeOK, NoSkill
  <2>2. skill'[m] = skill[m]
    BY <1>2, WriteFacts
  <2>. QED
    BY <2>1, <2>2 DEF Known
<1>. QED
  BY <1>1, <1>2

LEMMA WritesFit ==
    ASSUME TypeOK, ProposalsFit,
           NEW j, NEW done, NEW left, Orderly(j, done, left), Writes(j, done, left)
    PROVE  ProposalsFit'
<1>. SUFFICES ASSUME NEW p \in Proposals, proposal'[p] # NoProposal
              PROVE  Fits(proposal'[p], skill')
  BY DEF ProposalsFit
<1>1. PICK q, q2 : q = proposal[p] /\ q2 = proposal'[p]
  OBVIOUS
<1>2. q \in {NoProposal} \cup ProposalRows
  BY <1>1 DEF TypeOK, ProposalRows
<1>3. q2 = IF p = j.proposal /\ "resolve" \in done /\ q.status = "pending"
           THEN [q EXCEPT !.status = "approved"] ELSE q
  BY <1>1 DEF Writes
<1>4. q # NoProposal
  BY <1>1, <1>3 DEF NoProposal
<1>5. /\ q \in ProposalRows /\ Fits(q, skill) /\ q.name \in Names
      /\ q2.op = q.op /\ q2.name = q.name /\ q2.content = q.content /\ q2.base = q.base
      /\ q2.status = q.status \/
           (q2.status = "approved" /\ p = j.proposal /\ "resolve" \in done)
  BY <1>1, <1>2, <1>3, <1>4 DEF ProposalRows, ProposalsFit
<1>6. \A m \in Names : /\ skill[m].revision \in Nat /\ skill'[m].revision \in Nat
                       /\ skill[m].revision <= skill'[m].revision
                       /\ Known(m) => skill'[m] # NoSkill
  BY RowsGrow
<1>7. q2.op \in {"patch", "archive"} => skill'[q2.name] # NoSkill
  BY <1>5, <1>6 DEF Fits, Known
<1>8. ASSUME q2.op = "patch"
      PROVE  /\ q2.base <= skill'[q2.name].revision
             /\ q2.status = "approved" => q2.base < skill'[q2.name].revision
  <2>1. q.base \in Nat /\ q.op = "patch" /\ Known(q.name)
    BY <1>5, <1>8 DEF ProposalRows, Fits, Known
  <2>2. /\ q.base <= skill[q.name].revision
        /\ q.status = "approved" => q.base < skill[q.name].revision
    BY <1>5, <2>1 DEF Fits, Known
  <2>3. CASE q2.status = q.status
    BY <1>5, <1>6, <2>1, <2>2, <2>3
  <2>4. CASE p = j.proposal /\ "resolve" \in done
    <3>1. /\ q.name = j.name /\ q.base = skill[j.name].revision /\ "revise" \in done
          /\ j.revision = skill[j.name].revision + 1
      BY <1>1, <2>1, <2>4 DEF Orderly
    <3>2. skill'[q.name].revision = j.revision
      BY <3>1, RowFacts, WriteFacts
    <3>. QED
      BY <1>5, <1>6, <2>1, <3>1, <3>2
  <2>. QED
    BY <1>5, <2>3, <2>4
<1>9. q2.op \in {"create", "patch"} => q2.content \in Contents
  BY <1>5 DEF Fits, Known
<1>. QED
  BY <1>1, <1>7, <1>8, <1>9 DEF Fits

(* A decision changes nothing but a proposal's status. *)
LEMMA WritesSubject ==
    ASSUME TypeOK, NEW j, NEW done, NEW left, Writes(j, done, left), NEW p \in Proposals
    PROVE  /\ proposal'[p].op = proposal[p].op /\ proposal'[p].name = proposal[p].name
           /\ proposal'[p].base = proposal[p].base
           /\ proposal[p] # NoProposal => proposal'[p] # NoProposal
           /\ proposal'[p].status = proposal[p].status \/ (p = j.proposal /\ "resolve" \in done)
<1>1. PICK q, q2 : q = proposal[p] /\ q2 = proposal'[p]
  OBVIOUS
<1>2. q \in {NoProposal} \cup ProposalRows
  BY <1>1 DEF TypeOK, ProposalRows
<1>3. q2 = IF p = j.proposal /\ "resolve" \in done /\ q.status = "pending"
           THEN [q EXCEPT !.status = "approved"] ELSE q
  BY <1>1 DEF Writes
<1>4. /\ q2.op = q.op /\ q2.name = q.name /\ q2.base = q.base
      /\ q2.status = q.status \/ (p = j.proposal /\ "resolve" \in done)
  BY <1>2, <1>3 DEF NoProposal, ProposalRows
<1>5. q # NoProposal => q2 # NoProposal
  BY <1>2, <1>4 DEF NoProposal, ProposalRows
<1>. QED
  BY <1>1, <1>4, <1>5

(* An approval of a patch is of one written against the present revision,  *)
(* and every approved one was written against an earlier one.              *)
LEMMA WritesOneApproval ==
    ASSUME TypeOK, ProposalsFit, OneApprovalPerBase,
           NEW j, NEW done, NEW left, Orderly(j, done, left), Writes(j, done, left)
    PROVE  OneApprovalPerBase'
<1>1. ASSUME NEW p \in Proposals
      PROVE  /\ proposal'[p].op = proposal[p].op /\ proposal'[p].name = proposal[p].name
             /\ proposal'[p].base = proposal[p].base
             /\ proposal'[p].status = proposal[p].status \/ (p = j.proposal /\ "resolve" \in done)
  BY WritesSubject
<1>2. ASSUME NEW p \in Proposals, NEW q \in Proposals, p # q,
             proposal[p].op = "patch", proposal[q].op = "patch",
             proposal[p].name = proposal[q].name, proposal[p].base = proposal[q].base,
             p = j.proposal, "resolve" \in done, proposal'[q].status = "approved"
      PROVE  FALSE
  <2>1. proposal[q].status = "approved"
    BY <1>1, <1>2
  <2>2. proposal[q] # NoProposal /\ proposal[q] \in ProposalRows
    BY <1>2 DEF TypeOK, ProposalRows, NoProposal
  <2>3. proposal[q].base < skill[proposal[q].name].revision
    BY <1>2, <2>1, <2>2 DEF ProposalsFit, Fits
  <2>4. proposal[p].name = j.name /\ proposal[p].base = skill[j.name].revision
    BY <1>2 DEF Orderly
  <2>5. skill[j.name].revision \in Nat
    BY RowFacts
  <2>. QED
    BY <1>2, <2>3, <2>4, <2>5
<1>. QED
  BY <1>1, <1>2 DEF OneApprovalPerBase

(* An operation that raises a revision for a proposal is its first to do so:*)
(* what was created would be known, what was patched would be past.        *)
LEMMA WritesApplied ==
    ASSUME TypeOK, AppliedForGood,
           NEW j, NEW done, NEW left, Orderly(j, done, left), Writes(j, done, left)
    PROVE  AppliedForGood'
<1>. SUFFICES ASSUME NEW p \in Proposals, applied'[p] > 0
              PROVE  /\ proposal'[p] # NoProposal
                     /\ proposal'[p].op \in {"create", "patch"} => applied'[p] = 1
                     /\ proposal'[p].op = "create" => skill'[proposal'[p].name] # NoSkill
                     /\ proposal'[p].op = "patch" =>
                          proposal'[p].base < skill'[proposal'[p].name].revision
  BY DEF AppliedForGood
<1>1. /\ proposal'[p].op = proposal[p].op /\ proposal'[p].name = proposal[p].name
      /\ proposal'[p].base = proposal[p].base
      /\ proposal[p] # NoProposal => proposal'[p] # NoProposal
  BY WritesSubject
<1>2. PICK a, q : a = applied[p] /\ q = proposal[p]
  OBVIOUS
<1>3. /\ a \in Nat
      /\ applied'[p] = a + IF p = j.proposal /\ "revise" \in done THEN 1 ELSE 0
      /\ q # NoProposal => q.name \in Names /\ q.base \in Nat
  BY <1>2 DEF TypeOK, Writes
<1>4. a > 0 => /\ q # NoProposal
               /\ q.op \in {"create", "patch"} => a = 1
               /\ q.op = "create" => Known(q.name)
               /\ q.op = "patch" => q.base < skill[q.name].revision
  BY <1>2 DEF AppliedForGood, Known
<1>5. CASE p = j.proposal /\ "revise" \in done
  <2>1. /\ q # NoProposal /\ q.name = j.name /\ j.name \in Names
        /\ q.op = "create" => "register" \in done /\ ~Known(j.name)
        /\ q.op = "patch" => q.base = skill[j.name].revision
    BY <1>2, <1>5 DEF Orderly
  <2>2. /\ skill[j.name].revision \in Nat
        /\ skill'[j.name].revision = j.revision
        /\ "register" \in done => skill'[j.name] # NoSkill
    BY <1>5, RowFacts, WriteFacts
  <2>3. q.op = "patch" => j.revision = skill[j.name].revision + 1
    <3>1. "register" \in done => skill[j.name].revision = 0 /\ j.revision = 1
      BY DEF Orderly, Known, NoSkill
    <3>. QED
      BY <1>5, <2>2, <3>1 DEF Orderly
  <2>4. q.op \in {"create", "patch"} => a = 0
    BY <1>3, <1>4, <2>1, <2>2
  <2>5. q.op \in {"create", "patch"} => applied'[p] = 1
    BY <1>3, <1>5, <2>4
  <2>. QED
    BY <1>1, <1>2, <2>1, <2>2, <2>3, <2>5
<1>6. CASE ~(p = j.proposal /\ "revise" \in done)
  <2>1. applied'[p] = a /\ a > 0
    BY <1>3, <1>6
  <2>2. q # NoProposal /\ q.name \in Names /\ q.base \in Nat
    BY <1>3, <1>4, <2>1
  <2>3. /\ skill[q.name].revision \in Nat /\ skill'[q.name].revision \in Nat
        /\ skill[q.name].revision <= skill'[q.name].revision
        /\ Known(q.name) => skill'[q.name] # NoSkill
    BY <2>2, RowsGrow
  <2>4. q.op = "patch" => q.base < skill'[q.name].revision
    BY <1>4, <2>1, <2>2, <2>3
  <2>. QED
    BY <1>1, <1>2, <1>4, <2>1, <2>2, <2>3, <2>4
<1>. QED
  BY <1>5, <1>6

(* The log follows the revisions as long as no crash comes between.        *)
LEMMA WritesLogged ==
    ASSUME TypeOK, NothingUnlogged,
           NEW j, NEW done, NEW left, Orderly(j, done, left), Writes(j, done, left),
           crashes' = 0 => crashes = 0 /\ ("revise" \in done <=> "log" \in done)
    PROVE  NothingUnlogged'
<1>. SUFFICES ASSUME crashes' = 0, NEW n \in Names PROVE logged'[n] = 1..skill'[n].revision
  BY DEF NothingUnlogged
<1>1. PICK rev : rev = skill[n].revision
  OBVIOUS
<1>2. /\ rev \in Nat /\ logged[n] = 1..rev /\ j.name \in Names
      /\ logged \in [Names -> SUBSET (1..MaxRevision)]
  BY <1>1 DEF NothingUnlogged, TypeOK, NoSkill, Orderly
<1>3. logged' = [logged EXCEPT ![j.name] = IF "log" \in done
                                           THEN logged[j.name] \cup {j.revision}
                                           ELSE logged[j.name]]
  BY DEF Writes
<1>4. CASE n = j.name
  <2>1. skill'[n].revision = IF "revise" \in done THEN j.revision ELSE rev
    BY <1>1, <1>4, RowFacts, WriteFacts
  <2>2. "revise" \in done => j.revision = rev + 1
    <3>1. "register" \in done => rev = 0 /\ j.revision = 1
      BY <1>1, <1>4 DEF Orderly, Known, NoSkill
    <3>2. "revise" \in done /\ "register" \notin done => j.revision = rev + 1
      BY <1>1, <1>4 DEF Orderly
    <3>. QED
      BY <3>1, <3>2
  <2>3. logged'[n] = IF "revise" \in done THEN (1..rev) \cup {rev + 1} ELSE 1..rev
    BY <1>2, <1>3, <1>4, <2>2
  <2>4. (1..rev) \cup {rev + 1} = 1..(rev + 1)
    BY <1>2
  <2>. QED
    BY <2>1, <2>2, <2>3, <2>4
<1>5. CASE n # j.name
  BY <1>1, <1>2, <1>3, <1>5, WriteFacts
<1>. QED
  BY <1>4, <1>5

(* What an operation may do to what is recorded. *)
PastKept == \A n \in Names : \A r \in 0..skill[n].revision :
               history[n][r] # NoContent /\ ~(n \in torn /\ r = skill[n].revision)
                 => history'[n][r] = history[n][r]

LEMMA EffectInv ==
    ASSUME IInv, NEW j, Effect(j)
    PROVE  IInv' /\ PastKept
<1>1. PICK done, left : /\ Orderly(j, done, left) /\ Writes(j, done, left)
                        /\ crashes' \in 0..MaxCrashes
                        /\ crashes' = 0 =>
                             crashes = 0 /\ ("revise" \in done <=> "log" \in done)
  BY DEF Effect
<1>2. IInv'
  <2>1. TypeOK' /\ SnapshotsBehind' /\ FileIsRecorded' /\ ProposalsFit' /\ OneApprovalPerBase'
    BY <1>1, WritesType, WritesBehind, WritesRecorded, WritesFit, WritesOneApproval DEF IInv
  <2>. QED
    BY <1>1, <2>1, WritesApplied, WritesLogged DEF IInv
<1>3. PastKept
  <2>. SUFFICES ASSUME NEW n \in Names, NEW r \in 0..skill[n].revision,
                       history[n][r] # NoContent, ~(n \in torn /\ r = skill[n].revision),
                       history'[n][r] # history[n][r]
                PROVE  FALSE
    BY DEF PastKept
  <2>1. PICK now : now = skill[n].revision
    OBVIOUS
  <2>2. now \in 0..MaxRevision /\ MaxRevision \in Nat
    BY <2>1, SkillsAssumption DEF IInv, TypeOK, NoSkill
  <2>3. r \in 0..MaxRevision /\ r <= now /\ r \in Int
    BY <2>1, <2>2
  <2>4. Known(n)
    BY <2>3 DEF IInv, SnapshotsBehind
  <2>5. \/ n = j.name /\ r = j.revision /\ "snapshot" \in done
        \/ n = j.name /\ r = j.revision - 1 /\ "old" \in done /\ file[n] # history[n][r]
    BY <1>1, <2>3, HistoryFacts DEF IInv
  <2>6. j.revision = now + 1
    BY <1>1, <2>1, <2>4, <2>5 DEF Orderly
  <2>7. r = now /\ n \notin torn /\ file[n] # history[n][r]
    BY <2>1, <2>2, <2>3, <2>5, <2>6
  <2>8. PICK S : S = Snapshots(n)
    OBVIOUS
  <2>9. now \in S /\ S \in SUBSET Nat /\ \A x \in S : x <= now
    BY <2>1, <2>2, <2>7, <2>8 DEF Snapshots
  <2>10. Max(S) = now
    BY <2>9, MaxIs
  <2>11. file[n] = history[n][Max(S)]
    BY <2>4, <2>7, <2>8, <2>9 DEF IInv, FileIsRecorded
  <2>. QED
    BY <2>7, <2>10, <2>11
<1>. QED
  BY <1>2, <1>3

-----------------------------------------------------------------------------
(* The steps that are not operations.                                      *)

Good == IInv' /\ PastKept

LEMMA ProposeGood ==
    ASSUME IInv, NEW op \in {"create", "patch", "archive"}, NEW n \in Names, NEW c,
           c \in Contents \cup {NoContent}, op # "archive" => c \in Contents,
           op # "create" => Known(n), Propose(op, n, c)
    PROVE  Good
<1>1. PICK p \in Proposals :
         /\ \A q \in Proposals : proposal[q] = NoProposal <=> q >= p
         /\ proposal' = [proposal EXCEPT ![p] =
              [op |-> op, name |-> n, content |-> c,
               base |-> IF op = "create" THEN 0 ELSE skill[n].revision, status |-> "pending"]]
         /\ UNCHANGED <<skill, file, meta, history, logged, crashes, applied, torn>>
  BY DEF Propose
<1>2. PICK new : new = [op |-> op, name |-> n, content |-> c,
                        base |-> IF op = "create" THEN 0 ELSE skill[n].revision, status |-> "pending"]
  OBVIOUS
<1>3. /\ proposal \in [Proposals -> {NoProposal} \cup ProposalRows]
      /\ skill[n].revision \in 0..MaxRevision /\ MaxRevision \in Nat
  BY SkillsAssumption DEF IInv, TypeOK, ProposalRows, NoSkill
<1>4. new \in ProposalRows /\ Fits(new, skill) /\ new.status = "pending"
  BY <1>2, <1>3 DEF ProposalRows, ProposalStates, Fits, Known
<1>5. /\ proposal' \in [Proposals -> {NoProposal} \cup ProposalRows] /\ proposal'[p] = new
      /\ \A q \in Proposals : q # p => proposal'[q] = proposal[q]
  BY <1>1, <1>2, <1>3, <1>4
<1>6. TypeOK'
  BY <1>1, <1>5 DEF IInv, TypeOK, ProposalRows
<1>7. SnapshotsBehind' /\ FileIsRecorded' /\ PastKept
  BY <1>1 DEF IInv, SnapshotsBehind, FileIsRecorded, PastKept, Known, Snapshots
<1>8. ProposalsFit'
  <2>. SUFFICES ASSUME NEW q \in Proposals, proposal'[q] # NoProposal PROVE Fits(proposal'[q], skill)
    BY <1>1 DEF ProposalsFit
  <2>. QED
    BY <1>4, <1>5 DEF IInv, ProposalsFit
<1>9. OneApprovalPerBase'
  <2>. SUFFICES ASSUME NEW q \in Proposals, NEW r \in Proposals, q # r,
                       proposal'[q].op = "patch", proposal'[r].op = "patch",
                       proposal'[q].name = proposal'[r].name, proposal'[q].base = proposal'[r].base,
                       proposal'[q].status = "approved", proposal'[r].status = "approved"
                PROVE  FALSE
    BY DEF OneApprovalPerBase
  <2>1. q # p /\ r # p
    BY <1>4, <1>5
  <2>. QED
    BY <1>5, <2>1 DEF IInv, OneApprovalPerBase
<1>10. AppliedForGood' /\ NothingUnlogged'
  <2>1. applied[p] > 0 => proposal[p] # NoProposal
    BY DEF IInv, AppliedForGood
  <2>2. p \in Int /\ proposal[p] = NoProposal
    BY <1>1 DEF Proposals
  <2>3. AppliedForGood'
    BY <1>1, <1>5, <2>1, <2>2 DEF IInv, AppliedForGood
  <2>. QED
    BY <1>1, <2>3 DEF IInv, NothingUnlogged
<1>. QED
  BY <1>6, <1>7, <1>8, <1>9, <1>10 DEF Good, IInv

LEMMA SettleGood ==
    ASSUME IInv, NEW p \in Proposals, NEW status \in {"rejected", "conflict"}, Settle(p, status)
    PROVE  Good
<1>1. /\ proposal[p].status = "pending"
      /\ proposal' = [proposal EXCEPT ![p] = [proposal[p] EXCEPT !.status = status]]
      /\ UNCHANGED <<skill, file, meta, history, logged, crashes, applied, torn>>
  BY DEF Settle
<1>2. PICK old, new : old = proposal[p] /\ new = [old EXCEPT !.status = status]
  OBVIOUS
<1>3. proposal \in [Proposals -> {NoProposal} \cup ProposalRows]
  BY DEF IInv, TypeOK, ProposalRows
<1>4. old # NoProposal /\ old \in ProposalRows /\ Fits(old, skill)
  BY <1>1, <1>2, <1>3 DEF NoProposal, IInv, ProposalsFit
<1>5. /\ new \in ProposalRows /\ new.op = old.op /\ new.name = old.name /\ new.base = old.base
      /\ new.content = old.content /\ new.status = status /\ new.status # "approved"
  BY <1>2, <1>4 DEF ProposalRows, ProposalStates
<1>6. Fits(new, skill)
  BY <1>4, <1>5 DEF Fits
<1>7. /\ proposal' \in [Proposals -> {NoProposal} \cup ProposalRows] /\ proposal'[p] = new
      /\ \A q \in Proposals : q # p => proposal'[q] = proposal[q]
  BY <1>1, <1>2, <1>3, <1>5
<1>8. TypeOK'
  BY <1>1, <1>7 DEF IInv, TypeOK, ProposalRows
<1>9. SnapshotsBehind' /\ FileIsRecorded' /\ PastKept
  BY <1>1 DEF IInv, SnapshotsBehind, FileIsRecorded, PastKept, Known, Snapshots
<1>10. ProposalsFit'
  <2>. SUFFICES ASSUME NEW q \in Proposals, proposal'[q] # NoProposal PROVE Fits(proposal'[q], skill)
    BY <1>1 DEF ProposalsFit
  <2>. QED
    BY <1>6, <1>7 DEF IInv, ProposalsFit
<1>11. OneApprovalPerBase'
  <2>. SUFFICES ASSUME NEW q \in Proposals, NEW r \in Proposals, q # r,
                       proposal'[q].op = "patch", proposal'[r].op = "patch",
                       proposal'[q].name = proposal'[r].name, proposal'[q].base = proposal'[r].base,
                       proposal'[q].status = "approved", proposal'[r].status = "approved"
                PROVE  FALSE
    BY DEF OneApprovalPerBase
  <2>1. q # p /\ r # p
    BY <1>5, <1>7
  <2>. QED
    BY <1>7, <2>1 DEF IInv, OneApprovalPerBase
<1>12. AppliedForGood' /\ NothingUnlogged'
  <2>1. new # NoProposal
    BY <1>5 DEF NoProposal, ProposalRows
  <2>2. AppliedForGood'
    BY <1>1, <1>2, <1>5, <1>7, <2>1 DEF IInv, AppliedForGood
  <2>. QED
    BY <1>1, <2>2 DEF IInv, NothingUnlogged
<1>. QED
  BY <1>8, <1>9, <1>10, <1>11, <1>12 DEF Good, IInv

(* Rows change, their revisions do not; a row made now has revision 0.     *)
LEMMA RowsGood ==
    ASSUME IInv, UNCHANGED <<file, meta, history, logged, proposal, crashes, applied, torn>>,
           skill' \in [Names -> {NoSkill} \cup SkillRows],
           \A n \in Names : /\ skill'[n].revision = skill[n].revision
                            /\ Known(n) => skill'[n] # NoSkill
    PROVE  Good
<1>1. TypeOK'
  BY DEF IInv, TypeOK, SkillRows
<1>2. SnapshotsBehind' /\ PastKept
  BY DEF IInv, SnapshotsBehind, PastKept, Known
<1>3. FileIsRecorded'
  <2>. SUFFICES ASSUME NEW n \in Names, n \notin torn, Snapshots(n)' # {}
                PROVE  file[n] = history[n][Max(Snapshots(n)')]
    BY DEF FileIsRecorded, Known
  <2>1. Snapshots(n)' = Snapshots(n)
    BY DEF Snapshots
  <2>2. PICK r : r \in 0..skill[n].revision /\ history[n][r] # NoContent
    BY <2>1 DEF Snapshots
  <2>3. r \in 0..MaxRevision
    <3>1. skill[n].revision \in 0..MaxRevision
      BY SkillsAssumption DEF IInv, TypeOK, NoSkill
    <3>. QED
      BY <2>2, <3>1, SkillsAssumption
  <2>4. Known(n)
    BY <2>2, <2>3 DEF IInv, SnapshotsBehind
  <2>. QED
    BY <2>1, <2>4 DEF IInv, FileIsRecorded
<1>4. ProposalsFit'
  <2>. SUFFICES ASSUME NEW q \in Proposals, proposal[q] # NoProposal PROVE Fits(proposal[q], skill')
    BY DEF ProposalsFit
  <2>1. Fits(proposal[q], skill) /\ proposal[q].name \in Names
    BY DEF IInv, ProposalsFit, TypeOK
  <2>. QED
    BY <2>1 DEF Fits, Known
<1>5. OneApprovalPerBase'
  BY DEF IInv, OneApprovalPerBase
<1>6. AppliedForGood' /\ NothingUnlogged'
  <2>. SUFFICES ASSUME NEW p \in Proposals, applied[p] > 0
                PROVE  /\ proposal[p] # NoProposal
                       /\ proposal[p].op \in {"create", "patch"} => applied[p] = 1
                       /\ proposal[p].op = "create" => skill'[proposal[p].name] # NoSkill
                       /\ proposal[p].op = "patch" =>
                            proposal[p].base < skill'[proposal[p].name].revision
    BY DEF AppliedForGood, IInv, NothingUnlogged
  <2>1. proposal[p] # NoProposal /\ proposal[p].name \in Names
    BY DEF IInv, AppliedForGood, TypeOK
  <2>. QED
    BY <2>1 DEF IInv, AppliedForGood, Known
<1>. QED
  BY <1>1, <1>2, <1>3, <1>4, <1>5, <1>6 DEF Good, IInv

LEMMA UpdateGood ==
    ASSUME IInv, NEW n \in Names, NEW row, Update(n, row), row \in SkillRows,
           row.revision = skill[n].revision
    PROVE  Good
<1>1. /\ skill' = [skill EXCEPT ![n] = row] /\ skill \in [Names -> {NoSkill} \cup SkillRows]
      /\ UNCHANGED <<file, meta, history, logged, proposal, crashes, applied, torn>>
  BY DEF Update, IInv, TypeOK, SkillRows
<1>2. /\ skill' \in [Names -> {NoSkill} \cup SkillRows] /\ skill'[n] = row
      /\ \A m \in Names : m # n => skill'[m] = skill[m]
  BY <1>1
<1>3. row # NoSkill
  BY DEF SkillRows, NoSkill, Owners
<1>4. \A m \in Names : /\ skill'[m].revision = skill[m].revision
                       /\ Known(m) => skill'[m] # NoSkill
  BY <1>2, <1>3 DEF Known
<1>. QED
  BY <1>1, <1>2, <1>4, RowsGood

LEMMA DiscoverGood == ASSUME IInv, Discover PROVE Good
<1>1. /\ skill' = [n \in Names |-> IF file[n] # NoContent /\ ~Known(n)
                                   THEN Discovered(n) ELSE skill[n]]
      /\ skill \in [Names -> {NoSkill} \cup SkillRows]
      /\ UNCHANGED <<file, meta, history, logged, proposal, crashes, applied, torn>>
  BY DEF Discover, IInv, TypeOK, SkillRows
<1>2. ASSUME NEW n \in Names PROVE Discovered(n) \in SkillRows /\ Discovered(n).revision = 0
  <2>1. PICK o : o = IF meta[n] \in Owners THEN meta[n] ELSE "user"
    OBVIOUS
  <2>2. Discovered(n) = [owner |-> o, state |-> "active", revision |-> 0, pinned |-> FALSE]
    <3>1. Discovered(n) = [NoSkill EXCEPT !.state = "active", !.owner = o]
      BY <2>1 DEF Discovered
    <3>. QED
      BY <3>1 DEF NoSkill
  <2>3. o \in Owners
    BY <2>1 DEF Owners
  <2>. QED
    BY <2>2, <2>3, SkillsAssumption DEF SkillRows, States
<1>3. skill' \in [Names -> {NoSkill} \cup SkillRows]
  BY <1>1, <1>2
<1>4. ASSUME NEW n \in Names
      PROVE  skill'[n].revision = skill[n].revision /\ (Known(n) => skill'[n] # NoSkill)
  <2>1. CASE Known(n)
    BY <1>1, <2>1 DEF Known
  <2>2. CASE ~Known(n)
    <3>1. skill[n].revision = 0
      BY <2>2 DEF Known, NoSkill
    <3>. QED
      BY <1>1, <1>2, <2>2, <3>1
  <2>. QED
    BY <2>1, <2>2
<1>. QED
  BY <1>1, <1>3, <1>4, RowsGood

LEMMA VerdictState ==
    ASSUME NEW s \in States, NEW e
    PROVE  Verdict(s, e) \in States
BY DEF States, Verdict

LEMMA CuratorGood == ASSUME IInv, CuratorRun PROVE Good
<1>1. PICK e \in [Names -> Evidence] : skill' = [n \in Names |-> Curated(skill[n], e[n])]
  BY DEF CuratorRun
<1>2. /\ skill \in [Names -> {NoSkill} \cup SkillRows]
      /\ UNCHANGED <<file, meta, history, logged, proposal, crashes, applied, torn>>
  BY DEF CuratorRun, IInv, TypeOK, SkillRows
<1>3. ASSUME NEW n \in Names
      PROVE  /\ Curated(skill[n], e[n]) \in {NoSkill} \cup SkillRows
             /\ Curated(skill[n], e[n]).revision = skill[n].revision
             /\ Known(n) => Curated(skill[n], e[n]) # NoSkill
  <2>1. PICK row, next : row = skill[n] /\ next = Verdict(row.state, e[n])
    OBVIOUS
  <2>2. CASE Curated(row, e[n]) = row
    BY <1>2, <2>1, <2>2 DEF Known
  <2>3. CASE row # NoSkill /\ Curated(row, e[n]) = [row EXCEPT !.state = next]
    <3>1. row \in SkillRows
      BY <1>2, <2>1, <2>3
    <3>2. next \in States
      BY <2>1, <3>1, VerdictState DEF SkillRows
    <3>3. /\ [row EXCEPT !.state = next] \in SkillRows
          /\ [row EXCEPT !.state = next].revision = row.revision
      BY <3>1, <3>2 DEF SkillRows
    <3>4. NoSkill \notin SkillRows
      BY DEF NoSkill, SkillRows, Owners
    <3>. QED
      BY <2>1, <2>3, <3>3, <3>4
  <2>. QED
    BY <2>1, <2>2, <2>3 DEF Curated
<1>4. skill' \in [Names -> {NoSkill} \cup SkillRows]
  BY <1>1, <1>3
<1>. QED
  BY <1>1, <1>2, <1>3, <1>4, RowsGood

LEMMA PutGood == ASSUME IInv, PutOnDisk PROVE Good
<1>1. PICK n \in Names, c \in Contents, o \in Protected :
         /\ ~Known(n) /\ file[n] = NoContent
         /\ file' = [file EXCEPT ![n] = c] /\ meta' = [meta EXCEPT ![n] = o]
  BY DEF PutOnDisk
<1>2. UNCHANGED <<skill, history, logged, proposal, crashes, applied, torn>>
  BY DEF PutOnDisk
<1>3. TypeOK'
  BY <1>1, <1>2 DEF IInv, TypeOK, Protected, Owners
<1>4. SnapshotsBehind' /\ PastKept /\ ProposalsFit' /\ OneApprovalPerBase'
  BY <1>2 DEF IInv, SnapshotsBehind, PastKept, Known, ProposalsFit, OneApprovalPerBase
<1>5. FileIsRecorded'
  <2>. SUFFICES ASSUME NEW m \in Names, skill[m] # NoSkill, m \notin torn, Snapshots(m) # {}
                PROVE  file'[m] = history[m][Max(Snapshots(m))]
    BY <1>2 DEF FileIsRecorded, Known, Snapshots
  <2>1. file'[m] = file[m]
    BY <1>1 DEF Known, IInv, TypeOK
  <2>. QED
    BY <2>1 DEF IInv, FileIsRecorded, Known
<1>6. AppliedForGood' /\ NothingUnlogged'
  BY <1>2 DEF IInv, AppliedForGood, NothingUnlogged
<1>. QED
  BY <1>3, <1>4, <1>5, <1>6 DEF Good, IInv

-----------------------------------------------------------------------------
(* The operations.                                                         *)

LEMMA Jobs ==
    ASSUME IInv, NEW n \in Names, NEW c, NEW o \in Owners, NEW p
    PROVE  /\ Job(n, c, p).name = n /\ Job(n, c, p).content = c /\ Job(n, c, p).owner = "agent"
           /\ Job(n, c, p).proposal = p /\ Job(n, c, p).revision = skill[n].revision + 1
           /\ NewJob(n, c, o, p).name = n /\ NewJob(n, c, o, p).content = c
           /\ NewJob(n, c, o, p).owner = o
           /\ NewJob(n, c, o, p).proposal = p /\ NewJob(n, c, o, p).revision = 1
           /\ skill[n].revision \in Nat
           /\ Room(n) => skill[n].revision + 1 \in 1..MaxRevision
           /\ Known(n) => skill[n] \in SkillRows
<1>1. skill \in [Names -> {NoSkill} \cup SkillRows] /\ skill[n].revision \in Nat /\ MaxRevision \in Nat
  BY SkillsAssumption DEF IInv, TypeOK, SkillRows, NoSkill
<1>2. Known(n) => skill[n] \in SkillRows
  BY <1>1 DEF Known
<1>3. Room(n) => skill[n].revision + 1 \in 1..MaxRevision
  BY <1>1 DEF Room
<1>. QED
  BY <1>1, <1>2, <1>3 DEF Job, NewJob

LEMMA PatchGood ==
    ASSUME IInv, NEW n \in Names, NEW c \in Contents, NEW p, Known(n), Room(n),
           p \notin Proposals \/
             (/\ p \in Proposals /\ proposal[p].op = "patch"
              /\ proposal[p].name = n /\ proposal[p].base = skill[n].revision),
           Operate(Job(n, c, p), PatchSteps) \/ Operate(Job(n, c, p), Approves(PatchSteps))
    PROVE  Good
<1>1. PICK j : j = Job(n, c, p)
  OBVIOUS
<1>2. /\ j.name = n /\ j.content = c /\ j.owner = "agent" /\ j.proposal = p
      /\ j.revision = skill[n].revision + 1 /\ skill[n].revision \in Nat
      /\ j.revision \in 1..MaxRevision
  BY <1>1, Jobs DEF Owners
<1>3. OnKnown(j)
  BY <1>2 DEF OnKnown, Aims, Owners, NoProposal
<1>4. Effect(j)
  BY <1>1, <1>2, <1>3, PatchEffect DEF IInv
<1>. QED
  BY <1>4, EffectInv DEF Good

LEMMA CreateGood ==
    ASSUME IInv, NEW n \in Names, NEW c \in Contents, NEW o \in Owners, NEW p,
           p \in Proposals => proposal[p].op = "create" /\ proposal[p].name = n,
           Operate(NewJob(n, c, o, p), CreateSteps) \/ Operate(NewJob(n, c, o, p), Approves(CreateSteps))
    PROVE  Good
<1>1. PICK j : j = NewJob(n, c, o, p)
  OBVIOUS
<1>2. j.name = n /\ j.content = c /\ j.owner = o /\ j.proposal = p /\ j.revision = 1
  BY <1>1, Jobs
<1>3. Aims(j) /\ NoPatch(j)
  BY <1>2 DEF Aims, NoPatch, NoProposal
<1>4. Effect(j)
  BY <1>1, <1>2, <1>3, CreateEffect DEF IInv
<1>. QED
  BY <1>4, EffectInv DEF Good

LEMMA ArchiveGood ==
    ASSUME IInv, NEW n \in Names, NEW p, Known(n),
           p \in Proposals => proposal[p].op = "archive" /\ proposal[p].name = n,
           \/ Operate(Job(n, NoContent, p), Approves(ArchiveSteps))
           \/ Room(n) /\ Operate(Job(n, NoContent, p), Approves(LoggedArchiveSteps))
    PROVE  Good
<1>1. PICK j : j = Job(n, NoContent, p)
  OBVIOUS
<1>2. /\ j.name = n /\ j.owner = "agent" /\ j.proposal = p
      /\ j.revision = skill[n].revision + 1 /\ skill[n].revision \in Nat
      /\ Room(n) => j.revision \in 1..MaxRevision
  BY <1>1, Jobs DEF Owners
<1>3. OnKnown(j) /\ NoPatch(j)
  BY <1>2 DEF OnKnown, Aims, NoPatch, Owners, NoProposal
<1>4. Effect(j)
  BY <1>1, <1>2, <1>3, ArchiveEffect DEF IInv
<1>. QED
  BY <1>4, EffectInv DEF Good

LEMMA FileContent == ASSUME IInv, NEW n \in Names PROVE file[n] \in Contents \cup {NoContent}
BY DEF IInv, TypeOK

LEMMA ReviewGood == ASSUME IInv, Review PROVE Good
<1>1. PICK n \in Names : \/ \E c \in Contents : ReviewCreate(n, c) \/ ReviewPatch(n, c)
                         \/ ReviewArchive(n)
  BY DEF Review
<1>2. ASSUME NEW c \in Contents, ReviewCreate(n, c) PROVE Good
  <2>1. Propose("create", n, c) \/ Operate(NewJob(n, c, "agent", 0), CreateSteps)
    BY <1>2 DEF ReviewCreate
  <2>2. 0 \notin Proposals /\ "agent" \in Owners
    BY DEF Proposals, Owners
  <2>. QED
    BY <2>1, <2>2, ProposeGood, CreateGood
<1>3. ASSUME NEW c \in Contents, ReviewPatch(n, c) PROVE Good
  <2>1. /\ Known(n)
        /\ \/ Propose("patch", n, c)
           \/ Room(n) /\ Operate(Job(n, c, 0), PatchSteps)
    BY <1>3 DEF ReviewPatch
  <2>2. 0 \notin Proposals
    BY DEF Proposals
  <2>. QED
    BY <2>1, <2>2, ProposeGood, PatchGood
<1>4. CASE ReviewArchive(n)
  BY <1>4, FileContent, ProposeGood DEF ReviewArchive
<1>. QED
  BY <1>1, <1>2, <1>3, <1>4

LEMMA ManageGood == ASSUME IInv, Manage PROVE Good
<1>1. PICK n \in Names : \/ \E c \in Contents : ManageCreate(n, c) \/ ManageImprove(n, c)
                         \/ ManageArchive(n)
  BY DEF Manage
<1>2. ASSUME NEW c \in Contents, ManageCreate(n, c) PROVE Good
  BY <1>2, ProposeGood DEF ManageCreate
<1>3. ASSUME NEW c \in Contents, ManageImprove(n, c) PROVE Good
  BY <1>3, ProposeGood DEF ManageImprove
<1>4. CASE ManageArchive(n)
  BY <1>4, FileContent, ProposeGood DEF ManageArchive
<1>. QED
  BY <1>1, <1>2, <1>3, <1>4

LEMMA LearnGood == ASSUME IInv, Learn PROVE Good
<1>1. PICK n \in Names, c \in Contents :
         (\E m \in Duplicates(n) : Propose("patch", m, c)) \/ Propose("create", n, c)
  BY DEF Learn, ProposeLearned
<1>2. \A m \in Duplicates(n) : m \in Names /\ Known(m)
  BY DEF Duplicates
<1>. QED
  BY <1>1, <1>2, ProposeGood

LEMMA ApproveRouteGood == ASSUME IInv, NEW p \in Proposals, ApproveRoute(p) PROVE Good
<1>1. PICK q : q = proposal[p]
  OBVIOUS
<1>2. q.status = "pending"
  BY <1>1 DEF ApproveRoute
<1>3. q \in ProposalRows /\ Fits(q, skill) /\ q.name \in Names
  BY <1>1, <1>2 DEF IInv, TypeOK, ProposalsFit, ProposalRows, NoProposal
<1>4. CASE Settle(p, "conflict")
  BY <1>4, SettleGood
<1>5. CASE q.op = "create" /\ Operate(NewJob(q.name, q.content, "agent", p), Approves(CreateSteps))
  BY <1>1, <1>3, <1>5, CreateGood DEF Fits, Owners
<1>6. CASE /\ q.op = "patch" /\ ~Stale(p) /\ Room(q.name)
           /\ Operate(Job(q.name, q.content, p), Approves(PatchSteps))
  BY <1>1, <1>3, <1>6, PatchGood DEF Fits, Known, Stale
<1>7. CASE q.op = "archive" /\ Operate(Job(q.name, NoContent, p), Approves(ArchiveSteps))
  BY <1>1, <1>3, <1>7, ArchiveGood DEF Fits, Known
<1>. QED
  BY <1>1, <1>4, <1>5, <1>6, <1>7 DEF ApproveRoute

LEMMA ApproveServiceGood == ASSUME IInv, NEW p \in Proposals, ApproveService(p) PROVE Good
<1>1. PICK q : q = proposal[p]
  OBVIOUS
<1>2. q # NoProposal
  BY <1>1 DEF ApproveService
<1>3. q \in ProposalRows /\ Fits(q, skill) /\ q.name \in Names
  BY <1>1, <1>2 DEF IInv, TypeOK, ProposalsFit, ProposalRows
<1>4. CASE Settle(p, "conflict") \/ Settle(p, "rejected")
  BY <1>4, SettleGood
<1>5. CASE q.op = "create" /\ Operate(NewJob(q.name, q.content, "agent", p), Approves(CreateSteps))
  BY <1>1, <1>3, <1>5, CreateGood DEF Fits, Owners
<1>6. CASE /\ q.op = "patch" /\ ~Stale(p) /\ Room(q.name)
           /\ Operate(Job(q.name, q.content, p), Approves(PatchSteps))
  BY <1>1, <1>3, <1>6, PatchGood DEF Fits, Known, Stale
<1>7. CASE /\ q.op = "archive" /\ Room(q.name)
           /\ Operate(Job(q.name, NoContent, p), Approves(LoggedArchiveSteps))
  BY <1>1, <1>3, <1>7, ArchiveGood DEF Fits, Known
<1>8. ASSUME q.op = "create", ServiceCreate(p) PROVE Good
  BY <1>1, <1>4, <1>5, <1>8 DEF ServiceCreate
<1>9. ASSUME q.op = "patch", ServicePatch(p) PROVE Good
  <2>1. \/ Settle(p, "conflict") \/ Settle(p, "rejected")
        \/ /\ ~Stale(p) /\ Room(q.name)
           /\ Operate(Job(q.name, q.content, p), Approves(PatchSteps))
    BY <1>1, <1>9 DEF ServicePatch
  <2>. QED
    BY <1>4, <1>6, <1>9, <2>1
<1>10. ASSUME q.op = "archive", ServiceArchive(p) PROVE Good
  BY <1>1, <1>7, <1>10 DEF ServiceArchive
<1>. QED
  BY <1>1, <1>8, <1>9, <1>10 DEF ApproveService

LEMMA DirectGood == ASSUME IInv, Direct PROVE Good
<1>1. PICK n \in Names :
         \/ \E c \in Contents : Create(n, c) \/ Patch(n, c)
         \/ Rollback(n) \/ Archive(n) \/ Restore(n) \/ Pin(n) \/ Unpin(n)
  BY DEF Direct
<1>2. 0 \notin Proposals /\ "user" \in Owners
  BY DEF Proposals, Owners
<1>3. ASSUME NEW c \in Contents, Create(n, c) PROVE Good
  BY <1>2, <1>3, CreateGood DEF Create
<1>4. ASSUME NEW c \in Contents, Patch(n, c) PROVE Good
  BY <1>2, <1>4, PatchGood DEF Patch
<1>5. CASE Rollback(n)
  <2>1. PICK r \in 0..MaxRevision :
           /\ Known(n) /\ Room(n) /\ history[n][r] # NoContent
           /\ Operate(Job(n, history[n][r], 0), RollbackSteps)
    BY <1>5 DEF Rollback
  <2>2. PICK c : c = history[n][r]
    OBVIOUS
  <2>3. c \in Contents
    <3>1. history[n] \in [0..MaxRevision -> Contents \cup {NoContent}]
      BY DEF IInv, TypeOK
    <3>2. history[n][r] \in Contents \cup {NoContent}
      BY <3>1
    <3>. QED
      BY <2>1, <2>2, <3>2
  <2>4. PICK j : j = Job(n, c, 0)
    OBVIOUS
  <2>5. /\ j.name = n /\ j.content = c /\ j.owner = "agent" /\ j.proposal = 0
        /\ j.revision = skill[n].revision + 1 /\ skill[n].revision \in Nat
        /\ j.revision \in 1..MaxRevision
    BY <2>1, <2>4, Jobs DEF Owners
  <2>6. OnKnown(j) /\ NoPatch(j)
    BY <1>2, <2>1, <2>5 DEF OnKnown, Aims, NoPatch, Owners
  <2>7. Effect(j)
    BY <2>1, <2>2, <2>3, <2>4, <2>5, <2>6, RollbackEffect DEF IInv
  <2>. QED
    BY <2>7, EffectInv DEF Good
<1>6. CASE Archive(n) \/ Restore(n) \/ Pin(n) \/ Unpin(n)
  <2>1. Known(n)
    BY <1>6 DEF Archive, Restore, Pin, Unpin, Update
  <2>2. PICK old : old = skill[n]
    OBVIOUS
  <2>3. old \in SkillRows
    BY <2>1, <2>2, Jobs DEF Owners
  <2>4. /\ [old EXCEPT !.state = "archived"] \in SkillRows /\ [old EXCEPT !.state = "archived"].revision = old.revision
        /\ [old EXCEPT !.state = "active"] \in SkillRows /\ [old EXCEPT !.state = "active"].revision = old.revision
        /\ [old EXCEPT !.pinned = TRUE] \in SkillRows /\ [old EXCEPT !.pinned = TRUE].revision = old.revision
        /\ [old EXCEPT !.pinned = FALSE] \in SkillRows /\ [old EXCEPT !.pinned = FALSE].revision = old.revision
    BY <2>3 DEF SkillRows, States
  <2>. QED
    BY <1>6, <2>2, <2>4, UpdateGood DEF Archive, Restore, Pin, Unpin
<1>. QED
  BY <1>1, <1>3, <1>4, <1>5, <1>6

LEMMA ReuseGood == ASSUME IInv, RestoreOnReuse PROVE Good
<1>1. PICK n \in Names : Update(n, [skill[n] EXCEPT !.state = "active"]) /\ Known(n)
  BY DEF RestoreOnReuse, Update
<1>2. PICK old : old = skill[n]
  OBVIOUS
<1>3. old \in SkillRows
  BY <1>1, <1>2, Jobs DEF Owners
<1>4. [old EXCEPT !.state = "active"] \in SkillRows /\ [old EXCEPT !.state = "active"].revision = old.revision
  BY <1>3 DEF SkillRows, States
<1>. QED
  BY <1>1, <1>2, <1>4, UpdateGood

-----------------------------------------------------------------------------
(* The inductive invariant.                                                *)

LEMMA InvInit == Init => IInv
<1>. SUFFICES ASSUME Init PROVE IInv
  OBVIOUS
<1>1. TypeOK
  BY SkillsAssumption DEF Init, TypeOK, NoSkill
<1>2. SnapshotsBehind /\ FileIsRecorded
  BY DEF Init, SnapshotsBehind, FileIsRecorded, Known
<1>3. ProposalsFit /\ OneApprovalPerBase
  BY DEF Init, ProposalsFit, OneApprovalPerBase, NoProposal
<1>4. AppliedForGood /\ NothingUnlogged
  <2>1. \A n \in Names : skill[n].revision = 0 /\ logged[n] = {}
    BY DEF Init, NoSkill
  <2>. QED
    BY <2>1 DEF Init, AppliedForGood, NothingUnlogged
<1>. QED
  BY <1>1, <1>2, <1>3, <1>4 DEF IInv

LEMMA InvStep == IInv /\ [Next]_vars => Good
<1>. SUFFICES ASSUME IInv, [Next]_vars PROVE Good
  OBVIOUS
<1>1. CASE Review
  BY <1>1, ReviewGood
<1>2. CASE Manage
  BY <1>2, ManageGood
<1>3. CASE Learn
  BY <1>3, LearnGood
<1>4. CASE Decide
  <2>1. PICK p \in Proposals : Reject(p) \/ ApproveRoute(p) \/ ApproveService(p)
    BY <1>4 DEF Decide
  <2>2. CASE Reject(p)
    BY <2>2, SettleGood DEF Reject
  <2>. QED
    BY <2>1, <2>2, ApproveRouteGood, ApproveServiceGood
<1>5. CASE Direct
  BY <1>5, DirectGood
<1>6. CASE Discover
  BY <1>6, DiscoverGood
<1>7. CASE PutOnDisk
  BY <1>7, PutGood
<1>8. CASE CuratorRun
  BY <1>8, CuratorGood
<1>9. CASE RestoreOnReuse
  BY <1>9, ReuseGood
<1>10. CASE UNCHANGED vars
  <2>1. UNCHANGED <<skill, file, meta, history, logged, proposal, crashes, applied, torn>>
    BY <1>10 DEF vars
  <2>2. TypeOK' /\ PastKept
    BY <2>1 DEF IInv, TypeOK, PastKept
  <2>3. SnapshotsBehind' /\ FileIsRecorded'
    BY <2>1 DEF IInv, SnapshotsBehind, FileIsRecorded, Known, Snapshots
  <2>4. ProposalsFit' /\ OneApprovalPerBase'
    BY <2>1 DEF IInv, ProposalsFit, OneApprovalPerBase
  <2>5. AppliedForGood' /\ NothingUnlogged'
    BY <2>1 DEF IInv, AppliedForGood, NothingUnlogged
  <2>. QED
    BY <2>2, <2>3, <2>4, <2>5 DEF Good, IInv
<1>. QED
  BY <1>1, <1>2, <1>3, <1>4, <1>5, <1>6, <1>7, <1>8, <1>9, <1>10 DEF Next

LEMMA Invariant == Spec => []IInv
<1>1. IInv /\ [Next]_vars => IInv'
  BY InvStep DEF Good
<1>. QED
  BY InvInit, <1>1, PTL DEF Spec

-----------------------------------------------------------------------------
(* The variables keep their types, whatever the proposals, the decisions,  *)
(* the curator and the crashes do.                                         *)
THEOREM TypeCorrect == Spec => []TypeOK
<1>1. IInv => TypeOK
  BY DEF IInv
<1>. QED
  BY Invariant, <1>1, PTL

(* SKILL.md says what the newest snapshot of its skill says, unless an     *)
(* operation on that skill was cut short: a rollback can always come back. *)
THEOREM RollbackFindsTheFile == Spec => []FileIsRecorded
<1>1. IInv => FileIsRecorded
  BY DEF IInv
<1>. QED
  BY Invariant, <1>1, PTL

(* Of two patches written against one revision at most one is approved,    *)
(* though the proposal service approves without looking at the status and  *)
(* a crash can come between the patch and the approval.                    *)
THEOREM PatchesDoNotCollide == Spec => []OneApprovalPerBase
<1>1. IInv => OneApprovalPerBase
  BY DEF IInv
<1>. QED
  BY Invariant, <1>1, PTL

(* No step loses or rewrites the snapshot of a revision.  A patch writes   *)
(* SKILL.md as the snapshot of the revision it leaves: that is what the    *)
(* snapshot says already, unless an operation was cut short before.        *)
THEOREM PastStands == Spec => PastIsKept
<1>1. IInv /\ [Next]_vars => [PastKept]_vars
  BY InvStep DEF Good
<1>. QED
  BY Invariant, <1>1, PTL DEF Spec, PastIsKept, PastKept

(* A proposal to create or patch raises its skill's revision at most once, *)
(* though the proposal service applies before it looks at the status, and  *)
(* a crash between the two leaves an applied proposal pending.             *)
THEOREM ProposalsApplyOnce == Spec => []AppliedOnce
<1>1. IInv => AppliedOnce
  BY DEF IInv, TypeOK, AppliedForGood, AppliedOnce
<1>. QED
  BY Invariant, <1>1, PTL

(* As long as no crash comes between two writes, the log has a row for     *)
(* every revision of every skill, whoever made it and by which operation.  *)
THEOREM RevisionsAreLogged == Spec => []NothingUnlogged
<1>1. IInv => NothingUnlogged
  BY DEF IInv
<1>. QED
  BY Invariant, <1>1, PTL

(* What an autonomous actor may not touch. *)
HandsOff ==
  \A n \in Names :
    /\ skill[n].owner \in Protected /\ <<file[n], skill[n]>>' # <<file[n], skill[n]>>
       => ~Review
    /\ (skill[n].owner \in Protected \/ skill[n].pinned) /\ skill'[n] # skill[n]
       => ~CuratorRun

LEMMA ReviewKeepsOut ==
    ASSUME TypeOK, CreateApproval, NEW n \in Names, skill[n].owner \in Protected, Review
    PROVE  skill'[n] = skill[n] /\ file'[n] = file[n]
<1>1. PICK m \in Names : \/ \E c \in Contents : ReviewCreate(m, c) \/ ReviewPatch(m, c)
                         \/ ReviewArchive(m)
  BY DEF Review
<1>2. ASSUME NEW op, NEW c, Propose(op, m, c) PROVE skill'[n] = skill[n] /\ file'[n] = file[n]
  BY <1>2 DEF Propose
<1>3. ASSUME NEW c \in Contents, Room(m), Operate(Job(m, c, 0), PatchSteps),
             Evaluate("patch", skill[m].owner, FALSE, TRUE) # "deny", skill[m].owner # "user"
      PROVE  skill'[n] = skill[n] /\ file'[n] = file[n]
  <2>1. m # n
    BY <1>3 DEF Evaluate, HardDeny, Protected
  <2>2. Job(m, c, 0).name = m
    BY DEF Job
  <2>3. /\ \E v : skill' = [skill EXCEPT ![m] = v]
        /\ \E v : file' = [file EXCEPT ![m] = v]
    BY <1>3, <2>2 DEF Operate, Writes
  <2>. QED
    BY <2>1, <2>3 DEF TypeOK
<1>. QED
  BY <1>1, <1>2, <1>3 DEF ReviewCreate, ReviewPatch, ReviewArchive

LEMMA CuratorKeepsOut ==
    ASSUME NEW n \in Names, skill[n].owner \in Protected \/ skill[n].pinned, CuratorRun
    PROVE  skill'[n] = skill[n]
BY DEF CuratorRun, Curated

(* While creations need an approval, as they do unless the settings say    *)
(* otherwise, neither the learning reviewer nor the curator changes a      *)
(* skill of the user or of the installer, and the curator no pinned one.   *)
THEOREM AutonomyStaysOut == ASSUME CreateApproval PROVE Spec => AutonomyKeepsOut
<1>1. TypeOK /\ [Next]_vars => [HandsOff]_vars
  BY ReviewKeepsOut, CuratorKeepsOut DEF HandsOff
<1>. QED
  BY TypeCorrect, <1>1, PTL DEF Spec, AutonomyKeepsOut, HandsOff
=============================================================================
