------------------------------- MODULE MCMemory -------------------------------
(* Two opposite statements on one topic; which of them is which says nothing. *)
EXTENDS Memory, TLC

Same == {p \in Contents \X Contents : p[1] = p[2]}
Opposite == {p \in Contents \X Contents : p[1] # p[2]}
Symmetry == Permutations(Contents)

\* Bound: the user's hand or a fault came on one row only, not both on it; a row
\* of the user's hand is followed while nobody died and nobody edited the
\* document, and after a death the document has one more version at most.  Rows
\* of other kinds come and go while nobody died and nothing more than one event
\* was recorded; the editor is followed beside those that a review wrote.
Bounded ==
  /\ Cardinality(unchecked \cup apart) <= 1
  /\ unchecked = {} \/ (crashes = 0 /\ version.number = 0)
  /\ crashes = 0 \/ version.number <= 1
  /\ others > 0 =>
       /\ crashes = 0 /\ \A e \in Events : e > 1 => event[e] = NoEvent
       /\ \/ version.number = 0
          \/ doc[<<"key", 1>>] # Nothing /\ unchecked \cup apart = {} /\ made <= 1

\* What is left of the editor: nothing once the last version is recorded, and
\* the conflict alone once another version is.
Open == CASE version.number = MaxVersions -> <<>>
          [] version.number < MaxVersions /\ editor.number = version.number ->
               <<version, editor>>
          [] OTHER -> <<version, editor.number>>

\* What tells states apart; what the curator said it queued is read by nobody.
Effects == <<made, row, others, revised, doc, event, mode, job, live, Open, crashes,
             unchecked, apart>>
===============================================================================
