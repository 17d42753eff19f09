------------------------------ MODULE MCSkills ------------------------------
(* One skill, two texts, two proposals, one crash. *)
EXTENDS Skills, TLC

Symmetry == Permutations(Contents)

\* The bound of the exploration: the lifecycle of a skill (pins, staleness,
\* archives) is followed while it has one revision and one proposal, its
\* history while it is active, not pinned, and no proposal is to archive it or
\* was rejected.
Plain(n) ==
  /\ ~skill[n].pinned /\ skill[n].state \in {"none", "active"}
  /\ \A p \in Proposals :
       \/ proposal[p] = NoProposal
       \/ (proposal[p].op # "archive" /\ proposal[p].status # "rejected")
Young(n) == skill[n].revision <= 1 /\ \A p \in Proposals : p > 1 => proposal[p] = NoProposal
Bounded == \A n \in Names : Plain(n) \/ Young(n)
=============================================================================
