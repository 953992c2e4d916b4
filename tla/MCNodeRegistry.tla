--------------------------- MODULE MCNodeRegistry ---------------------------
(***************************************************************************)
(* Instances of NodeRegistry for TLC, and the courtesy a name needs.       *)
(***************************************************************************)
EXTENDS NodeRegistry, TLC

\* Names, keys and calls are interchangeable.
Symmetry ==
  Permutations(Names) \cup Permutations(Keys)
    \cup Permutations(Publications) \cup Permutations(Deletions)

\* Nobody publishes a name while somebody else is publishing it with another key.
Polite(p) == \A q \in Publishing : Agree(info[q], info[p])

\* Next, whose publications are polite ones.
PoliteNext ==
  \/ Crash
  \/ \E p \in Publications : (Polite(p) /\ Publish(p)) \/ PublicationStep(p)
  \/ \E a \in Deletions : DeleteAllNodes(a) \/ DeletionStep(a) \/ \E i \in Info : DeleteNode(a, i)

PoliteSpec == Init /\ [][PoliteNext]_vars
=============================================================================
