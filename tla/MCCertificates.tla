--------------------------- MODULE MCCertificates ---------------------------
(***************************************************************************)
(* Instances of Certificates for TLC, and the luck a root needs.           *)
(***************************************************************************)
EXTENDS Certificates

\* Signing requests are interchangeable.
Symmetry == Permutations(Requests)

\* The instance is at the root while the storage holds what a root has signed.
Exposed(i) ==
  /\ slot[i] = "root" /\ pc[i] # "down"
  /\ held["network-map"] # <<>> \/ held["doorman"] # <<>>

\* The service does not crash between storing a new root and the end of the
\* deletions that must follow, no storage call fails while it is exposed, and none
\* fails that stores a root.
Careful(i) ==
  /\ crashes' # crashes /\ Exposed(i) => pc[i] \in {"getting", "opening", "writing"}
  /\ faults' # faults => ~Exposed(i) /\ (slot[i] = "root" => pc[i] \notin {"opening", "writing"})

\* Next, whose crashes and faults are the careful ones.
CarefulNext ==
  \/ \E i \in Instances : Start(i) \/ InitStep(i)
  \/ \E i \in Instances :
       /\ Crash(i) \/ GetFault(i) \/ PutFault(i) \/ ClearFault(i)
       /\ \A j \in Instances : Careful(j)
  \/ \E i \in Instances, c \in Requests : PostCSR(i, c)
  \/ \E c \in Requests : Sign(c) \/ Refuse(c) \/ Retrieve(c)

CarefulSpec == Init /\ [][CarefulNext]_vars
=============================================================================
