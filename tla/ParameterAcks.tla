--------------------------- MODULE ParameterAcks ---------------------------
(***************************************************************************)
(* Acknowledgements of network parameters (ackNetworkParametersUpdate)     *)
(* beside the updates of ParameterUpdates.  A node signs the hash of the   *)
(* parameters its operator has accepted; the service compares it with      *)
(* current-parameters, which requests and map reads move meanwhile, and    *)
(* records it as the latest the node has accepted.                         *)
(***************************************************************************)
EXTENDS ParameterUpdates

CONSTANT Nodes  \* nodes that acknowledge, one request at a time each

VARIABLES
  ack,      \* progress of each node's request, then its answer
  asked,    \* the hash it acknowledges
  accepted  \* the latestAcceptedParameters storage, by the node's key

ackVars == <<ack, asked, accepted>>
allVars == <<vars, ackVars>>

Acking == {"checking", "opening", "saving"}

AcksInit ==
  /\ Init
  /\ ack = [n \in Nodes |-> "idle"]
  /\ asked = [n \in Nodes |-> Template]
  /\ accepted = [n \in Nodes |-> Absent]

-----------------------------------------------------------------------------
Replies(n, label) == ack' = [ack EXCEPT ![n] = label]

\* A node acknowledges parameters it has downloaded, at any time.
AckCall(n) ==
  /\ boot # "down" /\ ack[n] \notin Acking
  /\ \E h \in stored : asked' = [asked EXCEPT ![n] = h]
  /\ Replies(n, "checking")
  /\ UNCHANGED <<vars, accepted>>

\* Mutant: the hash is not compared with the current one.
AckCheckNothing(n) ==
  /\ ack[n] = "checking"
  /\ Replies(n, IF current \in {Absent, Torn} THEN "error" ELSE "opening")
  /\ UNCHANGED <<vars, asked, accepted>>

\* Only the hash in force is accepted; 400 for any other, 500 without one.
AckCheck(n) ==
  /\ ack[n] = "checking"
  /\ \/ current \in {Absent, Torn} /\ Replies(n, "error")
     \/ current = asked[n] /\ Replies(n, "opening")
     \/ current \notin {Absent, Torn, asked[n]} /\ Replies(n, "refused")
  /\ UNCHANGED <<vars, asked, accepted>>

\* Mutant: the node is answered before the hash has been written.
AckOpenAnswered(n) ==
  /\ ack[n] = "opening"
  /\ accepted' = [accepted EXCEPT ![n] = Opened(@, Torn)]
  /\ Replies(n, "ok")
  /\ UNCHANGED <<vars, asked>>

AckOpen(n) ==
  /\ ack[n] = "opening"
  /\ accepted' = [accepted EXCEPT ![n] = Opened(@, Torn)]
  /\ Replies(n, "saving")
  /\ UNCHANGED <<vars, asked>>

\* The newest revision is the one that is read.
AckSave(n) ==
  /\ ack[n] = "saving"
  /\ accepted' = [accepted EXCEPT ![n] = asked[n]]
  /\ Replies(n, "ok")
  /\ UNCHANGED <<vars, asked>>

\* A storage call fails: when it is the one that records the hash, the failure
\* is logged and the request never answered.
AckFault(n) ==
  /\ ack[n] \in Acking
  /\ Replies(n, IF ack[n] = "checking" THEN "error" ELSE "unanswered")
  /\ UNCHANGED <<vars, asked, accepted>>

\* Whatever else happens leaves acknowledgements alone, but a crash loses those
\* in progress.
Others ==
  /\ ack' = [n \in Nodes |-> IF crashes' # crashes /\ ack[n] \in Acking THEN "lost" ELSE ack[n]]
  /\ UNCHANGED <<asked, accepted>>

AckStep(n) == AckCall(n) \/ AckCheck(n) \/ AckOpen(n) \/ AckSave(n) \/ AckFault(n)

AcksNext == (Next /\ Others) \/ \E n \in Nodes : AckStep(n)

AcksSpec == AcksInit /\ [][AcksNext]_allVars

-----------------------------------------------------------------------------
(* Properties.                                                             *)

\* Every variable has its type; only a file is torn.
AcksTypeOK ==
  /\ ack \in [Nodes -> Acking \cup {"idle", "ok", "refused", "error", "unanswered", "lost"}]
  /\ asked \in [Nodes -> Params]
  /\ accepted \in [Nodes -> Params \cup {Absent, Torn}]
  /\ StorageType = "MONGO" => \A n \in Nodes : accepted[n] # Torn

\* The hash of parameters that are scheduled for a flag day to come is not refused
\* ("new parameters were accepted for future update").
FutureIsAccepted ==
  [][\A n \in Nodes : ack[n] = "checking" /\ ack'[n] = "refused"
       => \A i \in DOMAIN next : next[i] # Torn => next[i].hash # asked[n]]_allVars

\* What a node is recorded to have accepted has been in force, and everything
\* since then has been built on it, although CURRENT may move between the
\* comparison and the write.
AcceptedInForce ==
  \A n \in Nodes : accepted[n] \in Params /\ current \in Params => IsPrefix(accepted[n], current)

\* The record of a node never goes back to older parameters.
AcceptedForward ==
  [][\A n \in Nodes : {accepted[n], accepted'[n]} \subseteq Params
       => IsPrefix(accepted[n], accepted'[n])]_allVars

\* A node that was answered OK is recorded with what it has acknowledged
\* (latestParametersAccepted), also after a crash.
OkIsRecorded == \A n \in Nodes : ack[n] = "ok" => accepted[n] = asked[n]
=============================================================================
