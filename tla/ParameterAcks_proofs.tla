------------------------ MODULE ParameterAcks_proofs ------------------------
(***************************************************************************)
(* Proofs about ParameterAcks, for any nodes: in any environment and       *)
(* either storage first, then in the disciplined environment of            *)
(* MCParameterUpdates under the conditions of SequentialUpdates_proofs.    *)
(***************************************************************************)
EXTENDS MCParameterAcks, SequentialUpdates_proofs

\* Acknowledgements leave the registers alone: whatever is proved of the update
\* path holds beside them (ackNetworkParametersUpdate only reads CURRENT).
THEOREM AcksLeaveUpdates == AcksSpec => Spec
<1>1. AcksInit => Init
  BY DEF AcksInit
<1>2. [AcksNext]_allVars => [Next]_vars
  <2> SUFFICES ASSUME AcksNext PROVE [Next]_vars
    BY DEF allVars
  <2>1. CASE Next /\ Others
    BY <2>1
  <2>2. CASE \E n \in Nodes : AckStep(n)
    <3>1. PICK n \in Nodes : AckStep(n)
      BY <2>2
    <3>2. UNCHANGED vars
      BY <3>1 DEF AckStep, AckCall, AckCheck, AckOpen, AckSave, AckFault
    <3> QED
      BY <3>2
  <2> QED
    BY <2>1, <2>2 DEF AcksNext
<1> QED
  BY <1>1, <1>2, PTL DEF AcksSpec, Spec

\* A step of one node keeps the types, given those of the registers.
LEMMA AckStepTyped ==
  ASSUME TypeOK, AcksTypeOK, NEW n \in Nodes, AckStep(n)
  PROVE  AcksTypeOK'
<1> USE DEF AcksTypeOK, Acking, Replies
<1>1. CASE AckCall(n)
  <2>1. PICK h \in stored : asked' = [asked EXCEPT ![n] = h]
    BY <1>1 DEF AckCall
  <2>2. h \in Params
    BY <2>1 DEF TypeOK
  <2> QED
    BY <1>1, <2>1, <2>2 DEF AckCall
<1>2. CASE AckCheck(n)
  BY <1>2 DEF AckCheck
<1>3. CASE AckOpen(n)
  BY <1>3 DEF AckOpen, Opened
<1>4. CASE AckSave(n)
  BY <1>4, AbsentAssumption DEF AckSave, Params
<1>5. CASE AckFault(n)
  BY <1>5 DEF AckFault
<1> QED
  BY <1>1, <1>2, <1>3, <1>4, <1>5 DEF AckStep

\* Every reachable state is well typed; with the Mongo storage no record of a
\* node is ever torn.
THEOREM AcksTypeCorrect == AcksSpec => []AcksTypeOK
<1>1. AcksInit => AcksTypeOK
  BY AbsentAssumption DEF AcksInit, AcksTypeOK, Params, Template
<1>2. TypeOK /\ AcksTypeOK /\ [AcksNext]_allVars => AcksTypeOK'
  <2> SUFFICES ASSUME TypeOK, AcksTypeOK, [AcksNext]_allVars PROVE AcksTypeOK'
    OBVIOUS
  <2>1. CASE Next /\ Others
    BY <2>1 DEF Others, AcksTypeOK, Acking
  <2>2. CASE \E n \in Nodes : AckStep(n)
    BY <2>2, AckStepTyped
  <2>3. CASE UNCHANGED allVars
    BY <2>3 DEF allVars, ackVars, AcksTypeOK
  <2> QED
    BY <2>1, <2>2, <2>3 DEF AcksNext
<1> QED
  BY <1>1, <1>2, AcksLeaveUpdates, TypeCorrect, PTL DEF AcksSpec

\* An answer of OK is true from then on: the node stays recorded with what it has
\* acknowledged until it calls again, across crashes and failures of storage
\* calls (storeLatestParametersAccepted answers once the put has completed).
THEOREM OkStands == AcksSpec => []OkIsRecorded
<1>1. AcksInit => OkIsRecorded
  BY DEF AcksInit, OkIsRecorded
<1>2. AcksTypeOK /\ OkIsRecorded /\ [AcksNext]_allVars => OkIsRecorded'
  <2> SUFFICES ASSUME AcksTypeOK, OkIsRecorded, [AcksNext]_allVars PROVE OkIsRecorded'
    OBVIOUS
  <2>1. CASE Next /\ Others
    BY <2>1 DEF Others, OkIsRecorded, AcksTypeOK
  <2>2. ASSUME NEW n \in Nodes, AckStep(n) PROVE OkIsRecorded'
    <3> USE DEF OkIsRecorded, AcksTypeOK, Acking, Replies
    <3>1. CASE AckCall(n)
      BY <3>1 DEF AckCall
    <3>2. CASE AckCheck(n)
      BY <3>2 DEF AckCheck
    <3>3. CASE AckOpen(n)
      BY <3>3 DEF AckOpen
    <3>4. CASE AckSave(n)
      BY <3>4 DEF AckSave
    <3>5. CASE AckFault(n)
      BY <3>5 DEF AckFault
    <3> QED
      BY <2>2, <3>1, <3>2, <3>3, <3>4, <3>5 DEF AckStep
  <2>3. CASE UNCHANGED allVars
    BY <2>3 DEF allVars, ackVars, OkIsRecorded
  <2> QED
    BY <2>1, <2>2, <2>3 DEF AcksNext
<1> QED
  BY <1>1, <1>2, AcksTypeCorrect, PTL DEF AcksSpec

-----------------------------------------------------------------------------
(* In the disciplined environment.                                         *)

\* Acknowledgements leave the disciplined update path alone as well.
LEMMA AcksLeaveTimely == TimelyAcksSpec => TimelySpec /\ AcksSpec
<1>1. AcksInit => Init
  BY DEF AcksInit
<1>2. [TimelyAcksNext]_allVars => [TimelyNext]_vars
  <2> SUFFICES ASSUME TimelyAcksNext PROVE [TimelyNext]_vars
    BY DEF allVars
  <2>1. CASE \E n \in Nodes : AckStep(n)
    BY <2>1 DEF AckStep, AckCall, AckCheck, AckOpen, AckSave, AckFault
  <2> QED
    BY <2>1 DEF TimelyAcksNext
<1>3. [TimelyAcksNext]_allVars => [AcksNext]_allVars
  BY DEF TimelyAcksNext, AcksNext, TimelyNext, Next
<1> QED
  BY <1>1, <1>2, <1>3, PTL DEF TimelyAcksSpec, TimelySpec, AcksSpec

\* What a node has accepted, and what it is about to be recorded with, has been in
\* force: CURRENT has it as a prefix, whatever it has moved to since.
AcceptedBelow ==
  \A n \in Nodes :
    /\ accepted[n] \in Params => current \in Params /\ IsPrefix(accepted[n], current)
    /\ ack[n] \in {"opening", "saving"} =>
         /\ current \in Params /\ IsPrefix(asked[n], current)
         /\ accepted[n] \in Params => IsPrefix(accepted[n], asked[n])

\* The update path moves CURRENT forward only, so it keeps AcceptedBelow.
LEMMA OthersKeepBelow ==
  ASSUME Sequential, Known, AcksTypeOK, AcceptedBelow, [TimelyNext]_vars,
         UNCHANGED <<asked, accepted>>,
         \A n \in Nodes : ack'[n] \in {"opening", "saving"} => ack'[n] = ack[n]
  PROVE  AcceptedBelow'
<1>1. ASSUME NEW p \in Params, current \in Params, IsPrefix(p, current)
      PROVE  current' \in Params /\ IsPrefix(p, current')
  BY <1>1, CurrentExtended, PrefixTransitive
<1> QED
  BY <1>1 DEF AcceptedBelow, AcksTypeOK

\* A node's step keeps it: the hash that is compared is then in force, and extends
\* what the node had accepted.
LEMMA AckStepKeepsBelow ==
  ASSUME Sequential, TypeOK, AcksTypeOK, AcceptedBelow, NEW n \in Nodes, AckStep(n)
  PROVE  /\ AcceptedBelow'
         /\ {accepted[n], accepted'[n]} \subseteq Params => IsPrefix(accepted[n], accepted'[n])
         /\ \A k \in Nodes : k # n => accepted'[k] = accepted[k]
<1> USE DEF AcceptedBelow, AcksTypeOK, Acking, Replies, Sequential
<1>1. current' = current
  BY DEF AckStep, AckCall, AckCheck, AckOpen, AckSave, AckFault, vars
<1>2. CASE AckCall(n)
  BY <1>1, <1>2, PrefixLeast DEF AckCall
<1>3. CASE AckCheck(n)
  BY <1>1, <1>3, PrefixLeast DEF AckCheck, TypeOK
<1>4. CASE AckOpen(n)
  BY <1>1, <1>4, PrefixLeast DEF AckOpen, Opened
<1>5. CASE AckSave(n)
  BY <1>1, <1>5, PrefixLeast DEF AckSave
<1>6. CASE AckFault(n)
  BY <1>1, <1>6, PrefixLeast DEF AckFault
<1> QED
  BY <1>2, <1>3, <1>4, <1>5, <1>6 DEF AckStep

\* Every step keeps it.
LEMMA NextBelow ==
  ASSUME Sequential
  PROVE  Known /\ AcksTypeOK /\ AcceptedBelow /\ [TimelyAcksNext]_allVars => AcceptedBelow'
<1> SUFFICES ASSUME Known, AcksTypeOK, AcceptedBelow, [TimelyAcksNext]_allVars
             PROVE  AcceptedBelow'
  OBVIOUS
<1>1. CASE TimelyNext /\ Others
  BY <1>1, OthersKeepBelow DEF Others, AcksTypeOK
<1>2. CASE \E n \in Nodes : AckStep(n)
  BY <1>2, AckStepKeepsBelow DEF Known
<1>3. CASE UNCHANGED allVars
  BY <1>3 DEF allVars, ackVars, vars, AcceptedBelow
<1> QED
  BY <1>1, <1>2, <1>3 DEF TimelyAcksNext

\* AcceptedBelow holds in every reachable state.
THEOREM AcceptedInvariant ==
  ASSUME Sequential
  PROVE  TimelyAcksSpec => []AcceptedBelow
<1>1. AcksInit => AcceptedBelow
  BY Sorts DEF AcksInit, AcceptedBelow
<1> QED
  BY <1>1, NextBelow, AcksLeaveTimely, AcksTypeCorrect, SequentialInvariant, PTL DEF TimelyAcksSpec

\* What a node is recorded to have accepted is what the parameters in force were
\* built on, although CURRENT may move between the comparison and the write of
\* ackNetworkParametersUpdate.
THEOREM AcceptedWasInForce ==
  ASSUME Sequential
  PROVE  TimelyAcksSpec => []AcceptedInForce
<1>1. AcceptedBelow => AcceptedInForce
  BY DEF AcceptedBelow, AcceptedInForce
<1> QED
  BY <1>1, AcceptedInvariant, PTL

\* The record of a node only moves to parameters that extend the ones it had.
THEOREM AcceptedGoesForward ==
  ASSUME Sequential
  PROVE  TimelyAcksSpec => AcceptedForward
<1> DEFINE Forward ==
      \A n \in Nodes : {accepted[n], accepted'[n]} \subseteq Params
        => IsPrefix(accepted[n], accepted'[n])
<1>1. Known /\ AcksTypeOK /\ AcceptedBelow /\ [TimelyAcksNext]_allVars => [Forward]_allVars
  <2> SUFFICES ASSUME Known, AcksTypeOK, AcceptedBelow, TimelyAcksNext,
                      NEW n \in Nodes, accepted[n] \in Params, accepted'[n] \in Params
               PROVE  IsPrefix(accepted[n], accepted'[n])
    OBVIOUS
  <2>1. CASE accepted'[n] = accepted[n]
    BY <2>1, PrefixLeast
  <2>2. ASSUME NEW k \in Nodes, AckStep(k)
        PROVE  IsPrefix(accepted[n], accepted'[n])
    BY <2>1, <2>2, AckStepKeepsBelow DEF Known
  <2> QED
    BY <2>1, <2>2 DEF TimelyAcksNext, Others
<1> QED
  BY <1>1, AcceptedInvariant, AcksLeaveTimely, AcksTypeCorrect, SequentialInvariant, PTL
    DEF TimelyAcksSpec, AcceptedForward
=============================================================================
