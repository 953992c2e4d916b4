------------------------- MODULE MCParameterUpdates -------------------------
(***************************************************************************)
(* Instances of ParameterUpdates for TLC, and the disciplined environment  *)
(* in which the mechanism keeps its promises.                              *)
(***************************************************************************)
EXTENDS ParameterUpdates

\* Requests and map reads are interchangeable.
Symmetry == Permutations(Requests) \cup Permutations(Readers)

\* The delay exceeds the time a request takes: no request is still in progress
\* when its activation instant comes.
Timely == now' # now => \A r \in InFlight : now' < activation[r]

\* Next, whose clock may not overtake a request; no other step moves the clock.
TimelyNext ==
  \/ Tick /\ Timely
  \/ Start \/ BootStep \/ Crash \/ BootFault
  \/ \E r \in Requests : Call(r) \/ RequestStep(r) \/ RequestFault(r)
  \/ \E m \in Readers : MapStart(m) \/ MapStep(m) \/ MapFault(m)

TimelySpec == Init /\ [][TimelyNext]_vars

FairTimelySpec == TimelySpec /\ Fairness

\* In that environment the update path implements the ledger: the accepted
\* changes are those of the effective parameters, the changes in force those of
\* CURRENT, and the acknowledged requests those that are done.
Ledger == INSTANCE ParameterLedger WITH
  Unset <- Absent,
  accepted <- Effective,
  inForce <- current,
  acked <- {r \in Requests : pc[r] = "done"}

Implements == Ledger!LedgerSpec
=============================================================================
