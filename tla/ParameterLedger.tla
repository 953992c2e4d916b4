--------------------------- MODULE ParameterLedger ---------------------------
(***************************************************************************)
(* What the network map service promises about parameter updates, without  *)
(* its registers, schedules and map reads: accepted changes form one       *)
(* sequence, an acknowledgement means that the change is in it, and the    *)
(* parameters in force are a prefix of it that only grows.  The promise is *)
(* the one of NetworkMapServiceProcessor's comments: changes to the map    *)
(* are queued "to ensure consistency", and the mechanism "should be        *)
(* sufficient for a single node network map service".                      *)
(***************************************************************************)
EXTENDS Naturals, SequencesExt

CONSTANTS Requests, Unset

VARIABLES
  accepted,  \* the changes accepted so far, in the order they are applied
  inForce,   \* those that are in the parameters now in force
  acked      \* the requests that were answered with success

ledgerVars == <<accepted, inForce, acked>>

LedgerInit == accepted = Unset /\ inForce = Unset /\ acked = {}

\* The network is created from the template.
Found ==
  /\ accepted = Unset
  /\ accepted' = <<>> /\ inForce' = <<>>
  /\ UNCHANGED acked

\* A change is appended, and its request answered.
Accept(r) ==
  /\ accepted # Unset /\ r \notin acked
  /\ accepted' = Append(accepted, r)
  /\ acked' = acked \cup {r}
  /\ UNCHANGED inForce

\* A flag day: more of the accepted changes come into force.
Enact ==
  /\ accepted # Unset
  /\ \E n \in Len(inForce) + 1 .. Len(accepted) : inForce' = SubSeq(accepted, 1, n)
  /\ UNCHANGED <<accepted, acked>>

LedgerNext == Found \/ Enact \/ \E r \in Requests : Accept(r)

LedgerSpec == LedgerInit /\ [][LedgerNext]_ledgerVars
=============================================================================
