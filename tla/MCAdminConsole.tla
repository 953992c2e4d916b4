--------------------------- MODULE MCAdminConsole ---------------------------
(***************************************************************************)
(* The web site with two nodes: a with two parties at one place, the       *)
(* second a notary, b with one party at another place.                     *)
(***************************************************************************)
EXTENDS AdminConsole

CONSTANTS a, b

\* Which of two requests to sign in is which makes no difference.
LoginSymmetry == Permutations(Logins)

MCNodes == {a, b}
MCParties ==
  [n \in MCNodes |-> IF n = a THEN <<[key |-> 1, at |-> "x"], [key |-> 2, at |-> "x"]>>
                              ELSE <<[key |-> 3, at |-> "y"]>>]
MCNotaries == {2}
MCColumns == {FirstColumn, "Organisation"}
=============================================================================
