---------------------------- MODULE DocumentMove ----------------------------
(***************************************************************************)
(* What the migration from files to Mongo promises, whoever takes part in  *)
(* it and whatever fails: each document is copied first and removed after  *)
(* that, so that it can be found in one of the two places all the time.    *)
(***************************************************************************)
CONSTANT Docs

VARIABLES
  files,  \* documents with a file
  stored  \* documents in Mongo

moveVars == <<files, stored>>

MoveInit == files \in SUBSET Docs /\ stored = Docs \ files

Copy(d) ==
  /\ d \in files
  /\ stored' = stored \cup {d}
  /\ UNCHANGED files

Remove(d) ==
  /\ d \in files /\ d \in stored
  /\ files' = files \ {d}
  /\ UNCHANGED stored

MoveSpec == MoveInit /\ [][\E d \in Docs : Copy(d) \/ Remove(d)]_moveVars
=============================================================================
