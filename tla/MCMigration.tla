---------------------------- MODULE MCMigration ----------------------------
(***************************************************************************)
(* Two instances, the text storage with one key and another with two.      *)
(***************************************************************************)
EXTENDS Migration

CONSTANTS hash, n1, n2

MCDocs == {hash, n1, n2}
MCStoreOf == [d \in MCDocs |-> IF d = hash THEN "text" ELSE "nodeInfo"]
=============================================================================
