---------------------------- MODULE MCMigration ----------------------------
(* The small instance: an old run that is saved again, a new run that is   *)
(* saved for the first time, and a migration of their state tree.          *)
EXTENDS Migration
=============================================================================
