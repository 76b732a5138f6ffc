----------------------------- MODULE MCMigrations -----------------------------
(* Processes start on one database. *)
EXTENDS Migrations
=============================================================================
