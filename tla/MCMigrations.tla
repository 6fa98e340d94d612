--------------------------- MODULE MCMigrations ---------------------------
(* Three processes start at once, one of them a release behind the others. *)
EXTENDS Migrations

MCRelease == [p \in Procs |-> IF p = "old" THEN 2 ELSE 3]
=============================================================================
