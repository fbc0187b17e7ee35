----------------------------- MODULE MCBackups -----------------------------
(* Backups on small instances.                                             *)
EXTENDS Backups

CONSTANTS w, p, r1

(* "Relocation history is permanent" (src/app/services/schema.py:193, the  *)
(* trigger that ensure_runtime_schema installs): whenever no reset is      *)
(* under way, the rows of the history cannot be deleted.                   *)
GuardsStand ==
    Serving /\ reset = "none" /\ job.kind = "none" /\ ~halfway => main.guards
=============================================================================
