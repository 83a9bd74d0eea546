--------------------------- MODULE MCRepositoryLock -------------------------
(* Two applies of one workspace, a harvest and an assemble of the repository. *)
EXTENDS RepositoryLock

CONSTANTS apply1, apply2, harvest, assemble

MCProcess == {apply1, apply2, harvest, assemble}
MCReclaimers == {apply1, apply2}
MCRefusers == {harvest}
MCOperationId == [p \in MCProcess |-> IF p \in MCReclaimers THEN "apply" ELSE p]
=============================================================================
