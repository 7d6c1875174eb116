----------------------- MODULE MCRelationshipChanges -----------------------
(* RelationshipChanges on a small instance. *)
EXTENDS RelationshipChanges
=============================================================================
