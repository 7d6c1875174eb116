------------------------ MODULE MCRelationshipWindow ------------------------
(* RelationshipWindow on a small instance. *)
EXTENDS RelationshipWindow
=============================================================================
