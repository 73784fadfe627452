------------------------ MODULE MCInvalidationStream ------------------------
(***************************************************************************)
(* Instances of InvalidationStream for TLC.                                *)
(***************************************************************************)
EXTENDS InvalidationStream
=============================================================================
