------------------------------- MODULE MCSplit -------------------------------
(* SplitVector with dimensions that a .cfg cannot write. *)
EXTENDS SplitVector

MCDimensions == -1..7
=============================================================================
