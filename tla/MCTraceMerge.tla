---------------------------- MODULE MCTraceMerge ----------------------------
(* Offsets of six bits; half a second is one tick of the host's clock. *)
EXTENDS TraceMerge
=============================================================================
