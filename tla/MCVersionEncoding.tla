------------------------- MODULE MCVersionEncoding -------------------------
(* VersionEncoding on the numbers at the edges of a byte and of three digits. *)
EXTENDS VersionEncoding
=============================================================================
