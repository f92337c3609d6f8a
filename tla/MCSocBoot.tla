----------------------------- MODULE MCSocBoot -----------------------------
(* Model-checking instance of SocBoot and the properties its runs check. *)
EXTENDS SocBoot

=============================================================================
