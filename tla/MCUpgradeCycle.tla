--------------------------- MODULE MCUpgradeCycle ---------------------------
(* UpgradeCycle on small instances: a few resets, failures and stagings. *)
EXTENDS UpgradeCycle
=============================================================================
