----------------------------- MODULE MCConfigTable -----------------------------
(* Keys and hash values for ConfigTable: three keys of one slot, the last of *)
(* the table, so that the probing wraps around, and one of the slot behind.  *)
EXTENDS ConfigTable, TLC

CONSTANTS k1, k2, k3, k4

MCKeys == {k1, k2, k3, k4}
MCHash == (k1 :> 4) @@ (k2 :> 4) @@ (k3 :> 4) @@ (k4 :> 0)
================================================================================
