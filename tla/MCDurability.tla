----------------------------- MODULE MCDurability -----------------------------
(***************************************************************************)
(* The instances of MCIngestion on a database with delayed durability.     *)
(***************************************************************************)
EXTENDS DelayedDurability, MCIngestion
=============================================================================
