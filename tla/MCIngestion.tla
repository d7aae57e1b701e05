----------------------------- MODULE MCIngestion -----------------------------
(***************************************************************************)
(* Instances of Ingestion for TLC: small journals with the shapes that     *)
(* matter.                                                                 *)
(***************************************************************************)
EXTENDS Ingestion

\* Sequence number 2 comes before 1, and after a wrap 1 is used again.
SeqsOutOfOrder == <<2, 1, 1>>
TimesOutOfOrder == <<2, 1, 3>>

\* Two blocks in order.
SeqsInOrder == <<1, 2>>
TimesInOrder == <<1, 2>>
=============================================================================
