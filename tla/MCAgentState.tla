----------------------------- MODULE MCAgentState -----------------------------
(***************************************************************************)
(* An instance of AgentState for TLC: the events of MCLiveStatus, two      *)
(* configurations for two threads, three rotated logs.                     *)
(***************************************************************************)
EXTENDS AgentState, MCLiveStatus

CONSTANTS c1, c2, w1, w2
=============================================================================
