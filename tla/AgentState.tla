------------------------------ MODULE AgentState ------------------------------
(***************************************************************************)
(* Three things the agent keeps up to date and that share no state: the    *)
(* row AtmLiveStatus (LiveStatus), its copy of the configuration           *)
(* (SettingsCache) and its log directories (LogRetention).  A behaviour    *)
(* shows one of them at work and the other two at rest.                    *)
(***************************************************************************)
EXTENDS LiveStatus, SettingsCache, LogRetention

VARIABLE atWork

agentVars == <<vars, settingsVars, logVars, atWork>>

\* A component at rest has one initial state only.
AgentInit ==
    /\ Init /\ SettingsInit /\ LogInit
    /\ \/ atWork \in {"status", "logs"} /\ table = EmptyTable
       \/ atWork = "settings"

StatusStep(A) == atWork = "status" /\ A /\ UNCHANGED <<settingsVars, logVars, atWork>>
SettingsStep(A) == atWork = "settings" /\ A /\ UNCHANGED <<vars, logVars, atWork>>
LogStep(A) == atWork = "logs" /\ A /\ UNCHANGED <<vars, settingsVars, atWork>>

AgentNext == StatusStep(Next) \/ SettingsStep(SettingsNext) \/ LogStep(LogNext)

\* Each component's own fairness, while it is the one at work.
AgentFairness ==
    /\ WF_agentVars(StatusStep(Attempt))
    /\ WF_agentVars(SettingsStep(Tick))
    /\ \A w \in Workers :
        /\ SF_agentVars(SettingsStep(Ask(w)))
        /\ WF_agentVars(SettingsStep(Load(w)))

AgentSpec == AgentInit /\ [][AgentNext]_agentVars /\ AgentFairness

-----------------------------------------------------------------------------
\* The type invariants of all three, as one.
TypesOK == TypeOK /\ SettingsTypeOK /\ LogTypeOK
=============================================================================
