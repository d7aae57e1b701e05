---------------------------- MODULE SettingsCache ----------------------------
(***************************************************************************)
(* AgentSettingsCache (src/agent/settings.py): the agent's threads ask for *)
(* the configuration before every heartbeat, every scan and every cleanup, *)
(* and are served a copy for 300 seconds before the AgentSettings table is *)
(* read again.  The row is edited, removed and spoilt by others meanwhile, *)
(* and the database comes and goes.                                        *)
(*                                                                         *)
(* load_settings runs under the cache's lock, so there is one load at a    *)
(* time; the clock is read when it begins and the row some time later.     *)
(* Configurations are opaque: all that matters is whether they pass the    *)
(* validation, and which of them is which.                                 *)
(***************************************************************************)
EXTENDS Naturals

CONSTANTS
    Configs,              \* the rows that pass the validation
    Invalid,              \* a row that does not
    EmptyTable,           \* the table is empty
    DefaultSettings,      \* the configuration that the code builds when it is
    Nothing,              \* None: no configuration
    Raised,               \* the call raised
    Workers,              \* the threads that call get_settings
    Lifetime,             \* ticks a copy is served for: 300 seconds
    MaxEdits              \* bound: changes of the table

\* A lifetime, and the values that the code tells apart.
ASSUME SettingsAssumption ==
    /\ Lifetime \in Nat \ {0} /\ MaxEdits \in Nat
    /\ Configs \cap {Invalid, EmptyTable, DefaultSettings, Nothing, Raised} = {}

VARIABLES
    table,                \* the first row of AgentSettings
    db_up,                \* the database answers
    cached,               \* _cached_settings
    age,                  \* ticks since _last_loaded, up to Lifetime; Lifetime if None
    loader,               \* the thread that holds the lock to load, or Nothing
    since,                \* ticks since that thread took the time, up to Lifetime
    answer,               \* what each thread's last call gave it
    gone,                 \* bookkeeping: ticks since the table last held a configuration
    edits                 \* bookkeeping for the bound MaxEdits

settingsVars == <<table, db_up, cached, age, loader, since, answer, gone, edits>>
environment == <<table, db_up, gone, edits>>

Rows == Configs \cup {Invalid, EmptyTable}
Answers == Configs \cup {DefaultSettings, Nothing, Raised}

Later(n) == IF n < Lifetime THEN n + 1 ELSE Lifetime

-----------------------------------------------------------------------------
(* The world around the cache. *)

\* An operator changes, spoils or removes the row.
Edit(row) ==
    /\ edits < MaxEdits /\ row # table
    /\ table' = row
    /\ gone' = IF row \in Configs THEN [gone EXCEPT ![row] = 0] ELSE gone
    /\ edits' = edits + 1
    /\ UNCHANGED <<db_up, cached, age, loader, since, answer>>

\* The database goes away or comes back.
Switch ==
    /\ db_up' = ~db_up
    /\ UNCHANGED <<table, cached, age, loader, since, answer, gone, edits>>

\* Time passes, for a load that is under way as well.
Tick ==
    /\ age' = Later(age)
    /\ since' = IF loader = Nothing THEN since ELSE Later(since)
    /\ gone' = [c \in Configs |-> IF c = table THEN 0 ELSE Later(gone[c])]
    /\ UNCHANGED <<table, db_up, cached, loader, answer, edits>>

-----------------------------------------------------------------------------
(* load_settings *)

Fresh == cached # Nothing /\ age < Lifetime

\* Mutation: every hit prolongs the copy's life.
ServeSliding(w) ==
    /\ loader = Nothing /\ Fresh
    /\ answer' = [answer EXCEPT ![w] = cached]
    /\ age' = 0
    /\ UNCHANGED <<environment, cached, loader, since>>

\* Serve from the cache if loaded less than 300 seconds ago.
Serve(w) ==
    /\ loader = Nothing /\ Fresh
    /\ answer' = [answer EXCEPT ![w] = cached]
    /\ UNCHANGED <<environment, cached, age, loader, since>>

\* Take the time, then open a session.
BeginLoad(w) ==
    /\ loader = Nothing /\ ~Fresh
    /\ loader' = w /\ since' = 0
    /\ UNCHANGED <<environment, cached, age, answer>>

\* The load of thread w ends: the lock is free, and the call gives or raises a.
EndLoad(w, a) ==
    /\ loader = w
    /\ loader' = Nothing /\ since' = 0
    /\ answer' = [answer EXCEPT ![w] = a]
    /\ UNCHANGED environment

\* A valid row: detached from its session, cached, _last_loaded = now.
LoadValid(w) ==
    /\ db_up /\ table \in Configs
    /\ cached' = table /\ age' = since
    /\ EndLoad(w, table)

\* Mutation: the failed validation counts as a load.
KeepAndRenew(w) ==
    /\ db_up /\ table = Invalid /\ cached # Nothing
    /\ EndLoad(w, cached)
    /\ age' = since
    /\ UNCHANGED cached

\* The validation failed: keep the previous configuration, and its age.
KeepPrevious(w) ==
    /\ db_up /\ table = Invalid /\ cached # Nothing
    /\ EndLoad(w, cached)
    /\ UNCHANGED <<cached, age>>

\* There is no previous one: None, with _last_loaded = now.
LoadNothing(w) ==
    /\ db_up /\ table = Invalid /\ cached = Nothing
    /\ age' = since
    /\ EndLoad(w, Nothing)
    /\ UNCHANGED cached

\* An empty table: the defaults pass the validation, and expunge raises since
\* no session has ever known them.
ExpungeRaises(w) ==
    /\ db_up /\ table = EmptyTable
    /\ EndLoad(w, Raised)
    /\ UNCHANGED <<cached, age>>

\* The query raises, whatever is cached.
QueryRaises(w) ==
    /\ ~db_up
    /\ EndLoad(w, Raised)
    /\ UNCHANGED <<cached, age>>

Ask(w) == Serve(w) \/ BeginLoad(w)

Load(w) ==
    \/ LoadValid(w) \/ KeepPrevious(w) \/ LoadNothing(w)
    \/ ExpungeRaises(w) \/ QueryRaises(w)

-----------------------------------------------------------------------------
SettingsInit ==
    /\ table \in Rows /\ db_up = TRUE
    /\ cached = Nothing /\ age = Lifetime
    /\ loader = Nothing /\ since = 0
    /\ answer = [w \in Workers |-> Nothing]
    /\ gone = [c \in Configs |-> IF c = table THEN 0 ELSE Lifetime]
    /\ edits = 0

SettingsNext ==
    \/ \E row \in Rows : Edit(row)
    \/ Switch \/ Tick
    \/ \E w \in Workers : Ask(w) \/ Load(w)

SettingsSpec == SettingsInit /\ [][SettingsNext]_settingsVars

\* Threads call again and again (HeartbeatService._run, _polling_loop) and a
\* load ends.  The lock is free most of the time, since a thread sleeps between
\* two calls: one that keeps on asking gets it.
SettingsFairness ==
    /\ WF_settingsVars(Tick)
    /\ \A w \in Workers : SF_settingsVars(Ask(w)) /\ WF_settingsVars(Load(w))

SettingsFairSpec == SettingsSpec /\ SettingsFairness

-----------------------------------------------------------------------------
(* Properties *)

\* Every variable has its type.
SettingsTypeOK ==
    /\ table \in Rows /\ db_up \in BOOLEAN
    /\ cached \in Configs \cup {Nothing}
    /\ age \in 0..Lifetime /\ since \in 0..Lifetime
    /\ loader \in Workers \cup {Nothing}
    /\ answer \in [Workers -> Answers]
    /\ gone \in [Configs -> 0..Lifetime]
    /\ edits \in 0..MaxEdits

\* The strengthening that BoundedStaleness needs: while a copy may be served,
\* the table held it no longer ago than the copy is old.
CopyIsRecent == Fresh => gone[cached] <= age

\* A thread is given a configuration that the table held less than Lifetime
\* ago, unless this very call read a row that fails the validation.  So a
\* spoilt row never outlives its repair by more than the call that reads it,
\* although the copy that was kept may be far older than Lifetime.
BoundedStaleness ==
    [][\A w \in Workers :
         (Serve(w) \/ Load(w)) /\ answer'[w] \in Configs
            => gone[answer'[w]] < Lifetime \/ (loader = w /\ table = Invalid)]_settingsVars

\* heartbeat_service.py:53 and file_monitor_service.py:115, "adapt changes":
\* when the table holds one valid configuration for good and the database
\* stays, every thread ends up using it, and goes on using it.
ConfigAdopted ==
    \A c \in Configs :
        <>[](table = c /\ db_up) => <>[](\A w \in Workers : answer[w] = c)
=============================================================================
