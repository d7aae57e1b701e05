------------------------- MODULE SettingsCacheProofs -------------------------
(***************************************************************************)
(* What the agent's threads are served by AgentSettingsCache, for every    *)
(* set of threads and configurations, every lifetime of a copy and every   *)
(* number of edits.                                                        *)
(***************************************************************************)
EXTENDS SettingsCache, TLAPS

\* The copy's age and what the table held are told by one clock.
Clocks ==
    /\ age \in 0..Lifetime /\ since \in 0..Lifetime
    /\ cached \in Configs \cup {Nothing}
    /\ gone \in [Configs -> 0..Lifetime]
    /\ table \in Configs => gone[table] = 0
    /\ answer \in [Workers -> Answers]

CacheInv == Clocks /\ CopyIsRecent

\* Later counts, up to Lifetime, and keeps the order of what it counts.
LEMMA LaterMonotone ==
    ASSUME NEW m \in 0..Lifetime, NEW n \in 0..Lifetime
    PROVE  /\ Later(m) \in 0..Lifetime
           /\ m <= n => Later(m) <= Later(n)
           /\ Later(n) < Lifetime => n < Lifetime
BY SettingsAssumption DEF Later

\* At first nothing is cached, and only the row in the table has just been seen.
LEMMA InitCache == SettingsInit => CacheInv
BY SettingsAssumption DEF SettingsInit, CacheInv, Clocks, CopyIsRecent, Fresh, Rows, Answers

\* The invariant is kept by what the world does: an edit can only make what the
\* table holds more recent, and both clocks go on together.
LEMMA WorldCache ==
    ASSUME CacheInv, (\E row \in Rows : Edit(row)) \/ Switch \/ Tick
    PROVE  CacheInv'
<1>1. ASSUME NEW row \in Rows, Edit(row) PROVE CacheInv'
  <2>1. gone' \in [Configs -> 0..Lifetime]
    BY <1>1, SettingsAssumption DEF CacheInv, Clocks, Edit
  <2>2. table' \in Configs => gone'[table'] = 0
    BY <1>1 DEF CacheInv, Clocks, Edit
  <2>3. \A c \in Configs : gone'[c] <= gone[c]
    BY <1>1, SettingsAssumption DEF CacheInv, Clocks, Edit
  <2>4. CopyIsRecent'
    BY <1>1, <2>1, <2>3, SettingsAssumption DEF CacheInv, Clocks, CopyIsRecent, Fresh, Edit
  <2> QED BY <1>1, <2>1, <2>2, <2>4 DEF CacheInv, Clocks, Edit
<1>2. ASSUME Switch PROVE CacheInv'
  BY <1>2 DEF Switch, CacheInv, Clocks, CopyIsRecent, Fresh
<1>3. ASSUME Tick PROVE CacheInv'
  <2>1. age' \in 0..Lifetime /\ since' \in 0..Lifetime
    BY <1>3, LaterMonotone DEF CacheInv, Clocks, Tick
  <2>2. gone' \in [Configs -> 0..Lifetime]
    BY <1>3, LaterMonotone, SettingsAssumption DEF CacheInv, Clocks, Tick
  <2>3. table' \in Configs => gone'[table'] = 0
    BY <1>3 DEF Tick
  <2>4. CopyIsRecent'
    <3> SUFFICES ASSUME Fresh' PROVE gone'[cached'] <= age'
      BY DEF CopyIsRecent
    <3>1. cached \in Configs /\ age < Lifetime /\ age' = Later(age)
      BY <1>3, LaterMonotone DEF Fresh, CacheInv, Clocks, Tick
    <3>2. gone[cached] <= age
      BY <3>1, SettingsAssumption DEF CacheInv, CopyIsRecent, Fresh
    <3>3. gone'[cached'] \in {0, Later(gone[cached])}
      BY <1>3, <3>1 DEF Tick
    <3> QED BY <3>1, <3>2, <3>3, <2>1, LaterMonotone, SettingsAssumption DEF CacheInv, Clocks
  <2> QED BY <1>3, <2>1, <2>2, <2>3, <2>4 DEF CacheInv, Clocks, Tick
<1> QED BY <1>1, <1>2, <1>3

\* ... and by a call: a copy is taken of the row that the table holds now, and
\* whatever else a call does leaves the copy and its age alone.
LEMMA CallCache ==
    ASSUME CacheInv, NEW w \in Workers, Ask(w) \/ Load(w)
    PROVE  CacheInv'
<1>1. answer' \in [Workers -> Answers]
  <2>1. \A a \in Configs \cup {Nothing, Raised} :
          answer' = [answer EXCEPT ![w] = a] => answer' \in [Workers -> Answers]
    BY DEF CacheInv, Clocks, Answers
  <2>2. CASE Serve(w)
    BY <2>1, <2>2 DEF Serve, Fresh, CacheInv, Clocks
  <2>3. CASE BeginLoad(w)
    BY <2>3 DEF BeginLoad, CacheInv, Clocks
  <2>4. CASE LoadValid(w) \/ KeepPrevious(w)
    BY <2>1, <2>4 DEF LoadValid, KeepPrevious, EndLoad, CacheInv, Clocks
  <2>5. CASE LoadNothing(w) \/ ExpungeRaises(w) \/ QueryRaises(w)
    BY <2>1, <2>5 DEF LoadNothing, ExpungeRaises, QueryRaises, EndLoad
  <2> QED BY <2>2, <2>3, <2>4, <2>5 DEF Ask, Load
<1>2. table' = table /\ gone' = gone
  BY DEF Ask, Load, Serve, BeginLoad, LoadValid, KeepPrevious, LoadNothing,
    ExpungeRaises, QueryRaises, EndLoad, environment
<1>3. 0 \in 0..Lifetime
  BY SettingsAssumption
<1>4. CASE Serve(w) \/ BeginLoad(w)
  <2>1. cached' = cached /\ age' = age /\ since' \in 0..Lifetime
    BY <1>3, <1>4 DEF Serve, BeginLoad, CacheInv, Clocks
  <2> QED BY <1>1, <1>2, <2>1 DEF CacheInv, Clocks, CopyIsRecent, Fresh
<1>5. CASE LoadValid(w)
  <2>1. cached' = table /\ age' = since /\ since' = 0
    BY <1>5 DEF LoadValid, EndLoad
  <2>2. gone[table] = 0 /\ table \in Configs
    BY <1>5 DEF LoadValid, CacheInv, Clocks
  <2> QED BY <1>1, <1>2, <1>3, <2>1, <2>2, SettingsAssumption DEF CacheInv, Clocks, CopyIsRecent, Fresh
<1>6. CASE KeepPrevious(w) \/ ExpungeRaises(w) \/ QueryRaises(w)
  <2>1. cached' = cached /\ age' = age /\ since' = 0
    BY <1>6 DEF KeepPrevious, ExpungeRaises, QueryRaises, EndLoad
  <2> QED BY <1>1, <1>2, <1>3, <2>1 DEF CacheInv, Clocks, CopyIsRecent, Fresh
<1>7. CASE LoadNothing(w)
  <2>1. cached' = cached /\ cached = Nothing /\ age' = since /\ since' = 0
    BY <1>7 DEF LoadNothing, EndLoad
  <2> QED BY <1>1, <1>2, <1>3, <2>1 DEF CacheInv, Clocks, CopyIsRecent, Fresh
<1> QED BY <1>4, <1>5, <1>6, <1>7 DEF Ask, Load

\* Every state of the cache has the invariant.
THEOREM CopyRecent == SettingsSpec => []CacheInv
<1>1. SettingsInit => CacheInv
  BY InitCache
<1>2. CacheInv /\ [SettingsNext]_settingsVars => CacheInv'
  <2> SUFFICES ASSUME CacheInv, [SettingsNext]_settingsVars PROVE CacheInv'
    OBVIOUS
  <2>1. CASE SettingsNext
    BY <2>1, WorldCache, CallCache DEF SettingsNext
  <2>2. CASE UNCHANGED settingsVars
    BY <2>2 DEF settingsVars, CacheInv, Clocks, CopyIsRecent, Fresh
  <2> QED BY <2>1, <2>2
<1> QED BY <1>1, <1>2, PTL DEF SettingsSpec

\* BoundedStaleness (load_settings): a thread is given what the table held less
\* than Lifetime ago, unless its own call has just read a spoilt row.
THEOREM StalenessBounded == SettingsSpec => BoundedStaleness
<1>1. CacheInv /\ [SettingsNext]_settingsVars =>
        [\A w \in Workers :
           (Serve(w) \/ Load(w)) /\ answer'[w] \in Configs
             => gone[answer'[w]] < Lifetime \/ (loader = w /\ table = Invalid)]_settingsVars
  <2> SUFFICES ASSUME CacheInv, NEW w \in Workers, Serve(w) \/ Load(w), answer'[w] \in Configs
               PROVE  gone[answer'[w]] < Lifetime \/ (loader = w /\ table = Invalid)
    OBVIOUS
  <2>1. CASE Serve(w)
    <3>1. Fresh /\ answer'[w] = cached
      BY <2>1 DEF Serve, CacheInv, Clocks
    <3>2. cached \in Configs /\ gone[cached] <= age /\ age < Lifetime
      BY <3>1 DEF Fresh, CacheInv, Clocks, CopyIsRecent
    <3> QED BY <3>1, <3>2, SettingsAssumption DEF CacheInv, Clocks
  <2>2. CASE LoadValid(w)
    <3>1. answer'[w] = table /\ table \in Configs
      BY <2>2 DEF LoadValid, EndLoad, CacheInv, Clocks
    <3> QED BY <3>1, SettingsAssumption DEF CacheInv, Clocks
  <2>3. CASE KeepPrevious(w)
    BY <2>3 DEF KeepPrevious, EndLoad
  <2>4. CASE LoadNothing(w)
    <3>1. answer'[w] = Nothing
      BY <2>4 DEF LoadNothing, EndLoad, CacheInv, Clocks
    <3> QED BY <3>1, SettingsAssumption
  <2>5. CASE ExpungeRaises(w) \/ QueryRaises(w)
    <3>1. answer'[w] = Raised
      BY <2>5 DEF ExpungeRaises, QueryRaises, EndLoad, CacheInv, Clocks
    <3> QED BY <3>1, SettingsAssumption
  <2> QED BY <2>1, <2>2, <2>3, <2>4, <2>5 DEF Load
<1> QED BY <1>1, CopyRecent, PTL DEF SettingsSpec, BoundedStaleness

\* Every variable has its type: ages and clocks stop at Lifetime, and a thread is
\* given a configuration, nothing or an exception.
THEOREM CacheTypes == SettingsSpec => []SettingsTypeOK
<1>1. SettingsInit => SettingsTypeOK
  BY SettingsAssumption DEF SettingsInit, SettingsTypeOK, Rows, Answers
<1>2. CacheInv /\ CacheInv' /\ SettingsTypeOK /\ [SettingsNext]_settingsVars => SettingsTypeOK'
  <2> SUFFICES ASSUME CacheInv, CacheInv', SettingsTypeOK, [SettingsNext]_settingsVars
               PROVE  SettingsTypeOK'
    OBVIOUS
  <2>1. /\ cached' \in Configs \cup {Nothing} /\ age' \in 0..Lifetime /\ since' \in 0..Lifetime
        /\ answer' \in [Workers -> Answers] /\ gone' \in [Configs -> 0..Lifetime]
    BY DEF CacheInv, Clocks
  <2>2. ASSUME NEW row \in Rows, Edit(row)
        PROVE  /\ table' \in Rows /\ edits' \in 0..MaxEdits
               /\ UNCHANGED <<db_up, loader>>
    BY <2>2, SettingsAssumption DEF Edit, SettingsTypeOK
  <2>3. ASSUME Switch \/ Tick
        PROVE  UNCHANGED <<table, edits, loader>> /\ db_up' \in BOOLEAN
    BY <2>3 DEF Switch, Tick, SettingsTypeOK
  <2>4. ASSUME NEW w \in Workers, Ask(w) \/ Load(w)
        PROVE  /\ UNCHANGED <<table, db_up, edits>>
               /\ loader' \in Workers \cup {Nothing}
    BY <2>4 DEF Ask, Load, Serve, BeginLoad, LoadValid, KeepPrevious, LoadNothing,
       ExpungeRaises, QueryRaises, EndLoad, environment, SettingsTypeOK
  <2>5. CASE UNCHANGED settingsVars
    BY <2>5 DEF settingsVars, SettingsTypeOK
  <2> QED BY <2>1, <2>2, <2>3, <2>4, <2>5 DEF SettingsNext, SettingsTypeOK
<1> QED BY <1>1, <1>2, CopyRecent, PTL DEF SettingsSpec
=============================================================================
