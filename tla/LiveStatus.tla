------------------------------ MODULE LiveStatus ------------------------------
(***************************************************************************)
(* The row AtmLiveStatus under its two writers: the event processor, which *)
(* reads the row, computes every column and updates it under a compare on  *)
(* RowVersion, twice at most; and the heartbeat, which updates one column  *)
(* whatever the version.  Ingestion knows an event that loses the compare  *)
(* only as one of those that fail; here is when that happens.              *)
(*                                                                         *)
(* Data abstractions:                                                      *)
(*   - an event either says something of an attribute (CurrentStatus,      *)
(*     SupervisorMode, ...) and of a cassette, or nothing (NoValue);       *)
(*   - RowVersion is a counter of the writes to the row;                   *)
(*   - the clock ticks whenever somebody reads it.                         *)
(*                                                                         *)
(* The processor handles one event at a time, in a session of its own.  A  *)
(* row it has written is locked until it commits (SQL Server, READ         *)
(* COMMITTED), so that its write and its commit are one step.              *)
(***************************************************************************)
EXTENDS Integers, Sequences, FiniteSets, Functions

CONSTANTS
    Events,           \* the parsed events
    TimeOf,           \* EventTime
    Attributes,       \* columns an event sets to what it says of them
    Says,             \* what an event says of each attribute, or NoValue
    Cassettes,        \* cassette numbers
    NotesOf,          \* RemainingNotes by cassette in an event's snapshots, or NoValue
    DenominationOf,   \* Denomination by cassette in an event's snapshots, or NoValue
    DefaultDenomination,  \* c_denoms
    NoValue,          \* None
    Attempts,         \* concurrency_attempts
    MaxBeats,         \* bound: heartbeats
    MaxClock          \* bound: the clock at which the last event may be begun

ASSUME LiveStatusAssumption ==
    /\ NoValue \notin Nat
    /\ NoValue \notin Events
    /\ IsFiniteSet(Cassettes)
    /\ TimeOf \in [Events -> Nat]
    /\ NotesOf \in [Events -> [Cassettes -> Nat \cup {NoValue}]]
    /\ DenominationOf \in [Events -> [Cassettes -> Nat \cup {NoValue}]]
    /\ DefaultDenomination \in [Cassettes -> Nat]
    /\ Attempts \in Nat \ {0} /\ MaxBeats \in Nat /\ MaxClock \in Nat

VARIABLES
    row,        \* AtmLiveStatus: content, agent heartbeat, RowVersion; or NoRow
    stored,     \* committed rows of ATMEvents
    tx,         \* the processor's transaction and its copy of the row
    hb,         \* the heartbeat's transaction
    clock,
    \* Bookkeeping, read by properties only: the events in the order in which
    \* their status updates were committed; the failures reported, with the
    \* event, the cause and the heartbeats committed since the first read.
    applied,
    failed,
    \* Bookkeeping for the bound MaxBeats.
    beats

vars == <<row, stored, tx, hb, clock, applied, failed, beats>>

\* The columns as a new ATMLiveStatus has them.
FreshContent ==
    [said |-> [a \in Attributes |-> NoValue], last |-> NoValue,
     notes |-> [c \in Cassettes |-> NoValue],
     total |-> NoValue, cash |-> NoValue, available |-> TRUE]

NoRow == [content |-> FreshContent, beat |-> 0, version |-> 0]
Present == row.version # 0

SX == INSTANCE SequencesExt

\* What a reader of the two tables sees who looks at the last event only.
Promise == INSTANCE EventStore WITH
    Blocks  <- Events,
    SeqOf   <- [e \in Events |-> e],
    NoEvent <- NoValue,
    events  <- stored,
    live    <- row.content.last

-----------------------------------------------------------------------------
(* What an event does to the columns: _apply_status_updates. *)

OrElse(new, old) == IF new = NoValue THEN old ELSE new

Denomination(e, c) == OrElse(DenominationOf[e][c], DefaultDenomination[c])

\* Mutation: only the cassettes of this event are counted.
CountedThisEvent(e, notes) == {c \in Cassettes : NotesOf[e][c] # NoValue}

Counted(e, notes) == {c \in Cassettes : notes[c] # NoValue}

Apply(content, e) ==
    LET notes   == [c \in Cassettes |-> OrElse(NotesOf[e][c], content.notes[c])]
        counted == Counted(e, notes)
        total   == SumFunctionOnSet(notes, counted)
        cash    == SumFunctionOnSet([c \in counted |-> notes[c] * Denomination(e, c)], counted)
    IN  [said  |-> [a \in Attributes |-> OrElse(Says[e][a], content.said[a])],
         last  |-> e,
         notes |-> notes,
         total |-> IF counted = {} THEN content.total ELSE total,
         cash  |-> IF counted = {} THEN content.cash ELSE cash,
         available |-> IF counted = {} THEN content.available ELSE total > 0]

-----------------------------------------------------------------------------
(* The event processor. *)

NoTx == [pc |-> "idle", event |-> NoValue, attempt |-> 0, copy |-> NoRow, beats |-> 0]

\* A transaction of its own for each event: duplicate check and INSERTs, seen
\* by nobody before the commit.  The parser may hand in the same batch again
\* after a failure of its own: an event that was rolled back gets another
\* transaction, one that is stored ends at the duplicate check.
BeginEvent(e) ==
    /\ tx.pc = "idle"
    /\ e \notin stored
    /\ clock < MaxClock
    /\ tx' = [NoTx EXCEPT !.pc = "read", !.event = e]
    /\ UNCHANGED <<row, stored, hb, clock, applied, failed, beats>>

Failure(cause) == [event |-> tx.event, cause |-> cause, beats |-> tx.beats]

\* The commit takes effect.  When its answer is lost, session.commit() raises:
\* the event is reported as failed although it is stored.
Commit ==
    /\ tx' = NoTx
    /\ stored' = stored \cup {tx.event}
    /\ failed' \in {failed, failed \cup {Failure("commit")}}

\* Mutation: the version of an object that was never loaded.
UnloadedVersion == tx.copy.version

\* get_by_atm_id.  The session has an identity map: a query for a row that it
\* has already loaded returns the object that is there.  The failed UPDATE
\* expires the columns in its VALUES, which are read again, but not RowVersion.
LoadedVersion == IF tx.attempt = 0 THEN row.version ELSE tx.copy.version

\* Mutation: no timestamp protection.
NothingShown == FALSE

NewerShown ==
    row.content.last # NoValue /\ TimeOf[row.content.last] > TimeOf[tx.event]

\* No newer event on display: the columns are computed in the copy.
ReadStatus ==
    /\ tx.pc = "read" /\ Present /\ ~NewerShown
    /\ clock' = clock + 1
    /\ tx' = [tx EXCEPT !.pc = "update",
                        !.copy = [content |-> Apply(row.content, tx.event),
                                  beat    |-> clock',
                                  version |-> LoadedVersion]]
    /\ UNCHANGED <<row, stored, hb, applied, failed, beats>>

\* Timestamp protection: the event is committed, the row left alone.
KeepNewerStatus ==
    /\ tx.pc = "read" /\ Present /\ NewerShown
    /\ Commit
    /\ UNCHANGED <<row, hb, clock, applied, beats>>

\* No row yet: INSERT, then UPDATE of the row that this transaction has locked.
CreateStatus ==
    /\ tx.pc = "read" /\ ~Present
    /\ clock' = clock + 1
    /\ row' = [content |-> Apply(FreshContent, tx.event), beat |-> clock', version |-> 2]
    /\ applied' = Append(applied, tx.event)
    /\ Commit
    /\ UNCHANGED <<hb, beats>>

\* Mutation: no compare.
AnyVersion == TRUE

SameVersion == row.version = tx.copy.version

\* update_live_status finds the version it expects; commit.
UpdateStatus ==
    /\ tx.pc = "update" /\ SameVersion
    /\ row' = [tx.copy EXCEPT !.version = row.version + 1]
    /\ applied' = Append(applied, tx.event)
    /\ Commit
    /\ UNCHANGED <<hb, clock, beats>>

\* Mutation: the UPDATE is repeated without a count or a reload.
RetryInPlace == tx.pc = "update" /\ ~SameVersion /\ UNCHANGED vars

\* Mutation: one attempt too many.
RetryOnceMore ==
    /\ tx.pc = "update" /\ ~SameVersion
    /\ tx.attempt + 1 <= Attempts
    /\ tx' = [tx EXCEPT !.pc = "read", !.attempt = @ + 1]
    /\ UNCHANGED <<row, stored, hb, clock, applied, failed, beats>>

\* It does not, and an attempt is left.
TryAgain ==
    /\ tx.pc = "update" /\ ~SameVersion
    /\ tx.attempt + 1 < Attempts
    /\ tx' = [tx EXCEPT !.pc = "read", !.attempt = @ + 1]
    /\ UNCHANGED <<row, stored, hb, clock, applied, failed, beats>>

RollBack(cause) ==
    /\ failed' = failed \cup {Failure(cause)}
    /\ tx' = NoTx
    /\ UNCHANGED <<row, stored, hb, clock, applied, beats>>

\* It does not, and no attempt is left: raise, roll the event back too.
LoseEvent ==
    /\ tx.pc = "update" /\ ~SameVersion
    /\ tx.attempt + 1 = Attempts
    /\ RollBack("conflict")

\* Any other exception from the database before the commit takes effect.
DatabaseError == tx.pc # "idle" /\ RollBack("database")

-----------------------------------------------------------------------------
(* The heartbeat: _send_heartbeat. *)

NoBeat == [pc |-> "idle", seen |-> NoRow, beat |-> 0]

BeginBeat ==
    /\ hb.pc = "idle" /\ beats < MaxBeats
    /\ beats' = beats + 1
    /\ hb' = [pc |-> "loaded", seen |-> row, beat |-> clock + 1]
    /\ clock' = clock + 1
    /\ UNCHANGED <<row, stored, tx, applied, failed>>

\* Mutation: every column of the loaded row is written.
WriteWholeRow == [hb.seen EXCEPT !.beat = hb.beat, !.version = row.version + 1]

\* The flush writes the columns that were assigned.
WriteBeat == [row EXCEPT !.beat = hb.beat, !.version = @ + 1]

\* No row was found: only ATMs is written.
CommitBeat ==
    /\ hb.pc = "loaded" /\ hb' = NoBeat
    /\ row' = IF hb.seen.version = 0 THEN row ELSE WriteBeat
    /\ tx' = IF hb.seen.version # 0 /\ (tx.pc = "update" \/ tx.attempt > 0)
             THEN [tx EXCEPT !.beats = @ + 1] ELSE tx
    /\ UNCHANGED <<stored, clock, applied, failed, beats>>

BeatFails ==
    /\ hb.pc = "loaded" /\ hb' = NoBeat
    /\ UNCHANGED <<row, stored, tx, clock, applied, failed, beats>>

-----------------------------------------------------------------------------
Init ==
    /\ row = NoRow /\ stored = {} /\ tx = NoTx /\ hb = NoBeat /\ clock = 0
    /\ applied = <<>> /\ failed = {} /\ beats = 0

Attempt == ReadStatus \/ KeepNewerStatus \/ CreateStatus
           \/ UpdateStatus \/ TryAgain \/ LoseEvent
Heartbeat == BeginBeat \/ CommitBeat \/ BeatFails

Next == (\E e \in Events : BeginEvent(e)) \/ Attempt \/ DatabaseError \/ Heartbeat

\* The processor's thread runs.  Nothing is assumed of the heartbeat.
Spec == Init /\ [][Next]_vars /\ WF_vars(Attempt)

-----------------------------------------------------------------------------
(* Properties *)

Contents == [said : [Attributes -> {NoValue} \cup {Says[e][a] : e \in Events, a \in Attributes}],
             last : Events \cup {NoValue},
             notes : [Cassettes -> Nat \cup {NoValue}],
             total : Nat \cup {NoValue}, cash : Nat \cup {NoValue}, available : BOOLEAN]
StatusRows == [content : Contents, beat : Nat, version : Nat]

\* Every variable has its type.
TypeOK ==
    /\ row \in StatusRows
    /\ stored \subseteq Events
    /\ tx \in [pc : {"idle", "read", "update"}, event : Events \cup {NoValue},
              attempt : 0..(Attempts - 1), copy : StatusRows, beats : Nat]
    /\ hb \in [pc : {"idle", "loaded"}, seen : StatusRows, beat : Nat]
    /\ clock \in Nat
    /\ applied \in Seq(Events)
    /\ failed \subseteq [event : Events, cause : {"conflict", "database", "commit"}, beats : Nat]
    /\ beats \in 0..MaxBeats

\* The row is what the committed events make of a fresh one, in the order of
\* their commits, each of them applied once and in full: no heartbeat undoes an
\* update that it overtook, no second attempt applies an event twice, nor does
\* the parser's retry of one that failed or seemed to, and what a rolled back
\* attempt computed leaves no trace (process_result and _send_heartbeat).
RowIsReplay ==
    /\ Present <=> applied # <<>>
    /\ row.content = SX!FoldLeft(Apply, FreshContent, applied)
    /\ Range(applied) \subseteq stored /\ IsInjective(applied)

\* The totals on display are those of the cassettes on display, although an
\* event reports some cassettes only (_apply_status_updates, cash counts).
TotalsAgree ==
    LET notes == row.content.notes
        known == {c \in Cassettes : notes[c] # NoValue}
    IN  known # {} => /\ row.content.total = SumFunctionOnSet(notes, known)
                      /\ row.content.available = (row.content.total > 0)

\* An event loses the compare on RowVersion only to a heartbeat: the processor
\* never conflicts with a write of its own (LiveStatusRepository).
ConflictHasCause == \A f \in failed : f.cause = "conflict" => f.beats > 0

\* Only a heartbeat's own commit may put LastAgentHeartbeat back.  The update
\* of an event writes the time at which it computed the columns, and must not
\* overwrite a heartbeat that has come in since (optimistic concurrency).
BeatsNotLost ==
    [][row'.beat < row.beat => hb.pc = "loaded" /\ hb'.pc = "idle"]_vars

\* Seen through the two tables only, this is what EventStore promises.
PromiseKept == Promise!StoreSpec

\* An event that has been begun is committed or given up: conflicts do not keep
\* the processor from the next one (concurrency_attempts).
EventSettled == \A e \in Events : (tx.event = e) ~> (tx.event # e)

=============================================================================
