------------------------------ MODULE Ingestion ------------------------------
(***************************************************************************)
(* How the agent turns the ATM's electronic journal (EJ) into database     *)
(* rows: ParserService.process_file, EventProcessorService.process_result, *)
(* read_appended_lines and the circuit breaker, between a journal that the *)
(* ATM appends to and replaces, a SQL Server that goes away and comes      *)
(* back, and an agent process that dies at any step.                       *)
(*                                                                         *)
(* Data abstractions:                                                      *)
(*   - a block is a header line and one line standing for its body; line   *)
(*     counts stand for byte offsets;                                      *)
(*   - a header without its body matches no operational pattern, so the    *)
(*     parser yields a warning for it and no event;                        *)
(*   - the digest of the first n bytes of a file is the file's generation  *)
(*     and n: it never collides between two files, except when n = 0.      *)
(*                                                                         *)
(* process_file runs under FileMonitorService.lock, so there is at most    *)
(* one scan: one program counter.                                          *)
(***************************************************************************)
EXTENDS Integers, FiniteSets

CONSTANTS
    NBlocks,              \* the ATM writes blocks 1, 2, ..., NBlocks
    SeqOf,                \* EventSequenceNumber in the header of a block
    TimeOf,               \* EventTime in the header of a block
    Unhandled,            \* blocks matching no operational pattern, or an ignore pattern
    MaxChunk,             \* lines one scan reads at most (max_bytes)
    Prefix,               \* lines the header digest covers at most (8192 bytes)
    Threshold,            \* of the circuit breaker
    OutageKillsIdle,      \* an outage ends connections that have no request under way
    MaxFiles,             \* bound: generations of the journal file
    MaxMishaps            \* bound: crashes, and times a header digest cannot be computed

Blocks == 1..NBlocks
NoEvent == 0

ASSUME SizesAssumption ==
    /\ NBlocks \in Nat /\ MaxFiles \in Nat \ {0} /\ MaxMishaps \in Nat
    /\ MaxChunk \in Nat \ {0} /\ Prefix \in Nat \ {0} /\ Threshold \in Nat \ {0}
ASSUME BlocksAssumption ==
    /\ SeqOf \in [Blocks -> Nat] /\ TimeOf \in [Blocks -> Nat]
    /\ Unhandled \subseteq Blocks
    /\ OutageKillsIdle \in BOOLEAN

\* No two blocks share both sequence number and time, so the order of a batch
\* is total.  A block written twice is left out: parse_lines drops the second
\* within a batch, duplicate_check across batches.
ASSUME DistinctKeys ==
    \A a, b \in Blocks : SeqOf[a] = SeqOf[b] /\ TimeOf[a] = TimeOf[b] => a = b

VARIABLES
    \* The journal file, and the block the ATM writes next.
    file,
    next,
    \* SQL Server: reachable or not, and its tables AgentFileState (one row),
    \* ATMEvents, AtmLiveStatus (one row) and AgentHealthLog.
    db_up,
    fstate,
    events,
    live,
    health,
    \* The scan: where it is, its open transaction on AgentFileState, whether
    \* that connection still works, and the parsed events left to process.
    pc,
    tx,
    conn,
    pending,
    \* The circuit breaker.
    cb_state, failure_count, cooled,
    \* Bookkeeping, read by properties only: blocks that a committed offset
    \* passed over without an event transaction that succeeded, with the cause.
    dropped,
    \* Bookkeeping for the bound MaxMishaps.
    mishaps

journalVars == <<file, next>>
storeVars   == <<events, live>>
cbVars      == <<cb_state, failure_count, cooled>>
scanVars    == <<pc, tx, conn, pending>>
vars == <<journalVars, db_up, fstate, storeVars, health, scanVars, cbVars,
          dropped, mishaps>>

CB == INSTANCE CircuitBreaker
Store == INSTANCE EventStore

Causes == {"failed", "split", "skipped"}
Least(a, b) == IF a < b THEN a ELSE b

-----------------------------------------------------------------------------
(* The journal file. *)

\* Line number of a block's header in the current file; its body follows.
HeadLine(b) == 2 * (b - file.first) + 1

\* The last block in the file has its header but not yet its body.
MidBlock == next > file.first /\ HeadLine(next - 1) = file.len

Written == {b \in Blocks : file.first <= b /\ b < next}

\* _get_header_hash: the digest of nothing is the same for every empty file,
\* and "" stands for no file and for one that cannot be opened or read just
\* now, because another process holds it: the exception is swallowed.
NoHash == [gen |-> -1, len |-> 0]
Hash(n) ==
    LET k == Least(n, file.len) IN
    IF ~file.present THEN NoHash
    ELSE [gen |-> IF k = 0 THEN 0 ELSE file.gen, len |-> k]
Digests(n) == {Hash(n)} \cup {h \in {NoHash} : mishaps < MaxMishaps}

\* Bookkeeping: a digest of a file that is there could not be computed.
NoteUnread(failed) == mishaps' = IF failed /\ file.present THEN mishaps + 1 ELSE mishaps

\* The ATM appends a line: the body of the last block or the next header.
AppendLine ==
    /\ file.present
    /\ MidBlock \/ next \in Blocks
    /\ file' = [file EXCEPT !.len = @ + 1]
    /\ next' = IF MidBlock THEN next ELSE next + 1
    /\ UNCHANGED <<db_up, fstate, storeVars, health, scanVars, cbVars, dropped, mishaps>>

\* The ATM rotates the journal between two blocks: it moves the file away ...
RemoveFile ==
    /\ file.present /\ ~MidBlock /\ file.gen < MaxFiles
    /\ file' = [file EXCEPT !.present = FALSE]
    /\ UNCHANGED <<next, db_up, fstate, storeVars, health, scanVars, cbVars, dropped, mishaps>>

\* ... and starts a new one, or truncates the old one in place.
ReplaceFile ==
    /\ ~MidBlock /\ file.gen < MaxFiles
    /\ file' = [present |-> TRUE, gen |-> file.gen + 1, first |-> next, len |-> 0]
    /\ UNCHANGED <<next, db_up, fstate, storeVars, health, scanVars, cbVars, dropped, mishaps>>

-----------------------------------------------------------------------------
(* SQL Server as the agent sees it. *)

\* The server stops, or the network to it drops.  The connection of the open
\* transaction on AgentFileState idles through process_result: it dies with
\* the server, and may outlive a drop in which nothing is sent on it.
LoseDatabase ==
    /\ db_up /\ db_up' = FALSE
    /\ conn' \in IF OutageKillsIdle THEN {FALSE} ELSE {conn, FALSE}

Outage ==
    /\ LoseDatabase
    /\ UNCHANGED <<journalVars, fstate, storeVars, health, pc, tx, pending, cbVars, dropped, mishaps>>

Recover ==
    /\ ~db_up
    /\ db_up' = TRUE
    /\ UNCHANGED <<journalVars, fstate, storeVars, health, scanVars, cbVars, dropped, mishaps>>

-----------------------------------------------------------------------------
(* ParserService.process_file *)

\* No open transaction.  row is the transaction's copy of AgentFileState; its
\* gen, bookkeeping, is the file generation that row.offset counts in.  size
\* is file_size; to and gen are new_offset and the generation it counts in;
\* lost are the blocks this scan passes over; cur is the event that failed;
\* unread, bookkeeping, says that the check reset the offset for a digest it
\* could not compute.
NoRow == [exists |-> FALSE, offset |-> 0, hash |-> NoHash, gen |-> 0]
NoTx == [row |-> NoRow, size |-> 0, to |-> 0, gen |-> 0, lost |-> {}, cur |-> NoEvent,
         unread |-> FALSE]

CloseSession == tx' = NoTx /\ conn' = FALSE /\ pending' = {}

EndScan == pc' = "idle" /\ CloseSession

\* Mutation: the retry loop does not ask the breaker.
RetryForEver == CB!RecordFailure /\ pc' = "load" /\ CloseSession

\* Mutation: the retry loop does not tell the breaker.
RetryUncounted == UNCHANGED cbVars /\ pc' = "load" /\ CloseSession

\* except (OperationalError, ...): roll back, count the failure, and give up
\* when that opened the breaker, else back off and start over.
DatabaseError ==
    /\ CB!RecordFailure
    /\ pc' = IF cb_state' = "OPEN" THEN "idle" ELSE "load"
    /\ CloseSession

\* Circuit breaker check, then os.path.exists.
BeginScan ==
    /\ pc = "idle"
    /\ CB!CanExecute
    /\ pc' = IF file.present THEN "load" ELSE "idle"
    /\ UNCHANGED <<journalVars, db_up, fstate, storeVars, health, tx, conn, pending, dropped, mishaps>>

\* session.begin, get_file_state, getsize.
LoadFileState ==
    /\ pc = "load" /\ db_up /\ file.present
    /\ pc' = "check"
    /\ conn' = TRUE
    /\ tx' = [NoTx EXCEPT !.row = fstate, !.size = file.len]
    /\ UNCHANGED <<journalVars, db_up, fstate, storeVars, health, pending, cbVars, dropped, mishaps>>

LoadFails ==
    /\ pc = "load" /\ ~db_up
    /\ DatabaseError
    /\ UNCHANGED <<journalVars, db_up, fstate, storeVars, health, dropped, mishaps>>

\* getsize raises FileNotFoundError: the generic handler re-raises it, and
\* neither success nor failure reaches the breaker.
FileVanished ==
    /\ pc = "load" /\ db_up /\ ~file.present
    /\ EndScan
    /\ UNCHANGED <<journalVars, db_up, fstate, storeVars, health, cbVars, dropped, mishaps>>

\* The row as it is after "load or create" with header digest h.
LoadedRow(h) ==
    IF tx.row.exists THEN tx.row
    ELSE [exists |-> TRUE, offset |-> 0, hash |-> h, gen |-> file.gen]

\* How much of the file the header digest is compared on.
PrefixLen == IF tx.row.exists /\ tx.row.offset > 0 THEN Least(Prefix, tx.row.offset)
                                                  ELSE Prefix

\* Case A: the file shrank below the offset.  Case B: its header changed.
Rotated(row, h) ==
    \/ tx.size < row.offset
    \/ row.hash # NoHash /\ h # row.hash

\* The row after the check that computed h, and on rotation saves digest new.
CheckedRow(h, new) ==
    IF Rotated(LoadedRow(h), h)
    THEN [LoadedRow(h) EXCEPT !.offset = 0, !.hash = new, !.gen = file.gen]
    ELSE LoadedRow(h)

\* Creating the row needs the connection; detecting rotation only the file.
DetectRotation ==
    /\ pc = "check"
    /\ tx.row.exists \/ conn
    /\ \E h \in Digests(PrefixLen), new \in Digests(Prefix) :
           /\ tx' = [tx EXCEPT !.row = CheckedRow(h, new), !.size = 0,
                               !.unread = (h = NoHash /\ Rotated(LoadedRow(h), h))]
           /\ pc' = IF tx.size = CheckedRow(h, new).offset THEN "nothing" ELSE "read"
           /\ NoteUnread(NoHash \in {h, new})
    /\ UNCHANGED <<journalVars, db_up, fstate, storeVars, health, conn, pending, cbVars, dropped>>

CreateFails ==
    /\ pc = "check" /\ ~tx.row.exists /\ ~conn
    /\ DatabaseError
    /\ UNCHANGED <<journalVars, db_up, fstate, storeVars, health, dropped, mishaps>>

\* read_appended_lines: from the offset, or from 0 when the file is shorter.
ReadFrom == IF file.len < tx.row.offset THEN 0 ELSE tx.row.offset
ReadTo == Least(file.len, ReadFrom + MaxChunk)

\* _group_blocks and parse_lines on lines from+1 .. to: a block gives an event
\* if its header and its body are both there; lines before the first header
\* are dropped.
Parsed(from, to) ==
    {b \in Written \ Unhandled : from < HeadLine(b) /\ HeadLine(b) + 1 <= to}

\* Bookkeeping: the block cut by the end of the chunk, and what comes before
\* the offset if the offset was counted in another file.
PassedOver(from, to) ==
    {<<b, "split">> : b \in {c \in Written : from < to /\ HeadLine(c) = to}}
    \cup
    {<<b, "skipped">> : b \in {c \in Written : tx.row.gen # file.gen /\ HeadLine(c) <= from}}

ReadAppendedLines ==
    /\ pc = "read" /\ file.present /\ ReadFrom < ReadTo
    /\ pending' = Parsed(ReadFrom, ReadTo)
    /\ tx' = [tx EXCEPT !.row = NoRow, !.to = ReadTo, !.gen = file.gen,
                        !.lost = PassedOver(ReadFrom, ReadTo)]
    /\ pc' = "process"
    /\ UNCHANGED <<journalVars, db_up, fstate, storeVars, health, conn, cbVars, dropped, mishaps>>

\* The file is gone, was emptied, or stays locked through all five attempts.
ReadNothing ==
    /\ pc = "read"
    /\ pc' = "nothing"
    /\ UNCHANGED <<journalVars, db_up, fstate, storeVars, health, tx, conn, pending, cbVars, dropped, mishaps>>

\* No new lines: commit what DetectRotation did to the row.
CommitNothing ==
    /\ pc = "nothing" /\ conn
    /\ fstate' = tx.row
    /\ CB!RecordSuccess
    /\ EndScan
    /\ UNCHANGED <<journalVars, db_up, storeVars, health, dropped, mishaps>>

CommitNothingFails ==
    /\ pc = "nothing" /\ ~conn
    /\ DatabaseError
    /\ UNCHANGED <<journalVars, db_up, fstate, storeVars, health, dropped, mishaps>>

-----------------------------------------------------------------------------
(* EventProcessorService.process_result: one transaction per event, each in  *)
(* its own session, in the order of (EventSequenceNumber, EventTime).        *)

InOrder(a, b) == SeqOf[a] < SeqOf[b] \/ (SeqOf[a] = SeqOf[b] /\ TimeOf[a] <= TimeOf[b])

IsNext(b) == pc = "process" /\ b \in pending /\ \A c \in pending : InOrder(b, c)

\* Mutation: identify an event by sequence number and time.
KeyStored(b) == \E e \in events : SeqOf[e] = SeqOf[b] /\ TimeOf[e] = TimeOf[b]

\* duplicate_check.
SeqStored(b) == \E e \in events : SeqOf[e] = SeqOf[b]

\* The event is passed over.  (An IntegrityError of the INSERT, which ends the same,
\* is left out: models.py declares no constraint of ATMEvents that this agent, the
\* only writer, could violate.)
SkipDuplicate(b) ==
    /\ IsNext(b) /\ db_up /\ SeqStored(b)
    /\ pending' = pending \ {b}
    /\ UNCHANGED <<journalVars, db_up, fstate, storeVars, health, pc, tx, conn, cbVars, dropped, mishaps>>

\* Mutation: no timestamp protection.
WriteUnprotected(b) == events' = events \cup {b} /\ live' = b

\* Mutation: the live status is left to somebody else.
WriteRowOnly(b) == events' = events \cup {b} /\ UNCHANGED live

\* What the transaction writes: the event, and the live status unless that
\* shows a later event already.
WriteEvent(b) ==
    /\ events' = events \cup {b}
    /\ live' = IF live # NoEvent /\ TimeOf[live] > TimeOf[b] THEN live ELSE b

StoreEvent(b) ==
    /\ IsNext(b) /\ db_up /\ ~SeqStored(b)
    /\ WriteEvent(b)
    /\ pending' = pending \ {b}
    /\ UNCHANGED <<journalVars, db_up, fstate, health, pc, tx, conn, cbVars, dropped, mishaps>>

\* except Exception: the event is rolled back and the loop goes on.
GiveUp(b) ==
    /\ pending' = pending \ {b}
    /\ tx' = [tx EXCEPT !.lost = @ \cup {<<b, "failed">>}, !.cur = b]
    /\ pc' = "log"

\* The transaction fails: the database is away, or it is there and the status
\* update lost its optimistic lock twice or the row was refused.
EventFails(b) ==
    /\ IsNext(b)
    /\ db_up => ~SeqStored(b)
    /\ GiveUp(b)
    /\ UNCHANGED <<journalVars, db_up, fstate, storeVars, health, conn, cbVars, dropped, mishaps>>

\* The server commits and the connection dies before it says so.
EventAckLost(b) ==
    /\ IsNext(b) /\ ~SeqStored(b)
    /\ LoseDatabase
    /\ WriteEvent(b)
    /\ GiveUp(b)
    /\ UNCHANGED <<journalVars, fstate, health, cbVars, dropped, mishaps>>

\* Mutation: the failure is not recorded.
ForgetHealthError ==
    /\ pc = "log" /\ pc' = "process"
    /\ UNCHANGED <<journalVars, db_up, fstate, storeVars, health, tx, conn, pending, cbVars, dropped, mishaps>>

\* _log_health_error, in a session of its own; its own failure is swallowed.
LogHealthError ==
    /\ pc = "log"
    /\ health' = IF db_up THEN health \cup {SeqOf[tx.cur]} ELSE health
    /\ pc' = "process"
    /\ UNCHANGED <<journalVars, db_up, fstate, storeVars, tx, conn, pending, cbVars, dropped, mishaps>>

-----------------------------------------------------------------------------
(* Back in process_file: commit the new offset. *)

\* Mutation: digest the whole prefix, read or not.
WideHash == Digests(Prefix)

\* The digest covers no more than what has been read.
SavedHash == Digests(Least(Prefix, tx.to))

WriteFileState ==
    /\ \E h \in SavedHash :
           /\ fstate' = [exists |-> TRUE, offset |-> tx.to, hash |-> h, gen |-> tx.gen]
           /\ NoteUnread(h = NoHash)
    /\ dropped' = dropped \cup tx.lost

\* Mutation: the offset is saved before the events are.
AtSaveEarly == pc = "process"

\* process_result has been through all events of the batch.
AtSave == pc = "process" /\ pending = {}

\* Mutation: the offset is saved in a session of its own.
SaveInNewSession ==
    /\ AtSave /\ db_up
    /\ WriteFileState
    /\ CB!RecordSuccess
    /\ EndScan
    /\ UNCHANGED <<journalVars, db_up, storeVars, health>>

SaveFileState ==
    /\ AtSave /\ conn
    /\ WriteFileState
    /\ CB!RecordSuccess
    /\ EndScan
    /\ UNCHANGED <<journalVars, db_up, storeVars, health>>

SaveFails ==
    /\ AtSave /\ ~conn
    /\ DatabaseError
    /\ UNCHANGED <<journalVars, db_up, fstate, storeVars, health, dropped, mishaps>>

\* The commit succeeds and the connection dies before the server says so.
SaveAckLost ==
    /\ AtSave /\ conn
    /\ WriteFileState
    /\ DatabaseError
    /\ db_up' = FALSE
    /\ UNCHANGED <<journalVars, storeVars, health>>

-----------------------------------------------------------------------------
(* The agent process. *)

\* It dies: the server rolls back, memory is gone.
Crash ==
    /\ pc # "down" /\ mishaps < MaxMishaps
    /\ pc' = "down" /\ CloseSession
    /\ mishaps' = mishaps + 1
    /\ UNCHANGED <<journalVars, db_up, fstate, storeVars, health, cbVars, dropped>>

\* main gets past its startup checks: database up (exit 1), log path (exit 3).
Restart ==
    /\ pc = "down" /\ db_up /\ file.present
    /\ pc' = "idle"
    /\ cb_state' = "CLOSED" /\ failure_count' = 0 /\ cooled' = FALSE
    /\ UNCHANGED <<journalVars, db_up, fstate, storeVars, health, tx, conn, pending, dropped, mishaps>>

CooldownElapses ==
    /\ CB!CooldownElapses
    /\ UNCHANGED <<journalVars, db_up, fstate, storeVars, health, scanVars, dropped, mishaps>>

-----------------------------------------------------------------------------
Init ==
    /\ file = [present |-> TRUE, gen |-> 1, first |-> 1, len |-> 0]
    /\ next = 1
    /\ db_up = TRUE
    /\ fstate = NoRow
    /\ events = {} /\ live = NoEvent /\ health = {}
    /\ pc = "idle" /\ tx = NoTx /\ conn = FALSE /\ pending = {}
    /\ CB!CBInit
    /\ dropped = {} /\ mishaps = 0

ProcessEvent == \E b \in pending :
    SkipDuplicate(b) \/ StoreEvent(b) \/ EventFails(b) \/ EventAckLost(b)

Scan ==
    \/ LoadFileState \/ LoadFails \/ FileVanished
    \/ DetectRotation \/ CreateFails
    \/ ReadAppendedLines \/ ReadNothing
    \/ CommitNothing \/ CommitNothingFails
    \/ ProcessEvent \/ LogHealthError
    \/ SaveFileState \/ SaveFails \/ SaveAckLost

Environment ==
    \/ AppendLine \/ RemoveFile \/ ReplaceFile
    \/ Outage \/ Recover
    \/ Crash \/ Restart \/ CooldownElapses

Next == BeginScan \/ Scan \/ Environment

Spec == Init /\ [][Next]_vars

\* A scan that has begun goes on: the thread that runs it is not stopped.  Time
\* passes.  That scans begin is not the parser's to promise (AgentLifecycle,
\* ScanningGoesOn, says when they do), nor that the file can be read.
Fairness == WF_vars(Scan) /\ WF_vars(CooldownElapses)

FairSpec == Spec /\ Fairness

-----------------------------------------------------------------------------
(* Properties *)

Rows == [exists : BOOLEAN, offset : Nat, gen : 0..MaxFiles,
         hash : [gen : -1..MaxFiles, len : 0..Prefix]]

\* Every variable has its type.
TypeOK ==
    /\ file \in [present : BOOLEAN, gen : 1..MaxFiles, first : Nat \ {0}, len : Nat]
    /\ next \in 1..(NBlocks + 1)
    /\ db_up \in BOOLEAN /\ conn \in BOOLEAN
    /\ fstate \in Rows
    /\ events \subseteq Blocks /\ live \in Blocks \cup {NoEvent}
    /\ health \subseteq Nat
    /\ pc \in {"idle", "load", "check", "read", "nothing", "process", "log", "down"}
    /\ tx \in [row : Rows, size : Nat, to : Nat, gen : 0..MaxFiles,
              lost : SUBSET (Blocks \X Causes), cur : Blocks \cup {NoEvent}, unread : BOOLEAN]
    /\ pc = "log" => tx.cur \in Blocks
    /\ pending \subseteq Blocks
    /\ CB!CBTypeOK
    /\ dropped \subseteq Blocks \X Causes
    /\ mishaps \in 0..MaxMishaps

\* No sequence number has two rows in ATMEvents, however often crashes,
\* retries, lost acknowledgements and rotations make the agent read a block
\* again (event_processor_service.py, duplicate_check).
UniqueRows == \A a, b \in events : SeqOf[a] = SeqOf[b] => a = b

\* AtmLiveStatus shows an event that has a row, and none with a row is later:
\* out-of-order journals, replays and rolled-back transactions never make it
\* run ahead of ATMEvents, or back (timestamp protection, one transaction).
LiveIsLatest ==
    /\ live = NoEvent <=> events = {}
    /\ live # NoEvent => live \in events /\ \A e \in events : TimeOf[e] <= TimeOf[live]

\* Why a block that a saved offset has passed may be missing from ATMEvents.
Excused(b) == b \in Unhandled \/ \E c \in Causes : <<b, c>> \in dropped

\* A block whose header lies below the saved offset of the current file has a
\* row, unless it is of a kind the parser ignores, its transaction failed in
\* the very scan that saved the offset, a read ended inside it, or the file
\* was replaced under a running scan.  A crash, a retry or a lost
\* acknowledgement is never a reason: process_file saves the offset last.
NoUnexplainedLoss ==
    fstate.gen = file.gen =>
        \A b \in Written : HeadLine(b) <= fstate.offset => SeqStored(b) \/ Excused(b)

\* While the breaker is OPEN no scan is between its check and its end: the
\* retry loop gives up in the step that opens it (parser_service.py:192).
BreakerGate == cb_state = "OPEN" => pc \in {"idle", "down"}

\* A saved offset goes back only when the file it counts in is gone, or when
\* the check could not read the file: growth of the file is never mistaken for
\* rotation, although the digest that detects rotation covers a prefix that
\* grows with the offset (parser_service.py:60-95, 155).
RewindHasCause ==
    [][fstate'.offset < fstate.offset =>
           file.gen # fstate.gen \/ ~file.present \/ tx.unread]_vars

\* The tables behave as the promise made of them says.
StoreSpec == Store!StoreSpec

\* Every scan ends, even if the database fails and recovers for ever: it holds
\* FileMonitorService.lock, which stop waits for, and its retry loop has no
\* other limit than the breaker.
ScanEnds == []<>(pc \in {"idle", "down"})

\* Rounds of scanning go on, a read attempted again and again succeeds in the
\* end, and from some time on database, file and agent stay up and the check
\* is not kept from the file.
Undisturbed ==
    /\ WF_vars(BeginScan) /\ SF_vars(ReadAppendedLines)
    /\ <>[](db_up /\ file.present /\ pc # "down" /\ ~tx.unread)

\* Undisturbed, the saved offset reaches the end of the journal for good: no
\* state that earlier failures left in the breaker, the digest or the offset
\* stops ingestion for ever.
BacklogDrains == Undisturbed => <>[](fstate.offset = file.len)

-----------------------------------------------------------------------------
(* What documentation and comments say and the code does not do: each is    *)
(* found violated by a run of its own.                                       *)

\* README.md:70: when SQL Server goes offline ingestion retries, "ensuring
\* zero data loss".  Weakened here: an event whose transaction failed, and
\* that the saved offset has passed, has a row or at least a health record.
\* It holds when an outage ends every connection: saving the offset then
\* fails too, and the batch is read again.  When the idle connection outlives
\* a network drop it does not: process_result swallows the event's failure,
\* the health record fails with it, and process_file saves the offset.
ZeroDataLoss ==
    \A b \in Blocks : <<b, "failed">> \in dropped => SeqStored(b) \/ SeqOf[b] \in health

\* ej_parser.py:50: parse_lines "groups EJ lines into sequential blocks by
\* header".  A block that is in the file from header to body, below the saved
\* offset, and that no failure took, has a row.  A read that ends between
\* header and body loses it: the body opens the next batch and is dropped.
WholeBlocksStored ==
    fstate.gen = file.gen =>
        \A b \in Written \ Unhandled :
            /\ HeadLine(b) + 1 <= fstate.offset
            /\ \A c \in {"failed", "skipped"} : <<b, c>> \notin dropped
            => SeqStored(b)

\* parser_service.py:88: "Header hash changed (file replaced with another)".
\* A file that replaced another is read from its first line.  A replacement
\* after the check, before the digest is saved, is not detected then or later.
ReplacementDetected == \A b \in Blocks : <<b, "skipped">> \notin dropped

\* The same comment, the other way round: the offset is reset for a file
\* "replaced with another".  It is reset for a file that is only locked, too:
\* "" is not the stored digest.  The journal is read again from its first line.
ResetOnlyOnReplacement ==
    [][fstate'.offset < fstate.offset => file.gen # fstate.gen \/ ~file.present]_vars
=============================================================================
