----------------------------- MODULE EventStore -----------------------------
(***************************************************************************)
(* What the agent promises the monitoring centre about its two shared      *)
(* tables, whatever the log file, the database connection and the agent's  *)
(* own lifetime do meanwhile: ATMEvents only grows, by one event at a      *)
(* time and never twice for one sequence number, and AtmLiveStatus changes *)
(* in the same instant, to that event or not at all, and never backwards.  *)
(***************************************************************************)
EXTENDS Naturals

CONSTANTS
    Blocks,               \* the journal blocks the ATM may write
    SeqOf,                \* EventSequenceNumber of a block
    TimeOf,               \* EventTime of a block
    NoEvent               \* "no event yet"

VARIABLES
    events,               \* the blocks that have a row in ATMEvents
    live                  \* the block whose data AtmLiveStatus shows

storeVars == <<events, live>>

\* ATMEvents has a row with this block's sequence number.
SeqStored(b) == \E e \in events : SeqOf[e] = SeqOf[b]

\* Timestamp protection: the status already shows a later event.
Stale(b) == live # NoEvent /\ TimeOf[live] > TimeOf[b]

StoreInit == events = {} /\ live = NoEvent

\* One event's transaction: its row, and the status unless that is newer.
Store(b) ==
    /\ ~SeqStored(b)
    /\ events' = events \cup {b}
    /\ live' = IF Stale(b) THEN live ELSE b

StoreNext == \E b \in Blocks : Store(b)

StoreSpec == StoreInit /\ [][StoreNext]_storeVars
=============================================================================
