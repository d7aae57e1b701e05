-------------------------- MODULE DelayedDurability --------------------------
(***************************************************************************)
(* Ingestion on a database whose commits are not yet on disk when they are *)
(* acknowledged: optimize_db.py sets DELAYED_DURABILITY = FORCED.  When    *)
(* SQL Server itself crashes it comes back with an earlier state of the    *)
(* database, without the commits since the last flush of its log, while    *)
(* the agent and the journal are where they were.                          *)
(***************************************************************************)
EXTENDS Ingestion

VARIABLES
    flushed,              \* what a crash to come will restore, once it has fallen behind
    onlyServer            \* outages are the server's, never the network's

durableVars == <<vars, flushed, onlyServer>>

\* What commits change; dropped is bookkeeping about fstate.
Database == [fstate |-> fstate, events |-> events, live |-> live,
             health |-> health, dropped |-> dropped]
NotBehind == [fstate |-> NoRow, events |-> {}, live |-> NoEvent,
              health |-> {}, dropped |-> {<<NoEvent, "none">>}]

DurableInit ==
    /\ Init
    /\ flushed = NotBehind
    /\ onlyServer \in BOOLEAN

\* A commit is the first that is not on disk when the server crashes; which
\* one it is only the server decides.
FallsBehind ==
    /\ onlyServer /\ flushed = NotBehind
    /\ Database' # Database
    /\ flushed' = Database

\* A step of Ingestion.  An outage that is the server's ends every connection,
\* and a crash that is certain stays within the bound.
IngestionStep ==
    /\ Next
    /\ onlyServer /\ db_up /\ ~db_up' => ~conn'
    /\ FallsBehind \/ UNCHANGED flushed
    /\ flushed' # NotBehind => mishaps' < MaxMishaps
    /\ UNCHANGED onlyServer

\* SQL Server crashes and undoes the commits since its last flush.  A crash
\* that undoes none is an outage.  It is one of the MaxMishaps.
ServerCrash ==
    /\ flushed # NotBehind
    /\ fstate' = flushed.fstate /\ dropped' = flushed.dropped
    /\ events' = flushed.events /\ live' = flushed.live /\ health' = flushed.health
    /\ flushed' = NotBehind
    /\ db_up' = FALSE /\ conn' = FALSE
    /\ mishaps' = mishaps + 1
    /\ UNCHANGED <<journalVars, pc, tx, pending, cbVars, onlyServer>>

DurableNext == IngestionStep \/ ServerCrash

DurableSpec == DurableInit /\ [][DurableNext]_durableVars
DurableFairSpec == DurableSpec /\ Fairness

-----------------------------------------------------------------------------
(* Properties *)

\* ZeroDataLoss (README.md:70) where every outage is the server's, whether or
\* not it undoes its latest commits: then the connection that would save the
\* offset past a failed event has ended too, and the batch is read again.  The
\* commits come back in the order they were made, so an offset never comes back
\* without the health records and the events it was saved after.
ZeroDataLossOnServerStop == onlyServer => ZeroDataLoss

\* NoUnexplainedLoss, when the server forgets acknowledged commits: an offset
\* that is on disk, or saved after the crash, never passes a block whose row
\* the crash undid, although the scan that stored it may still be running.
NoLossOnServerCrash == NoUnexplainedLoss
=============================================================================
