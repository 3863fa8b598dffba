---------------------------- MODULE TrackerQueue ----------------------------
(***************************************************************************)
(* The evaluator's queue, rows of `applications` in 'inbox' with a claim   *)
(* column, as the work queue it is meant to be.                            *)
(***************************************************************************)
EXTENDS Tracker

\* Claimed rows of the inbox that no goroutine works on: ClaimNextInbox passes
\* them over until ReclaimStaleClaims.
Abandoned == {a \in claimed : status[a] = "inbox" /\ \A w \in Workers : slot[w] # a}

WQ == INSTANCE WorkQueue WITH
        Items   <- Apps,
        Takers  <- Workers,
        None    <- NoApp,
        waiting <- Claimable,
        held    <- slot,
        stuck   <- Abandoned,
        busy    <- {a \in Apps : MaybeLocked(a)}

\* The claims implement a work queue: oldest first, but for rows that a request
\* may have locked, a row with one goroutine at a time, none dropped, whatever
\* crashes, failed releases, pauses, expiries, re-evaluations, moves and bulk
\* discards occur - as long as no request puts a row back while it is rated.
ServesAsWorkQueue == WQ!QueueSpec
==============================================================================
