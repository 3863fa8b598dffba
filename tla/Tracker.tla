------------------------------- MODULE Tracker -------------------------------
(***************************************************************************)
(* The role tracker: the rows of table `applications` and everything that  *)
(* moves a role from one status to another -                               *)
(*   - ingestion of scraped postings (/ingest),                            *)
(*   - the evaluator, one dispatcher and a pool of goroutines that claim   *)
(*     inbox rows and rate them with an LLM call of minutes (RunEvaluator),*)
(*   - the HTTP handlers of a person's moves and of the bulk operations,   *)
(*     which read the rows first and write them in a later step,           *)
(*   - the re-prober, which expires roles whose listing vanished,          *)
(*   - crashes, and the reclaiming of the crashed workers' claims at boot. *)
(*                                                                         *)
(* The database runs at READ COMMITTED.  A transaction that only writes    *)
(* rows by id, whatever they hold by then, is one step: its row locks make *)
(* it serialize at its commit.  A SELECT whose answer is used later is a   *)
(* step of its own.  Rows are canonical (near-duplicates: module Dedup).   *)
(***************************************************************************)
EXTENDS Integers, FiniteSets, StatusMachine

CONSTANTS
  Apps,            \* ids of rows, the queue order
  Imported,        \* rows loaded from a career-ops tracker before the start
  Workers,         \* slots of the evaluator pool: eval_concurrency of them
  Handlers,        \* HTTP requests that may be in progress at once
  UserTargets,     \* statuses people ask for
  Threshold,       \* consecutive definitive 404/410 before a listing is gone
  ReprobeEnabled,  \* config['reprobe_enabled']
  AdminEnabled,    \* IMPORT_TOKEN is set: the guarded bulk operations run
  DBFaults         \* the statements that release claims may fail

NoApp == 0

ASSUME AppsAssumption      == Apps \subseteq Nat \ {NoApp}
ASSUME ImportedAssumption  == Imported \subseteq Apps
ASSUME TargetsAssumption   == UserTargets \subseteq AllStatuses
ASSUME ThresholdAssumption == Threshold \in Nat \ {0}
ASSUME FlagsAssumption     == {ReprobeEnabled, AdminEnabled, DBFaults} \subseteq BOOLEAN

VARIABLES
  status,       \* applications.status, or "absent" before the row exists
  lastTo,       \* to_status of the row's newest status_events row
  claimed,      \* rows with an eval_claimed_at
  score,        \* applications.score against apply_min_score
  reason,       \* applications.disposition_reason
  reported,     \* rows with a reports row
  posted,       \* rows with a postings row (a scraped job description)
  linked,       \* rows with a url
  gone,         \* applications.gone_probes
  disappeared,  \* rows with a disappeared_at
  slot,         \* the row each evaluator goroutine works on
  dispatcher,   \* where the evaluator's loop stands; "down": no process
  enabled,      \* config['eval_enabled']
  handler       \* what each request in progress has read and is to write

rowVars     == <<status, lastTo, claimed, score, reason, reported, posted, linked>>
probeVars   == <<gone, disappeared>>
processVars == <<slot, dispatcher, enabled, handler>>
vars        == <<rowVars, probeVars, processVars>>

Statuses   == EnumStatuses \cup {"absent"}
Scores     == {"none", "low", "high"}   \* low: under apply_min_score
Reasons    == {"none", "given", "below_bar"}
\* What the tracker importer's normStatus can produce.
ImportStatuses == Progression \cup SideStates

\* What a request has read and is to write: SetStatus one row, the bulk
\* operations every row their query returned.
Requests ==
  [op : {"idle", "setStatus", "discardBelowLine", "requeueUnreported", "requeueBelowLine"},
   rows : SUBSET Apps, to : Statuses, reason : Reasons]

IdleHandler == [op |-> "idle", rows |-> {}, to |-> "absent", reason |-> "none"]

TypeOK ==
  /\ status \in [Apps -> Statuses]
  /\ lastTo \in [Apps -> Statuses]
  /\ score  \in [Apps -> Scores]
  /\ reason \in [Apps -> Reasons]
  /\ gone   \in [Apps -> 0..Threshold]
  /\ claimed \subseteq Apps
  /\ reported \subseteq Apps
  /\ posted \subseteq Apps
  /\ linked \subseteq Apps
  /\ disappeared \subseteq Apps
  /\ slot \in [Workers -> Apps \cup {NoApp}]
  /\ dispatcher \in {"down", "boot", "poll", "claim"}
  /\ enabled \in BOOLEAN
  /\ handler \in [Handlers -> Requests]

Init ==
  /\ status \in [Apps -> ImportStatuses \cup {"absent"}]
  /\ \A a \in Apps : status[a] # "absent" <=> a \in Imported
  /\ lastTo = status
  /\ score \in [Apps -> Scores]
  /\ \A a \in Apps \ Imported : score[a] = "none"
  /\ linked \in SUBSET Imported      \* urls recovered from migrated reports
  /\ reported \in SUBSET Imported    \* migrated reports
  /\ reason = [a \in Apps |-> "none"]
  /\ gone = [a \in Apps |-> 0]
  /\ claimed = {} /\ posted = {} /\ disappeared = {}
  /\ slot = [w \in Workers |-> NoApp]
  /\ dispatcher = "down"
  /\ enabled = TRUE
  /\ handler = [h \in Handlers |-> IdleHandler]

Up == dispatcher # "down"

\* The value of a column after the rows in S have been given value v.
Put(column, S, v) == [a \in Apps |-> IF a \in S THEN v ELSE column[a]]

\* Moving rows and appending the event of the move, in one transaction.
Move(S, to) == status' = Put(status, S, to) /\ lastTo' = Put(lastTo, S, to)

------------------------------------------------------------------------------
(* Ingestion.                                                              *)

\* A url not seen before: a row, its posting and its first event.
IngestNew(a) ==
  /\ Up /\ status[a] = "absent"
  /\ Move({a}, "inbox")
  /\ posted' = posted \cup {a}
  /\ linked' = linked \cup {a}
  /\ UNCHANGED <<claimed, score, reason, reported, probeVars, processVars>>

\* The url of a row without a posting (an imported one): it gets the posting.
\* Status and claim are left alone.
Resight(a) ==
  /\ Up /\ a \in linked \ posted
  /\ posted' = posted \cup {a}
  /\ UNCHANGED <<status, lastTo, claimed, score, reason, reported, linked, probeVars, processVars>>

------------------------------------------------------------------------------
(* The evaluator.                                                          *)

\* The loop's checks, made before the claim: auto-eval is on, a slot is free.
Poll ==
  /\ dispatcher = "poll" /\ enabled
  /\ \E w \in Workers : slot[w] = NoApp
  /\ dispatcher' = "claim"
  /\ UNCHANGED <<rowVars, probeVars, slot, enabled, handler>>

\* Mutant: the claim column is not looked at.
ClaimableAgain == {a \in Apps : status[a] = "inbox"}

Claimable == {a \in Apps : status[a] = "inbox" /\ a \notin claimed}

\* A request that has still to write a may hold its row lock: SKIP LOCKED.
MaybeLocked(a) == \E h \in Handlers : a \in handler[h].rows

\* The lowest claimable id that is not locked, and a goroutine for it.
ClaimNextInbox(w, a) ==
  /\ dispatcher = "claim"
  /\ slot[w] = NoApp
  /\ a \in Claimable
  /\ \A b \in Claimable : b < a => MaybeLocked(b)
  /\ claimed' = claimed \cup {a}
  /\ slot' = [slot EXCEPT ![w] = a]
  /\ dispatcher' = "poll"
  /\ UNCHANGED <<status, lastTo, score, reason, reported, posted, linked, probeVars, enabled, handler>>

ClaimNone ==
  /\ dispatcher = "claim"
  /\ \A a \in Claimable : MaybeLocked(a)
  /\ dispatcher' = "poll"
  /\ UNCHANGED <<rowVars, probeVars, slot, enabled, handler>>

\* Mutant: the event of the move is forgotten.
SaveUnlogged(w, s) ==
  /\ slot[w] # NoApp
  /\ status' = Put(status, {slot[w]}, "evaluated")
  /\ score' = [score EXCEPT ![slot[w]] = s]
  /\ reported' = reported \cup {slot[w]}
  /\ slot' = [slot EXCEPT ![w] = NoApp]
  /\ UNCHANGED <<lastTo, claimed, reason, posted, linked, probeVars, dispatcher, enabled, handler>>

\* Mutant: the report is written outside the transaction, and that fails.
SaveUnreported(w, s) ==
  /\ slot[w] # NoApp
  /\ Move({slot[w]}, "evaluated")
  /\ score' = [score EXCEPT ![slot[w]] = s]
  /\ slot' = [slot EXCEPT ![w] = NoApp]
  /\ UNCHANGED <<reported, claimed, reason, posted, linked, probeVars, dispatcher, enabled, handler>>

\* The rating is in, from the model or ("low") from the exclusion gate: the row
\* becomes 'evaluated' whatever its status is by now.  The claim stays set.
SaveEvaluation(w, s) ==
  /\ slot[w] # NoApp
  /\ Move({slot[w]}, "evaluated")
  /\ score' = [score EXCEPT ![slot[w]] = s]
  /\ reported' = reported \cup {slot[w]}
  /\ slot' = [slot EXCEPT ![w] = NoApp]
  /\ UNCHANGED <<claimed, reason, posted, linked, probeVars, dispatcher, enabled, handler>>

\* No acceptable answer in three attempts, or the save failed.
ReleaseClaim(w) ==
  /\ slot[w] # NoApp
  /\ claimed' = claimed \ {slot[w]}
  /\ slot' = [slot EXCEPT ![w] = NoApp]
  /\ UNCHANGED <<status, lastTo, score, reason, reported, posted, linked, probeVars, dispatcher, enabled, handler>>

\* The release fails too, and its error is dropped.
ReleaseClaimFails(w) ==
  /\ DBFaults /\ slot[w] # NoApp
  /\ slot' = [slot EXCEPT ![w] = NoApp]
  /\ UNCHANGED <<rowVars, probeVars, dispatcher, enabled, handler>>

\* Mutant: eval_claimed_at is left as it is.
EnqueueKeepingClaims ==
  /\ Up
  /\ status' = Put(status, {a \in posted : status[a] = "evaluated"}, "inbox")
  /\ UNCHANGED <<claimed, lastTo, score, reason, reported, posted, linked, probeVars, processVars>>

\* Mutant: imported roles without a job description are queued too.
EnqueueImportedToo ==
  /\ Up
  /\ LET rows == {a \in Apps : status[a] = "evaluated"}
     IN  status' = Put(status, rows, "inbox") /\ claimed' = claimed \ rows
  /\ UNCHANGED <<lastTo, score, reason, reported, posted, linked, probeVars, processVars>>

EnqueueForReeval ==
  /\ Up
  /\ LET rows == {a \in posted : status[a] = "evaluated"}
     IN  /\ status' = Put(status, rows, "inbox")   \* and no event
         /\ claimed' = claimed \ rows
  /\ UNCHANGED <<lastTo, score, reason, reported, posted, linked, probeVars, processVars>>

EvalPause(on) ==
  /\ Up /\ enabled' = on
  /\ UNCHANGED <<rowVars, probeVars, slot, dispatcher, handler>>

------------------------------------------------------------------------------
(* Requests that read first and write later.                               *)

Begin(h, request) ==
  /\ Up /\ handler[h] = IdleHandler
  /\ handler' = [handler EXCEPT ![h] = request]
  /\ UNCHANGED <<rowVars, probeVars, slot, dispatcher, enabled>>

\* The current status is read, and the move checked, before the transaction.
SetStatusRead(h, a, to, why) ==
  /\ CanTransition(status[a], to)
  /\ Begin(h, [op |-> "setStatus", rows |-> {a}, to |-> to, reason |-> why])

DiscardBelowLineRead(h) ==
  LET below == {a \in Apps : status[a] = "evaluated" /\ score[a] = "low"}
  IN  /\ below # {}
      /\ Begin(h, [op |-> "discardBelowLine", rows |-> below,
                   to |-> "discarded", reason |-> "below_bar"])

\* The reports table is joined in the query: no report of any kind.
RequeueUnreportedRead(h) ==
  LET unreported == {a \in posted \ reported : status[a] = "evaluated"}
  IN  /\ AdminEnabled /\ unreported # {}
      /\ Begin(h, [op |-> "requeueUnreported", rows |-> unreported,
                   to |-> "inbox", reason |-> "none"])

\* ?limit=N and ?mode=culture take a part of the rows.
RequeueBelowLineRead(h) ==
  /\ AdminEnabled
  /\ \E rows \in SUBSET {a \in posted : /\ status[a] = "discarded"
                                        /\ reason[a] = "below_bar"
                                        /\ score[a] # "none"} :
       /\ rows # {}
       /\ Begin(h, [op |-> "requeueBelowLine", rows |-> rows,
                    to |-> "inbox", reason |-> "none"])

SetStatusWrite(h) ==
  /\ handler[h].op = "setStatus"
  /\ reason' = Put(reason, handler[h].rows, handler[h].reason)
  /\ UNCHANGED <<claimed, score>>

DiscardBelowLineWrite(h) ==
  /\ handler[h].op = "discardBelowLine"
  /\ reason' = Put(reason, handler[h].rows, "below_bar")
  /\ UNCHANGED <<claimed, score>>

\* disposition_reason is left as it is.
RequeueUnreportedWrite(h) ==
  /\ handler[h].op = "requeueUnreported"
  /\ score' = Put(score, handler[h].rows, "none")
  /\ claimed' = claimed \ handler[h].rows
  /\ UNCHANGED reason

RequeueBelowLineWrite(h) ==
  /\ handler[h].op = "requeueBelowLine"
  /\ score' = Put(score, handler[h].rows, "none")
  /\ claimed' = claimed \ handler[h].rows
  /\ reason' = Put(reason, handler[h].rows, "none")

\* The transaction commits, whatever the rows hold by now.
Commit(h) ==
  /\ \/ SetStatusWrite(h)
     \/ DiscardBelowLineWrite(h)
     \/ RequeueUnreportedWrite(h)
     \/ RequeueBelowLineWrite(h)
  /\ Move(handler[h].rows, handler[h].to)
  /\ handler' = [handler EXCEPT ![h] = IdleHandler]
  /\ UNCHANGED <<reported, posted, linked, probeVars, slot, dispatcher, enabled>>

\* The client hung up or a statement failed: rolled back.
Abort(h) ==
  /\ handler[h] # IdleHandler
  /\ handler' = [handler EXCEPT ![h] = IdleHandler]
  /\ UNCHANGED <<rowVars, probeVars, slot, dispatcher, enabled>>

------------------------------------------------------------------------------
(* The re-prober: NextToProbe's rows, one outcome at a time.               *)

\* Mutant: roles already marked gone are probed again.
ProbeableForever(a) == ReprobeEnabled /\ Up /\ a \in linked /\ status[a] # "absent"

Probeable(a) == ReprobeEnabled /\ Up /\ a \in linked \ disappeared /\ status[a] # "absent"

ProbeAlive(a) ==
  /\ Probeable(a)
  /\ gone' = [gone EXCEPT ![a] = 0]
  /\ UNCHANGED <<rowVars, disappeared, processVars>>

\* The increment returns the status under the row lock.
ProbeGone(a) ==
  /\ Probeable(a)
  /\ gone' = [gone EXCEPT ![a] = @ + 1]
  /\ IF gone[a] + 1 < Threshold
       THEN UNCHANGED <<disappeared, status, lastTo>>
       ELSE /\ disappeared' = disappeared \cup {a}
            /\ IF IsPassiveStatus(status[a])
                 THEN Move({a}, "expired")
                 ELSE UNCHANGED <<status, lastTo>>
  /\ UNCHANGED <<claimed, score, reason, reported, posted, linked, processVars>>

------------------------------------------------------------------------------
(* The process.                                                            *)

\* Open transactions roll back; claims are in the database and stay.
Crash ==
  /\ Up
  /\ dispatcher' = "down"
  /\ slot' = [w \in Workers |-> NoApp]
  /\ handler' = [h \in Handlers |-> IdleHandler]
  /\ UNCHANGED <<rowVars, probeVars, enabled>>

\* HTTP, the re-prober and the evaluator start side by side.
Boot ==
  /\ dispatcher = "down"
  /\ dispatcher' = "boot"
  /\ UNCHANGED <<rowVars, probeVars, slot, enabled, handler>>

\* Mutant: the claims of the crashed process are left alone.
ReclaimNothing ==
  /\ dispatcher = "boot"
  /\ dispatcher' = "poll"
  /\ UNCHANGED <<rowVars, probeVars, slot, enabled, handler>>

ReclaimStaleClaims ==
  /\ dispatcher = "boot"
  /\ dispatcher' = "poll"
  /\ \/ claimed' = {a \in claimed : status[a] # "inbox"}
     \/ DBFaults /\ UNCHANGED claimed      \* the error is dropped
  /\ UNCHANGED <<status, lastTo, score, reason, reported, posted, linked, probeVars, slot, enabled, handler>>

------------------------------------------------------------------------------
EvaluatorNext ==
  \/ Poll
  \/ \E w \in Workers, a \in Apps : ClaimNextInbox(w, a)
  \/ ClaimNone
  \/ \E w \in Workers, s \in {"low", "high"} : SaveEvaluation(w, s)
  \/ \E w \in Workers : ReleaseClaim(w)
  \/ \E w \in Workers : ReleaseClaimFails(w)

HandlerNext(h) ==
  \/ \E a \in Apps, to \in UserTargets, why \in {"none", "given"} : SetStatusRead(h, a, to, why)
  \/ DiscardBelowLineRead(h)
  \/ RequeueUnreportedRead(h)
  \/ RequeueBelowLineRead(h)
  \/ Commit(h)
  \/ Abort(h)

Next ==
  \/ \E a \in Apps : IngestNew(a)
  \/ \E a \in Apps : Resight(a)
  \/ EvaluatorNext
  \/ EnqueueForReeval
  \/ \E on \in BOOLEAN : EvalPause(on)
  \/ \E h \in Handlers : HandlerNext(h)
  \/ \E a \in Apps : ProbeAlive(a)
  \/ \E a \in Apps : ProbeGone(a)
  \/ Crash
  \/ Boot
  \/ ReclaimStaleClaims

Spec == Init /\ [][Next]_vars

------------------------------------------------------------------------------
(* Fairness.  The goroutines and the loop are scheduled; a request ends; a *)
(* row lock is not held at every one of the loop's polls.  Nothing is      *)
(* promised of people, scrapers, listings, or crashes.                     *)

Scheduling ==
  /\ WF_vars(Boot) /\ WF_vars(ReclaimStaleClaims) /\ WF_vars(Poll)
  /\ SF_vars(\E w \in Workers, a \in Apps : ClaimNextInbox(w, a))
  /\ WF_vars(ClaimNone)
  /\ \A w \in Workers : WF_vars(ReleaseClaim(w) \/ \E s \in {"low", "high"} : SaveEvaluation(w, s))
  /\ \A h \in Handlers : WF_vars(Commit(h) \/ Abort(h))

Rated(a) == \E w \in Workers : slot[w] = a /\ \E s \in {"low", "high"} : SaveEvaluation(w, s)

\* A posting that is tried again and again is rated in the end.
RatingSucceeds == \A a \in Apps : SF_vars(Rated(a))

FairSpec == Spec /\ Scheduling /\ RatingSucceeds

------------------------------------------------------------------------------
(* Safety.                                                                 *)

\* A claim on an inbox row belongs to a goroutine that is at work on it, from
\* the moment the loop has reclaimed the claims of the crashed process: no row
\* is skipped by ClaimNextInbox with nobody there to rate or release it.
NoOrphanClaim ==
  (~DBFaults /\ dispatcher \in {"poll", "claim"}) =>
    \A a \in claimed : status[a] = "inbox" => \E w \in Workers : slot[w] = a

\* The newest event of a role names its status, whichever of the nine writers
\* moved it last; only EnqueueForReeval leaves it one event behind.
LedgerFollowsStatus ==
  \A a \in Apps : \/ lastTo[a] = status[a]
                  \/ status[a] = "inbox" /\ lastTo[a] = "evaluated"

\* Everything in the queue has a job description to be rated on: no requeue,
\* not even one that writes rows it read earlier, queues an imported role that
\* was never scraped.
QueuedHasPosting == \A a \in Apps : status[a] = "inbox" => a \in posted

\* A score of a scraped role is never without the report that explains it.
ScoredHasReport == \A a \in Apps \ Imported : score[a] # "none" => a \in reported

\* 'expired' is only ever said of a listing found gone Threshold times in a
\* row, and disappeared_at is stamped exactly then, for roles of any status.
ExpiredIsGone ==
  /\ \A a \in Apps : status[a] = "expired" => a \in disappeared
  /\ \A a \in Apps : a \in disappeared <=> gone[a] = Threshold

\* A vanished listing never takes a role out of the user's pipeline, whatever
\* the user did since the re-prober read its worklist.
PipelineNeverExpires ==
  [][\A a \in Apps : status[a] \in Engaged => status'[a] # "expired"]_vars

\* Two goroutines never rate the same row (each LLM call is paid for).
NoDoubleRating ==
  \A v, w \in Workers : slot[v] = slot[w] /\ slot[v] # NoApp => v = w

\* A role goes back in the funnel only by a write that was decided on before the
\* last move: the end of a rating in progress, or a request that could not ask
\* for its move now.
OnlyStaleGoesBack ==
  [][\A a \in Apps : Rank(status'[a]) \in 0..(Rank(status[a]) - 1) =>
       \/ \E w \in Workers : slot[w] = a /\ status'[a] = "evaluated"
       \/ \E h \in Handlers : /\ a \in handler[h].rows /\ handler'[h] = IdleHandler
                              /\ ~CanTransition(status[a], handler[h].to)]_vars

------------------------------------------------------------------------------
(* Liveness.                                                               *)

Requeue ==
  \/ EnqueueForReeval
  \/ \E h \in Handlers : RequeueUnreportedWrite(h) \/ RequeueBelowLineWrite(h)

\* From some time on: no crash, no pause, no operator requeueing rows.
Calm == <>[](Up /\ enabled) /\ <>[][~Requeue]_vars

\* Every queued role is rated or otherwise leaves the inbox, in spite of any
\* crash, pause, failed rating, requeue or held row lock before that.
EveryRoleRated ==
  Calm => \A a \in Apps : [](status[a] = "inbox" => <>(status[a] # "inbox"))
==============================================================================
