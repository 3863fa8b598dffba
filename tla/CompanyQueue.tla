----------------------------- MODULE CompanyQueue -----------------------------
(***************************************************************************)
(* The company profiler: rows of table `companies` are a work queue like   *)
(* the inbox.  A loop claims the companies that were never profiled,       *)
(* goroutines assemble their profiles from public sources for minutes      *)
(* (RunProfiler), "Re-profile all" empties the claims and queues every     *)
(* company again, and whoever looks at a company sets off the synthesis of *)
(* a summary of its profile (maybeSynthesize).                             *)
(*                                                                         *)
(* Every statement of the profiler on `companies` is a transaction of its  *)
(* own, hence one step.  An ingest holds its company's row until the       *)
(* posting is committed: writers by id wait for it, and the claim passes   *)
(* the row over.  A profile is what it was asked for by: the number of     *)
(* "Re-profile all" requests there were when its company was claimed; a    *)
(* summary is the profile it was composed from.                            *)
(***************************************************************************)
EXTENDS Integers

CONSTANTS
  Companies,     \* ids of rows, the queue order
  Workers,       \* slots of the profiler pool: company_profile_concurrency
  Views,         \* requests for a company's page, with their syntheses
  MaxReprofiles  \* bound: "Re-profile all" requests

NoCompany == 0
Nothing   == -1   \* no profile, no summary

ASSUME CompaniesAssumption  == Companies \subseteq Nat \ {NoCompany}
ASSUME ReprofilesAssumption == MaxReprofiles \in Nat

VARIABLES
  known,       \* companies with a row
  claimed,     \* rows with a profile_claimed_at
  profiled,    \* rows with a profiled_at
  profile,     \* companies.profile
  facts,       \* rows whose profile has any sourced field
  summary,     \* companies.profile.summary
  slot,        \* what each profiler goroutine works on, asked for by which request
  dispatcher,  \* where RunProfiler's loop stands; "down": no process
  enabled,     \* config['profile_enabled']
  ingesting,   \* rows that ingests have locked as the loop goes to claim one
  view,        \* what each page request has read and synthesizes
  requests,    \* number of "Re-profile all" requests
  overtaken,   \* history: companies at work when the last of them came
  lost         \* history: claims that could not be released

rowVars     == <<known, claimed, profiled, profile, facts, summary>>
historyVars == <<requests, overtaken, lost>>
vars        == <<rowVars, slot, dispatcher, enabled, ingesting, view, historyVars>>

Editions  == 0..MaxReprofiles
IdleSlot  == [company |-> NoCompany, asked |-> Nothing]
IdleView  == [at |-> "idle", company |-> NoCompany, profile |-> Nothing]

TypeOK ==
  /\ known \subseteq Companies
  /\ claimed \subseteq known
  /\ profiled \cup facts \subseteq {c \in known : profile[c] # Nothing}
  /\ profile \in [Companies -> Editions \cup {Nothing}]
  /\ summary \in [Companies -> Editions \cup {Nothing}]
  /\ slot \in [Workers -> [company : Companies \cup {NoCompany}, asked : Editions \cup {Nothing}]]
  /\ dispatcher \in {"down", "boot", "poll", "claim"}
  /\ enabled \in BOOLEAN
  /\ ingesting \subseteq known
  /\ view \in [Views -> [at : {"idle", "read", "synthesizing"},
                         company : Companies \cup {NoCompany}, profile : Editions \cup {Nothing}]]
  /\ requests \in Editions
  /\ overtaken \subseteq Companies
  /\ lost \subseteq Companies

Init ==
  /\ known = {} /\ claimed = {} /\ profiled = {} /\ facts = {}
  /\ profile = [c \in Companies |-> Nothing]
  /\ summary = [c \in Companies |-> Nothing]
  /\ slot = [w \in Workers |-> IdleSlot]
  /\ dispatcher = "down"
  /\ enabled = TRUE /\ ingesting = {}
  /\ view = [v \in Views |-> IdleView]
  /\ requests = 0 /\ overtaken = {} /\ lost = {}

Up == dispatcher # "down"

AtWork == {slot[w].company : w \in Workers} \ {NoCompany}

------------------------------------------------------------------------------
(* The profiler.                                                           *)

\* A posting of a new company is ingested, or BackfillCompanies meets it.
UpsertCompany(c) ==
  /\ Up /\ c \notin known
  /\ known' = known \cup {c}
  /\ UNCHANGED <<claimed, profiled, profile, facts, summary, slot, dispatcher, enabled, ingesting, view, historyVars>>

\* Mutant: profile_claimed_at is not looked at.
UnprofiledClaimedToo == known \ profiled

Unprofiled == known \ (profiled \cup claimed)

\* The loop's checks, made before the claim: profiling is on, a slot is free.
\* Meanwhile postings of companies in the queue are ingested.
Poll ==
  /\ dispatcher = "poll" /\ enabled
  /\ \E w \in Workers : slot[w] = IdleSlot
  /\ dispatcher' = "claim"
  /\ ingesting' \in SUBSET Unprofiled
  /\ UNCHANGED <<rowVars, slot, enabled, view, historyVars>>

\* The lowest id that is not locked is claimed, and a goroutine started for it.
ClaimNextUnprofiledCompany(w, c) ==
  /\ dispatcher = "claim"
  /\ slot[w] = IdleSlot
  /\ c \in Unprofiled
  /\ \A d \in Unprofiled : d < c => d \in ingesting
  /\ claimed' = claimed \cup {c}
  /\ slot' = [slot EXCEPT ![w] = [company |-> c, asked |-> requests]]
  /\ dispatcher' = "poll" /\ ingesting' = {}
  /\ UNCHANGED <<known, profiled, profile, facts, summary, enabled, view, historyVars>>

\* The queue is empty, or all of it locked.
ClaimNone ==
  /\ dispatcher = "claim" /\ Unprofiled \subseteq ingesting
  /\ dispatcher' = "poll" /\ ingesting' = {}
  /\ UNCHANGED <<rowVars, slot, enabled, view, historyVars>>

\* Mutant: profile_claimed_at is left as it is.
SaveKeepingClaim(w, f) ==
  /\ slot[w] # IdleSlot
  /\ LET c == slot[w].company
     IN  /\ profiled' = profiled \cup {c}
         /\ profile' = [profile EXCEPT ![c] = slot[w].asked]
         /\ facts' = IF f THEN facts \cup {c} ELSE facts \ {c}
         /\ summary' = [summary EXCEPT ![c] = Nothing]
  /\ slot' = [slot EXCEPT ![w] = IdleSlot]
  /\ UNCHANGED <<known, claimed, dispatcher, enabled, ingesting, view, historyVars>>

\* Sources that fail are skipped: with none left (f is FALSE) the profile has no
\* field, and the company is profiled all the same.  The profile is replaced by
\* id, its summary with it, whoever holds the claim by now.
SaveCompanyProfile(w, f) ==
  /\ slot[w] # IdleSlot
  /\ LET c == slot[w].company
     IN  /\ profiled' = profiled \cup {c}
         /\ claimed' = claimed \ {c}
         /\ profile' = [profile EXCEPT ![c] = slot[w].asked]
         /\ facts' = IF f THEN facts \cup {c} ELSE facts \ {c}
         /\ summary' = [summary EXCEPT ![c] = Nothing]
  /\ slot' = [slot EXCEPT ![w] = IdleSlot]
  /\ UNCHANGED <<known, dispatcher, enabled, ingesting, view, historyVars>>

\* Mutant: a company whose save failed is not tried again.
ReleaseAsProfiled(w) ==
  /\ slot[w] # IdleSlot
  /\ claimed' = claimed \ {slot[w].company}
  /\ profiled' = profiled \cup {slot[w].company}
  /\ slot' = [slot EXCEPT ![w] = IdleSlot]
  /\ UNCHANGED <<known, profile, facts, summary, dispatcher, enabled, ingesting, view, historyVars>>

\* The save failed: the claim is released by id.
ReleaseCompanyClaim(w) ==
  /\ slot[w] # IdleSlot
  /\ claimed' = claimed \ {slot[w].company}
  /\ slot' = [slot EXCEPT ![w] = IdleSlot]
  /\ UNCHANGED <<known, profiled, profile, facts, summary, dispatcher, enabled, ingesting, view, historyVars>>

\* So did the release, and its error is dropped.
ReleaseFails(w) ==
  /\ slot[w] # IdleSlot
  /\ lost' = lost \cup {slot[w].company}
  /\ slot' = [slot EXCEPT ![w] = IdleSlot]
  /\ UNCHANGED <<rowVars, dispatcher, enabled, ingesting, view, requests, overtaken>>

\* Mutant: companies that are profiled already stay so.
ReprofileClaims ==
  /\ Up /\ requests < MaxReprofiles
  /\ claimed' = {} /\ lost' = {}
  /\ requests' = requests + 1
  /\ overtaken' = AtWork
  /\ UNCHANGED <<known, profiled, profile, facts, summary, slot, dispatcher, enabled, ingesting, view>>

\* The goroutines at work are not told.
ReprofileAll ==
  /\ Up /\ requests < MaxReprofiles
  /\ profiled' = {} /\ claimed' = {} /\ lost' = {}
  /\ requests' = requests + 1
  /\ overtaken' = AtWork
  /\ UNCHANGED <<known, profile, facts, summary, slot, dispatcher, enabled, ingesting, view>>

ProfilePause(on) ==
  /\ Up /\ enabled' = on
  /\ UNCHANGED <<rowVars, slot, dispatcher, ingesting, view, historyVars>>

------------------------------------------------------------------------------
(* A company's page and the synthesis of its summary.                      *)

\* The page's company: it has facts and no summary, and there is a model.
GetCompany(v, c) ==
  /\ Up /\ view[v] = IdleView
  /\ c \in facts /\ summary[c] = Nothing
  /\ view' = [view EXCEPT ![v] = [at |-> "read", company |-> c, profile |-> profile[c]]]
  /\ UNCHANGED <<rowVars, slot, dispatcher, enabled, ingesting, historyVars>>

\* Server.synthesizing, a sync.Map.
Synthesizing == {view[v].company : v \in {u \in Views : view[u].at = "synthesizing"}}

\* Mutant: the map is not consulted.
SynthesizeUnguarded(v) ==
  /\ view[v].at = "read"
  /\ view' = [view EXCEPT ![v].at = "synthesizing"]
  /\ UNCHANGED <<rowVars, slot, dispatcher, enabled, ingesting, historyVars>>

\* LoadOrStore: the first to come starts a goroutine; the others are served
\* without.
MaybeSynthesize(v) ==
  /\ view[v].at = "read"
  /\ view' = IF view[v].company \in Synthesizing
               THEN [view EXCEPT ![v] = IdleView]
               ELSE [view EXCEPT ![v].at = "synthesizing"]
  /\ UNCHANGED <<rowVars, slot, dispatcher, enabled, ingesting, historyVars>>

\* Written into whatever profile there is by now.
SetCompanySummary(v) ==
  /\ view[v].at = "synthesizing"
  /\ summary' = [summary EXCEPT ![view[v].company] = view[v].profile]
  /\ view' = [view EXCEPT ![v] = IdleView]
  /\ UNCHANGED <<known, claimed, profiled, profile, facts, slot, dispatcher, enabled, ingesting, historyVars>>

\* No answer within a minute, an empty one, or the write failed.
SynthesisFails(v) ==
  /\ view[v].at = "synthesizing"
  /\ view' = [view EXCEPT ![v] = IdleView]
  /\ UNCHANGED <<rowVars, slot, dispatcher, enabled, ingesting, historyVars>>

------------------------------------------------------------------------------
(* The process.                                                            *)

Crash ==
  /\ Up
  /\ dispatcher' = "down"
  /\ ingesting' = {}
  /\ slot' = [w \in Workers |-> IdleSlot]
  /\ view' = [v \in Views |-> IdleView]
  /\ UNCHANGED <<rowVars, enabled, historyVars>>

Boot ==
  /\ dispatcher = "down"
  /\ dispatcher' = "boot"
  /\ UNCHANGED <<rowVars, slot, enabled, ingesting, view, historyVars>>

\* Mutant: the claims of the crashed process are left alone.
ReclaimNothing ==
  /\ dispatcher = "boot"
  /\ dispatcher' = "poll"
  /\ UNCHANGED <<rowVars, slot, enabled, ingesting, view, historyVars>>

\* Before the first claim; an error is dropped.
ReclaimStaleCompanyClaims ==
  /\ dispatcher = "boot"
  /\ dispatcher' = "poll"
  /\ \/ claimed' = {} /\ lost' = {}
     \/ claimed' = claimed /\ lost' = claimed
  /\ UNCHANGED <<known, profiled, profile, facts, summary, slot, enabled, ingesting, view, requests, overtaken>>

------------------------------------------------------------------------------
Next ==
  \/ \E c \in Companies : UpsertCompany(c)
  \/ Poll
  \/ \E w \in Workers, c \in Companies : ClaimNextUnprofiledCompany(w, c)
  \/ ClaimNone
  \/ \E w \in Workers, f \in BOOLEAN : SaveCompanyProfile(w, f)
  \/ \E w \in Workers : ReleaseCompanyClaim(w)
  \/ \E w \in Workers : ReleaseFails(w)
  \/ ReprofileAll
  \/ \E on \in BOOLEAN : ProfilePause(on)
  \/ \E v \in Views, c \in Companies : GetCompany(v, c)
  \/ \E v \in Views : MaybeSynthesize(v)
  \/ \E v \in Views : SetCompanySummary(v)
  \/ \E v \in Views : SynthesisFails(v)
  \/ Crash
  \/ Boot
  \/ ReclaimStaleCompanyClaims

Spec == Init /\ [][Next]_vars

\* The loop and its goroutines are scheduled; again and again it finds no row
\* locked; a company that is tried again and again is saved in the end.
QuietPoll == Poll /\ ingesting' = {}

Saved(c) == \E w \in Workers, f \in BOOLEAN : slot[w].company = c /\ SaveCompanyProfile(w, f)

FairSpec ==
  /\ Spec
  /\ WF_vars(Boot) /\ WF_vars(ReclaimStaleCompanyClaims) /\ WF_vars(ClaimNone)
  /\ WF_vars(\E w \in Workers, c \in Companies : ClaimNextUnprofiledCompany(w, c))
  /\ SF_vars(QuietPoll)
  /\ \A w \in Workers : WF_vars(ReleaseCompanyClaim(w) \/ \E f \in BOOLEAN : SaveCompanyProfile(w, f))
  /\ \A c \in Companies : SF_vars(Saved(c))

------------------------------------------------------------------------------
(* Safety.                                                                 *)

\* While the loop runs, a claim belongs to a goroutine that is at work on the
\* company, unless its release failed: a save, a release or a re-profile request
\* that clears the claim of another goroutine never leaves one without any.
NoOrphanClaim ==
  dispatcher \in {"poll", "claim"} => claimed \subseteq AtWork \cup lost

\* Goroutines work on different companies until somebody asks to re-profile.
ProfiledApart ==
  requests = 0 =>
    \A u, w \in Workers : slot[u].company = slot[w].company /\ slot[u] # IdleSlot => u = w

\* Claimed companies that no goroutine works on: ClaimNextUnprofiledCompany
\* passes them over until the next reclaim.
Abandoned == claimed \ AtWork

WQ == INSTANCE WorkQueue WITH
        Items   <- Companies,
        Takers  <- Workers,
        None    <- NoCompany,
        waiting <- Unprofiled,
        held    <- [w \in Workers |-> slot[w].company],
        stuck   <- Abandoned,
        busy    <- ingesting

\* Until somebody asks to re-profile, the claims implement the work queue that
\* the inbox is, too: every step is one of the queue or leaves it alone,
\* whatever crashes, pauses, failing saves and releases there are.
ServesAsWorkQueue ==
  WQ!QueueInit /\ [][requests' = 0 => WQ!QueueNext \/ UNCHANGED WQ!queueVars]_vars

\* "Re-profile all" reaches every company, though it does not tell those at
\* work: a profile that counts as done was asked for by the last request, except
\* where a goroutine was at work when that came.
ReprofileReaches ==
  \A c \in profiled : profile[c] = requests \/ c \in overtaken

\* One synthesis of a company at a time, however many look at it at once.
OneSynthesis ==
  \A u, v \in Views :
    view[u].at = "synthesizing" /\ view[v].at = "synthesizing" /\ view[u].company = view[v].company
      => u = v

------------------------------------------------------------------------------
(* Liveness.                                                               *)

\* From some time on: no crash, no pause, no lost claim.
Calm == <>[](Up /\ enabled /\ lost = {})

\* Every company is profiled in the end, whatever crashed, failed or was asked
\* again before.
EveryCompanyProfiled ==
  Calm => \A c \in Companies : [](c \in known => <>(c \in profiled))
==============================================================================
