------------------------------- MODULE Import -------------------------------
(***************************************************************************)
(* The import of a career-ops tracker beside everything that reads rows    *)
(* and writes them by id later.  A reload truncates the tables and restarts*)
(* the ids, so that an id read before it names another role after it.      *)
(*   - LoadTracker, the reload,                                            *)
(*   - importReports: clear, read the candidates, attach file by file,     *)
(*   - remediate: read the urls the reports name, write them row by row,   *)
(*     requeue what is unreported,                                         *)
(*   - a goroutine's rating, and a person's move,                          *)
(*   - IngestPosting, which is one transaction.                            *)
(* TRUNCATE waits for the locks of open transactions, so that only what is *)
(* read outside a transaction is at stake.  A handler that fails or whose  *)
(* process dies has done some of its writes; claims after a crash, locks   *)
(* and re-evaluations are module Tracker's.                                *)
(***************************************************************************)
EXTENDS Integers, FiniteSets, Sequences, StatusMachine

CONSTANTS
  Keys,         \* company and role of a row, as DedupKey
  Documents,    \* tracker documents: sequences of [key, status]
  Urls,         \* urls of scraped postings and of reports
  UrlKey,       \* the role a url's posting is about
  Files,        \* report files
  FileKey, FileLength, FileUrl,
  Raters, Imports, Remedies, Movers,   \* goroutines, and requests in progress
  MaxId,        \* bound on the ids of an epoch
  MaxReloads    \* bound on the reloads

NoKey == "no key"
NoUrl == 0
NoFile == 0
Ids   == 1..MaxId
Tasks == Raters \cup Imports \cup Remedies \cup Movers

ASSUME BoundsAssumption == MaxId \in Nat /\ MaxReloads \in Nat
ASSUME KeysAssumption   == NoKey \notin Keys
ASSUME TasksAssumption  ==   \* every task is of one kind
  /\ Raters \cap (Imports \cup Remedies \cup Movers) = {}
  /\ Imports \cap (Remedies \cup Movers) = {}
ASSUME FilesAssumption  ==
  /\ Urls \subseteq Nat \ {NoUrl}
  /\ Files \subseteq Nat \ {NoFile} /\ IsFiniteSet(Files)
  /\ UrlKey \in [Urls -> Keys]
  /\ FileKey \in [Files -> Keys]
  /\ FileLength \in [Files -> Nat]
  /\ FileUrl \in [Files -> Urls \cup {NoUrl}]
ASSUME DocumentsAssumption ==
  /\ Documents \subseteq Seq([key : Keys, status : Progression \cup SideStates])
  /\ \A d \in Documents : Len(d) <= MaxId

VARIABLES
  key,       \* applications: company and role of each id, NoKey without a row
  status,    \* applications.status
  url,       \* applications.url
  nextId,    \* the id sequence
  posted,    \* rows with a postings row
  claimed,   \* rows with an eval_claimed_at
  writes,    \* reports, backfilled urls and moves, each with its provenance
  reloads,   \* how often the tables were truncated
  task       \* what each goroutine or request has read and is to write

rowVars == <<key, status, url, nextId, posted, claimed>>
vars    == <<rowVars, writes, reloads, task>>

Statuses == AllStatuses \cup {"absent"}

\* A write by id: the role it is about, and whether that role was read, by its
\* writer or by whoever wrote what it derives from, before the last reload.
Writes == [row : Ids, kind : {"rating", "migrated", "url", "move"}, about : Keys,
           file : Files \cup {NoFile}, late : BOOLEAN]

Todo   == [row : Ids, about : Keys, file : Files \cup {NoFile}, url : Urls \cup {NoUrl}, late : BOOLEAN]
Phases == {"idle", "cleared", "busy"}

\* What refers to a row, and what is kept in it, is of a row that is there.
ForeignKeys ==
  /\ \A i \in Ids : i \in posted \cup claimed \/ url[i] # NoUrl => key[i] # NoKey
  /\ \A r \in writes : key[r.row] # NoKey

TypeOK ==
  /\ key \in [Ids -> Keys \cup {NoKey}]
  /\ status \in [Ids -> Statuses]
  /\ url \in [Ids -> Urls \cup {NoUrl}]
  /\ nextId \in 1..(MaxId + 1)
  /\ posted \subseteq Ids /\ claimed \subseteq Ids
  /\ writes \subseteq Writes
  /\ reloads \in 0..MaxReloads
  /\ task \in [Tasks -> [phase : Phases, since : 0..MaxReloads, todo : SUBSET Todo]]
  /\ ForeignKeys

Idle == [phase |-> "idle", since |-> 0, todo |-> {}]

\* The columns of a document's rows, in the order of its lines.
KeysOf(doc)     == [i \in Ids |-> IF i \in DOMAIN doc THEN doc[i].key ELSE NoKey]
StatusesOf(doc) == [i \in Ids |-> IF i \in DOMAIN doc THEN doc[i].status ELSE "absent"]
NoUrls          == [i \in Ids |-> NoUrl]

\* A database that is empty, or was loaded before the process started.
Init ==
  /\ \E doc \in Documents \cup {<<>>} :
       key = KeysOf(doc) /\ status = StatusesOf(doc) /\ nextId = Len(doc) + 1
  /\ url = NoUrls
  /\ posted = {} /\ claimed = {} /\ writes = {}
  /\ reloads = 0
  /\ task = [t \in Tasks |-> Idle]

Exists(i)   == key[i] # NoKey
Reported(i) == \E r \in writes : r.row = i /\ r.kind \in {"rating", "migrated"}
Late(t)     == task[t].since < reloads

Begin(t, todo)  == task' = [task EXCEPT ![t] = [phase |-> "busy", since |-> reloads, todo |-> todo]]
Done(t, p)      == task' = [task EXCEPT ![t].todo = @ \ {p}]
End(t)          == task' = [task EXCEPT ![t] = Idle]
Record(t, p, kind) ==
  writes' = writes \cup {[row |-> p.row, kind |-> kind, about |-> p.about, file |-> p.file,
                          late |-> p.late \/ Late(t)]}

\* A role as it is read now, and the report file it is to get.
Read(i, f) == [row |-> i, about |-> key[i], file |-> f, url |-> NoUrl, late |-> FALSE]

------------------------------------------------------------------------------
\* A row for each line, with new ids from 1 on.
ReloadRows(doc) ==
  /\ reloads < MaxReloads /\ reloads' = reloads + 1
  /\ key' = KeysOf(doc) /\ status' = StatusesOf(doc) /\ nextId' = Len(doc) + 1
  /\ url' = NoUrls
  /\ posted' = {}
  /\ UNCHANGED task

\* Mutant: the reports outlive the rows they were written for.
LoadKeepingReports(doc) == ReloadRows(doc) /\ claimed' = {} /\ UNCHANGED writes

\* Mutant: the claims outlive the rows they were made on.
LoadKeepingClaims(doc) == ReloadRows(doc) /\ writes' = {} /\ UNCHANGED claimed

\* TRUNCATE ... RESTART IDENTITY and the inserts are one transaction.
LoadTracker(doc) == ReloadRows(doc) /\ claimed' = {} /\ writes' = {}

\* A known url re-sights its row, backfilled or scraped; a new one is a new row.
IngestPosting(u) ==
  /\ \/ \E i \in Ids :
          /\ url[i] = u /\ i \notin posted
          /\ posted' = posted \cup {i}
          /\ UNCHANGED <<key, status, url, nextId>>
     \/ /\ \A i \in Ids : url[i] # u
        /\ nextId \in Ids
        /\ key'    = [key EXCEPT ![nextId] = UrlKey[u]]
        /\ status' = [status EXCEPT ![nextId] = "inbox"]
        /\ url'    = [url EXCEPT ![nextId] = u]
        /\ posted' = posted \cup {nextId}
        /\ nextId' = nextId + 1
  /\ UNCHANGED <<claimed, writes, reloads, task>>

------------------------------------------------------------------------------
(* A goroutine of the evaluator, and a person's move.                      *)

\* SKIP LOCKED may pass a lower id over.
ClaimNextInbox(t, i) ==
  /\ task[t] = Idle
  /\ status[i] = "inbox" /\ i \notin claimed
  /\ claimed' = claimed \cup {i}
  /\ Begin(t, {Read(i, NoFile)})
  /\ UNCHANGED <<key, status, url, nextId, posted, writes, reloads>>

\* Mutant: a report without a row is saved, too.
SaveWithoutRow(t, p) ==
  /\ status' = IF Exists(p.row) THEN [status EXCEPT ![p.row] = "evaluated"] ELSE status
  /\ Record(t, p, "rating")
  /\ End(t)
  /\ UNCHANGED <<key, url, nextId, posted, claimed, reloads>>

\* The save fails when there is no row of that id any more.
SaveEvaluation(t, p) ==
  /\ Exists(p.row)
  /\ status' = [status EXCEPT ![p.row] = "evaluated"]
  /\ Record(t, p, "rating")
  /\ End(t)
  /\ UNCHANGED <<key, url, nextId, posted, claimed, reloads>>

\* By id as well, whoever claimed the row of that id by now.
ReleaseClaim(t, p) ==
  /\ claimed' = claimed \ {p.row}
  /\ End(t)
  /\ UNCHANGED <<key, status, url, nextId, posted, writes, reloads>>

SetStatusRead(t, i) ==
  /\ task[t] = Idle /\ CanTransition(status[i], "applied")
  /\ Begin(t, {Read(i, NoFile)})
  /\ UNCHANGED <<rowVars, writes, reloads>>

SetStatusWrite(t, p) ==
  /\ Exists(p.row)
  /\ status' = [status EXCEPT ![p.row] = "applied"]
  /\ Record(t, p, "move")
  /\ End(t)
  /\ UNCHANGED <<key, url, nextId, posted, claimed, reloads>>

\* The request's statement fails; nothing was written.
GiveUp(t) ==
  /\ task[t].phase = "busy"
  /\ End(t)
  /\ UNCHANGED <<rowVars, writes, reloads>>

------------------------------------------------------------------------------
(* importReports.                                                          *)

\* ?replace=true: the reports without an A-G summary go, in a statement of its
\* own.
ClearImportedReports(t) ==
  /\ task[t] = Idle
  /\ writes' = {r \in writes : r.kind # "migrated"}
  /\ task' = [task EXCEPT ![t].phase = "cleared"]
  /\ UNCHANGED <<rowVars, reloads>>

\* Mutant: roles that have a report already are candidates too.
CandidatesReportedToo == {i \in Ids \ posted : Exists(i)}

ImportedCandidates == {i \in Ids \ posted : Exists(i) /\ ~Reported(i)}

\* sort.Slice keeps no order between equal lengths: any one will do.
Fuller(f, g) == FileLength[f] > FileLength[g] \/ (FileLength[f] = FileLength[g] /\ f < g)

\* The longest file of a key goes to its candidate with the lowest id, the next
\* to the next; files without a candidate are dropped.
Assigned(f, i, upload, candidates) ==
  /\ i \in candidates /\ key[i] = FileKey[f]
  /\ Cardinality({g \in upload : FileKey[g] = FileKey[f] /\ Fuller(g, f)})
       = Cardinality({j \in candidates : key[j] = key[i] /\ j < i})

ImportRead(t, upload) ==
  /\ task[t].phase \in {"idle", "cleared"}
  /\ Begin(t, {p \in {Read(i, f) : i \in Ids, f \in upload} :
                 Assigned(p.file, p.row, upload, ImportedCandidates)})
  /\ UNCHANGED <<rowVars, writes, reloads>>

\* A file that cannot be attached is logged and skipped.
AttachReport(t, p) ==
  /\ \/ Exists(p.row) /\ Record(t, p, "migrated")
     \/ UNCHANGED writes
  /\ Done(t, p)
  /\ UNCHANGED <<rowVars, reloads>>

ImportEnds(t) ==
  /\ task[t].phase = "busy" /\ task[t].todo = {}
  /\ End(t)
  /\ UNCHANGED <<rowVars, writes, reloads>>

------------------------------------------------------------------------------
(* remediate.                                                              *)

Markdown(i) == {r \in writes : r.row = i /\ r.kind = "migrated"}

\* The longest reports of the rows without a url, of those that name one.
Recoverable ==
  {r \in writes : /\ r.kind = "migrated" /\ url[r.row] = NoUrl /\ FileUrl[r.file] # NoUrl
                  /\ \A q \in Markdown(r.row) : ~Fuller(q.file, r.file)}

BackfillRead(t) ==
  /\ task[t] = Idle
  /\ Begin(t, {[row |-> r.row, about |-> r.about, file |-> r.file, url |-> FileUrl[r.file],
                late |-> r.late] : r \in Recoverable})
  /\ UNCHANGED <<rowVars, writes, reloads>>

\* Only into a row that has no url by now, and only a url nobody has.
BackfillWrite(t, p) ==
  /\ IF Exists(p.row) /\ url[p.row] = NoUrl /\ \A i \in Ids : url[i] # p.url
       THEN url' = [url EXCEPT ![p.row] = p.url] /\ Record(t, p, "url")
       ELSE UNCHANGED <<url, writes>>
  /\ Done(t, p)
  /\ UNCHANGED <<key, status, nextId, posted, claimed, reloads>>

\* And then, in a transaction: evaluated, scraped, no report - back to the inbox.
RequeueUnreported(t) ==
  /\ task[t].phase = "busy" /\ task[t].todo = {}
  /\ LET rows == {i \in posted : status[i] = "evaluated" /\ ~Reported(i)}
     IN  /\ status' = [i \in Ids |-> IF i \in rows THEN "inbox" ELSE status[i]]
         /\ claimed' = claimed \ rows
  /\ End(t)
  /\ UNCHANGED <<key, url, nextId, posted, writes, reloads>>

------------------------------------------------------------------------------
RaterNext(t) ==
  \/ \E i \in Ids : ClaimNextInbox(t, i)
  \/ \E p \in task[t].todo : SaveEvaluation(t, p) \/ ReleaseClaim(t, p)

MoverNext(t) ==
  \/ \E i \in Ids : SetStatusRead(t, i)
  \/ \E p \in task[t].todo : SetStatusWrite(t, p)
  \/ GiveUp(t)

ImportNext(t) ==
  \/ ClearImportedReports(t)
  \/ \E upload \in SUBSET Files : ImportRead(t, upload)
  \/ \E p \in task[t].todo : AttachReport(t, p)
  \/ ImportEnds(t)

RemedyNext(t) ==
  \/ BackfillRead(t)
  \/ \E p \in task[t].todo : BackfillWrite(t, p)
  \/ RequeueUnreported(t)
  \/ GiveUp(t)

Next ==
  \/ \E doc \in Documents : LoadTracker(doc)
  \/ \E u \in Urls : IngestPosting(u)
  \/ \E t \in Raters : RaterNext(t)
  \/ \E t \in Movers : MoverNext(t)
  \/ \E t \in Imports : ImportNext(t)
  \/ \E t \in Remedies : RemedyNext(t)

Spec == Init /\ [][Next]_vars

------------------------------------------------------------------------------
\* A report, a move or a backfilled url is about the role of its row, whatever
\* ingests, imports and remedies interleave - unless its writer, or the writer
\* of the report it was taken from, had read the row before a reload.
ForeignIsLate == \A r \in writes : r.about = key[r.row] \/ r.late

\* With one import at a time, cleared or not, cut short or not, across reloads
\* and repeated uploads, no role gets a second migrated report.
OneMigratedReport ==
  (\A s, t \in Imports : s = t) =>
    \A q, r \in writes : (q.kind = "migrated" /\ r.kind = "migrated" /\ q.row = r.row) => q = r

\* A claim on a queued row has a goroutine that rates the row or will release
\* it, across reloads, stale releases and requeues.
ClaimsHaveRaters ==
  \A i \in claimed : status[i] = "inbox" =>
    \E t \in Raters : \E p \in task[t].todo : p.row = i
==============================================================================
