-------------------------------- MODULE Dedup --------------------------------
(***************************************************************************)
(* Near-duplicates: the rows of one dedup_key (normalized company and      *)
(* title), how /ingest merges a new url into a canonical role, and how     *)
(* POST /dedup collapses the inbox.  Rows of different keys never meet in  *)
(* this code, so one key is enough.  A SimHash is a point of a line, near  *)
(* another within MaxBits of it: near is not transitive, as for Hamming    *)
(* distance.                                                               *)
(*                                                                         *)
(* READ COMMITTED: an ingest looks up, inserts (drawing its id from the    *)
(* sequence) and commits in three steps; a collapse reads the inbox long   *)
(* before the transaction that writes.                                     *)
(***************************************************************************)
EXTENDS Integers

CONSTANTS
  Urls,       \* normalized urls of one company and title
  Hashes,     \* SimHashes a description can have
  MaxBits,    \* nearDupMaxBits
  MaxId,      \* bound: ids drawn from the sequence
  Ingests,    \* /ingest transactions at once
  Collapses,  \* /dedup?apply=true requests at once
  OldUrls     \* urls ingested before migration 0004: no dedup metadata

NoUrl  == 0
NoHash == -1
NoId   == 0

ASSUME HashesAssumption == Hashes \subseteq Nat /\ MaxBits \in Nat
ASSUME UrlsAssumption   == Urls \subseteq Nat \ {NoUrl} /\ OldUrls \subseteq Urls
ASSUME IdsAssumption    == MaxId \in Nat

Ids == 1..MaxId

VARIABLES
  nextId,       \* the sequence of applications.id
  url,          \* applications.url, NoUrl while the row is not committed
  queued,       \* rows with status 'inbox'
  doc,          \* SimHash of the newest posting document
  fingerprint,  \* applications.fingerprint (dedup_key is NULL with it)
  canonical,    \* applications.canonical_id
  ingest,       \* the /ingest transactions
  collapse      \* the /dedup requests

rows == <<url, queued, doc, fingerprint, canonical>>
vars == <<nextId, rows, ingest, collapse>>

Rows == {r \in Ids : url[r] # NoUrl}

IdleIngest   == [at |-> "idle", url |-> NoUrl, hash |-> NoHash, canonical |-> NoId, id |-> NoId]
IdleCollapse == [at |-> "idle", canon |-> NoId, dups |-> {}, hashes |-> [r \in {} |-> NoHash]]

\* The SimHashes of the rows a collapse has read.
Readings == UNION {[S -> Hashes] : S \in SUBSET Ids}

TypeOK ==
  /\ nextId \in 1..(MaxId + 1)
  /\ url \in [Ids -> Urls \cup {NoUrl}]
  /\ queued \subseteq Ids
  /\ doc \in [Ids -> Hashes \cup {NoHash}]
  /\ \A r \in Rows : doc[r] # NoHash
  /\ fingerprint \in [Ids -> Hashes \cup {NoHash}]
  /\ canonical \in [Ids -> Ids \cup {NoId}]
  /\ ingest \in [Ingests ->
       [at : {"idle", "insert", "commit", "failed"}, url : Urls \cup {NoUrl},
        hash : Hashes \cup {NoHash}, canonical : Ids \cup {NoId}, id : Ids \cup {NoId}]]
  /\ collapse \in [Collapses ->
       [at : {"idle", "apply"}, canon : Ids \cup {NoId}, dups : SUBSET Ids, hashes : Readings]]

\* Rows scraped before 0004, all of them in the inbox, and no others.
Init ==
  /\ nextId \in 1..(MaxId + 1)
  /\ url \in [Ids -> OldUrls \cup {NoUrl}]
  /\ \A r \in Ids : url[r] # NoUrl <=> r < nextId
  /\ \A u \in OldUrls : \E r \in Ids : url[r] = u
  /\ \A q, r \in Rows : url[q] = url[r] => q = r
  /\ queued = Rows
  /\ doc \in [Ids -> Hashes \cup {NoHash}]
  /\ \A r \in Ids : doc[r] = NoHash <=> r \notin Rows
  /\ fingerprint = [r \in Ids |-> NoHash]
  /\ canonical = [r \in Ids |-> NoId]
  /\ ingest = [i \in Ingests |-> IdleIngest]
  /\ collapse = [c \in Collapses |-> IdleCollapse]

Hamming(a, b) == IF a < b THEN b - a ELSE a - b
Near(a, b) == Hamming(a, b) <= MaxBits

\* What the worklist shows of the inbox: queued canonical rows.
Visible == {r \in queued : canonical[r] = NoId}

------------------------------------------------------------------------------
(* /ingest                                                                 *)

\* The url is tracked: its posting is refreshed and its dedup metadata filled
\* in where it is missing, whatever the status of the row.
IngestKnown(u, h) ==
  /\ \E r \in Rows :
       /\ url[r] = u
       /\ doc' = [doc EXCEPT ![r] = h]
       /\ fingerprint' = [fingerprint EXCEPT ![r] = IF @ = NoHash THEN h ELSE @]
  /\ UNCHANGED <<nextId, url, queued, canonical, ingest, collapse>>

\* The canonical rows a new description is near to, those at the least distance.
NearestCanonicals(h) ==
  LET near == {r \in Visible : fingerprint[r] # NoHash /\ Near(h, fingerprint[r])}
  IN  {r \in near : \A s \in near : Hamming(h, fingerprint[r]) <= Hamming(h, fingerprint[s])}

IngestLookup(i, u, h) ==
  /\ ingest[i] = IdleIngest
  /\ \A r \in Rows : url[r] # u
  /\ \E c \in IF NearestCanonicals(h) = {} THEN {NoId} ELSE NearestCanonicals(h) :
       ingest' = [ingest EXCEPT ![i] =
         [at |-> "insert", url |-> u, hash |-> h, canonical |-> c, id |-> NoId]]
  /\ UNCHANGED <<nextId, rows, collapse>>

\* Mutant: applications.url is not UNIQUE.
IngestInsertUnchecked(i) ==
  /\ ingest[i].at = "insert" /\ nextId <= MaxId
  /\ nextId' = nextId + 1
  /\ ingest' = [ingest EXCEPT ![i].at = "commit", ![i].id = nextId]
  /\ UNCHANGED <<rows, collapse>>

\* The INSERT draws an id.  It waits for another transaction that has inserted
\* the same url, and fails once the url is there: applications.url is UNIQUE.
IngestInsert(i) ==
  /\ ingest[i].at = "insert" /\ nextId <= MaxId
  /\ \A j \in Ingests : ingest[j].at = "commit" => ingest[j].url # ingest[i].url
  /\ nextId' = nextId + 1
  /\ ingest' = [ingest EXCEPT ![i] =
       [@ EXCEPT !.at = IF \E r \in Rows : url[r] = ingest[i].url THEN "failed" ELSE "commit",
                 !.id = nextId]]
  /\ UNCHANGED <<rows, collapse>>

\* Mutant: the posting is left to a statement after the commit.
IngestCommitUnposted(i) ==
  /\ ingest[i].at = "commit"
  /\ LET r == ingest[i].id
     IN  /\ url' = [url EXCEPT ![r] = ingest[i].url]
         /\ queued' = queued \cup {r}
         /\ fingerprint' = [fingerprint EXCEPT ![r] = ingest[i].hash]
         /\ canonical' = [canonical EXCEPT ![r] = ingest[i].canonical]
  /\ ingest' = [ingest EXCEPT ![i] = IdleIngest]
  /\ UNCHANGED <<nextId, doc, collapse>>

IngestCommit(i) ==
  /\ ingest[i].at = "commit"
  /\ LET r == ingest[i].id
     IN  /\ url' = [url EXCEPT ![r] = ingest[i].url]
         /\ queued' = queued \cup {r}
         /\ doc' = [doc EXCEPT ![r] = ingest[i].hash]
         /\ fingerprint' = [fingerprint EXCEPT ![r] = ingest[i].hash]
         /\ canonical' = [canonical EXCEPT ![r] = ingest[i].canonical]
  /\ ingest' = [ingest EXCEPT ![i] = IdleIngest]
  /\ UNCHANGED <<nextId, collapse>>

\* The handler counts the failure and goes on with the next posting; a request
\* that is cut off rolls back without a trace but the id it drew.
IngestEnd(i) ==
  /\ ingest[i].at # "idle"
  /\ ingest' = [ingest EXCEPT ![i] = IdleIngest]
  /\ UNCHANGED <<nextId, rows, collapse>>

------------------------------------------------------------------------------
(* /dedup?apply=true                                                       *)

\* What a collapse holds that has read the visible inbox and folds into canon
\* the rows near it, by the newest descriptions.
ReadInbox(canon) ==
  [at |-> "apply", canon |-> canon,
   dups |-> {r \in Visible \ {canon} : Near(doc[canon], doc[r])},
   hashes |-> [r \in Visible |-> doc[r]]]

\* Mutant: the newest row is the canonical one.
CollapseReadNewest(c) ==
  /\ collapse[c] = IdleCollapse
  /\ \E canon \in Visible :
       /\ \A r \in Visible : r <= canon
       /\ collapse' = [collapse EXCEPT ![c] = ReadInbox(canon)]
  /\ UNCHANGED <<nextId, rows, ingest>>

\* The lowest id is the canonical.  With nothing to fold in this key, the rows
\* are still written when another key has something.
CollapseRead(c) ==
  /\ collapse[c] = IdleCollapse
  /\ \E canon \in Visible :
       /\ \A r \in Visible : canon <= r
       /\ collapse' = [collapse EXCEPT ![c] = ReadInbox(canon)]
  /\ UNCHANGED <<nextId, rows, ingest>>

\* Written by id: dedup metadata of every row read, canonical_id of the folded
\* ones, whatever became of them in between.
CollapseApply(c) ==
  /\ collapse[c].at = "apply"
  /\ LET read == collapse[c].hashes
     IN  fingerprint' = [r \in Ids |-> IF r \in DOMAIN read THEN read[r] ELSE fingerprint[r]]
  /\ canonical' = [r \in Ids |-> IF r \in collapse[c].dups THEN collapse[c].canon ELSE canonical[r]]
  /\ collapse' = [collapse EXCEPT ![c] = IdleCollapse]
  /\ UNCHANGED <<nextId, url, queued, doc, ingest>>

CollapseAbort(c) ==
  /\ collapse[c].at = "apply"
  /\ collapse' = [collapse EXCEPT ![c] = IdleCollapse]
  /\ UNCHANGED <<nextId, rows, ingest>>

------------------------------------------------------------------------------
(* What module Tracker does to the rows: a role is rated, applied to or    *)
(* passed on, and a visible one may be requeued (a role folded between a   *)
(* requeue's read and its write is hidden, queued or not: left out).       *)

Leave(r) ==
  /\ r \in queued
  /\ queued' = queued \ {r}
  /\ UNCHANGED <<nextId, url, doc, fingerprint, canonical, ingest, collapse>>

Requeue(r) ==
  /\ r \in Rows \ queued /\ canonical[r] = NoId
  /\ queued' = queued \cup {r}
  /\ UNCHANGED <<nextId, url, doc, fingerprint, canonical, ingest, collapse>>

Next ==
  \/ \E u \in Urls, h \in Hashes : IngestKnown(u, h)
  \/ \E i \in Ingests, u \in Urls, h \in Hashes : IngestLookup(i, u, h)
  \/ \E i \in Ingests : IngestInsert(i)
  \/ \E i \in Ingests : IngestCommit(i)
  \/ \E i \in Ingests : IngestEnd(i)
  \/ \E c \in Collapses : CollapseRead(c)
  \/ \E c \in Collapses : CollapseApply(c)
  \/ \E c \in Collapses : CollapseAbort(c)
  \/ \E r \in Ids : Leave(r)
  \/ \E r \in Ids : Requeue(r)

Spec == Init /\ [][Next]_vars

------------------------------------------------------------------------------
(* Safety.                                                                 *)

\* A near-duplicate points to a row that exists and is older, whatever the
\* ingests and collapses that were under way: canonical_id has no cycles, so
\* every folded role leads to a canonical one.
CanonicalIsOlder ==
  \A r \in Ids : canonical[r] # NoId => canonical[r] < r /\ canonical[r] \in Rows

\* No url is tracked twice, although it is looked up before it is inserted.
UrlTrackedOnce == \A q, r \in Rows : url[q] = url[r] => q = r

\* A collapse folds inbox rows only.
FoldsInboxOnly ==
  [][\A c \in Collapses : CollapseApply(c) => collapse[c].dups \subseteq queued]_vars
==============================================================================
