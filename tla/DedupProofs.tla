----------------------------- MODULE DedupProofs -----------------------------
(***************************************************************************)
(* What module Dedup guarantees for any number of urls, SimHashes, ids,    *)
(* ingests and collapses.                                                  *)
(***************************************************************************)
EXTENDS Dedup, NumberFacts

\* An ingest past its lookup holds a posting; the canonical it found is a row,
\* older than the id it has drawn, and its url is not tracked yet when it has
\* inserted.
IngestOK(q) ==
  /\ q.at # "idle" => q.url \in Urls /\ q.hash \in Hashes
  /\ q.canonical # NoId => q.canonical \in Rows
  /\ q.at = "commit" =>
       /\ q.id \in Ids /\ q.id < nextId /\ q.id \notin Rows
       /\ q.canonical < q.id
       /\ \A r \in Rows : url[r] # q.url

\* A collapse folds rows into an older row.
CollapseOK(q) ==
  q.at = "apply" => q.canon \in Rows /\ \A r \in q.dups : q.canon < r

\* Rows have drawn their ids, hold a posting, and are all the queue can show.
RowsOK ==
  /\ \A r \in Rows : r < nextId /\ doc[r] \in Hashes
  /\ queued \subseteq Rows

IngestsOK   == \A i \in Ingests : IngestOK(ingest[i])
CollapsesOK == \A c \in Collapses : CollapseOK(collapse[c])

\* The unique index: two uncommitted inserts never hold one url, nor one id.
InsertsDiffer ==
  \A i, j \in Ingests : i # j /\ ingest[i].at = "commit" /\ ingest[j].at = "commit" =>
    ingest[i].url # ingest[j].url /\ ingest[i].id # ingest[j].id

IInv ==
  /\ TypeOK
  /\ RowsOK
  /\ IngestsOK
  /\ CollapsesOK
  /\ InsertsDiffer
  /\ CanonicalIsOlder
  /\ UrlTrackedOnce

USE HashesAssumption, UrlsAssumption, IdsAssumption DEF NoUrl, NoHash, NoId, Ids

\* A request at rest is of the type of requests.
LEMMA IdleType ==
  IdleCollapse \in
    [at : {"idle", "apply"}, canon : Ids \cup {NoId}, dups : SUBSET Ids, hashes : Readings]
<1>1. [r \in {} |-> NoHash] \in [{} -> Hashes] /\ {} \in SUBSET Ids
  OBVIOUS
<1>2. QED
  BY <1>1 DEF IdleCollapse, Readings

\* The tables as migration 0004 finds them are in the inductive invariant.
THEOREM InitIInv == Init => IInv
<1> SUFFICES ASSUME Init PROVE IInv
  OBVIOUS
<1> USE DEF Init, Rows, IdleIngest, IdleCollapse
<1>1. TypeOK
  BY IdleType DEF TypeOK
<1>2. RowsOK
  BY DEF RowsOK
<1>3. IngestsOK /\ InsertsDiffer
  BY DEF IngestsOK, IngestOK, InsertsDiffer
<1>4. CollapsesOK
  BY DEF CollapsesOK, CollapseOK
<1>5. CanonicalIsOlder /\ UrlTrackedOnce
  BY DEF CanonicalIsOlder, UrlTrackedOnce
<1>6. QED
  BY <1>1, <1>2, <1>3, <1>4, <1>5 DEF IInv

------------------------------------------------------------------------------
\* Only a commit makes a row, and only the insert draws an id.
LEMMA RowsGrow ==
  ASSUME IInv, [Next]_vars
  PROVE  /\ Rows \subseteq Rows' /\ nextId' >= nextId
         /\ url' # url => \E i \in Ingests : IngestCommit(i)
<1> USE DEF vars, rows
<1>1. ASSUME NEW i \in Ingests, IngestInsert(i) PROVE url' = url /\ nextId' >= nextId
  BY <1>1 DEF IngestInsert, IInv, TypeOK
<1>2. ASSUME NEW i \in Ingests, IngestCommit(i) PROVE Rows \subseteq Rows' /\ nextId' >= nextId
  <2>1. ingest[i].url # NoUrl
    BY <1>2 DEF IInv, IngestsOK, IngestOK, IngestCommit
  <2>2. QED
    BY <1>2, <2>1 DEF IngestCommit, IInv, TypeOK, Rows
<1>3. ASSUME [Next]_vars, \A i \in Ingests : ~IngestInsert(i) /\ ~IngestCommit(i)
      PROVE  url' = url /\ nextId' = nextId
  BY <1>3 DEF Next, IngestKnown, IngestLookup, IngestEnd, CollapseRead, CollapseApply,
              CollapseAbort, Leave, Requeue
<1>4. QED
  BY <1>1, <1>2, <1>3 DEF Rows, IInv, TypeOK

\* Every writer gives its columns values of their types.
LEMMA TypeStep == IInv /\ [Next]_vars => TypeOK'
<1> SUFFICES ASSUME IInv, [Next]_vars PROVE TypeOK'
  OBVIOUS
<1> USE DEF vars, rows
<1>0. TypeOK /\ RowsOK /\ IngestsOK
  BY DEF IInv
<1>1. ASSUME NEW u \in Urls, NEW h \in Hashes, IngestKnown(u, h) PROVE TypeOK'
  <2>1. PICK r \in Rows :
          /\ doc' = [doc EXCEPT ![r] = h]
          /\ fingerprint' = [fingerprint EXCEPT ![r] = IF @ = NoHash THEN h ELSE @]
    BY <1>1 DEF IngestKnown
  <2>2. doc' \in [Ids -> Hashes \cup {NoHash}]
    BY <1>0, <2>1 DEF TypeOK, Rows
  <2>3. fingerprint' \in [Ids -> Hashes \cup {NoHash}]
    <3> DEFINE f == IF fingerprint[r] = NoHash THEN h ELSE fingerprint[r]
    <3>1. f \in Hashes \cup {NoHash} /\ fingerprint' = [fingerprint EXCEPT ![r] = f]
      BY <1>0, <2>1 DEF TypeOK, Rows
    <3> HIDE DEF f
    <3>2. QED
      BY <1>0, <3>1 DEF TypeOK
  <2>4. QED
    BY <1>0, <1>1, <2>2, <2>3 DEF IngestKnown, TypeOK, Rows
<1>2. ASSUME NEW i \in Ingests, NEW u \in Urls, NEW h \in Hashes, IngestLookup(i, u, h) PROVE TypeOK'
  BY <1>0, <1>2 DEF IngestLookup, NearestCanonicals, Visible, TypeOK, Rows
<1>3. ASSUME NEW i \in Ingests, IngestInsert(i) PROVE TypeOK'
  <2>1. nextId \in Ids /\ nextId' \in 1..(MaxId + 1)
    BY <1>0, <1>3 DEF IngestInsert, TypeOK
  <2> DEFINE at == IF \E r \in Rows : url[r] = ingest[i].url THEN "failed" ELSE "commit"
             q == [ingest[i] EXCEPT !.at = at, !.id = nextId]
             Transaction == [at : {"idle", "insert", "commit", "failed"}, url : Urls \cup {NoUrl},
                             hash : Hashes \cup {NoHash}, canonical : Ids \cup {NoId},
                             id : Ids \cup {NoId}]
  <2>2. q \in Transaction
    <3>1. ingest[i] \in Transaction /\ at \in {"failed", "commit"}
      BY <1>0 DEF TypeOK
    <3> HIDE DEF at
    <3>2. QED
      BY <2>1, <3>1
  <2>3. ingest' = [ingest EXCEPT ![i] = q]
    BY <1>3 DEF IngestInsert
  <2> HIDE DEF q
  <2>4. QED
    BY <1>0, <1>3, <2>1, <2>2, <2>3 DEF IngestInsert, TypeOK, Rows
<1>4. ASSUME NEW i \in Ingests, IngestCommit(i) PROVE TypeOK'
  <2>1. ingest[i].id \in Ids /\ ingest[i].hash \in Hashes
    BY <1>0, <1>4 DEF IngestCommit, IngestsOK, IngestOK
  <2>2. \A r \in Rows' : doc'[r] # NoHash
    BY <1>0, <1>4, <2>1 DEF IngestCommit, Rows, TypeOK
  <2>3. QED
    BY <1>0, <1>4, <2>1, <2>2 DEF IngestCommit, IdleIngest, TypeOK
<1>5. ASSUME NEW i \in Ingests, IngestEnd(i) PROVE TypeOK'
  BY <1>0, <1>5 DEF IngestEnd, TypeOK, Rows, IdleIngest
<1>6. ASSUME NEW c \in Collapses, CollapseRead(c) PROVE TypeOK'
  <2>1. PICK canon \in Visible : collapse' = [collapse EXCEPT ![c] = ReadInbox(canon)]
    BY <1>6 DEF CollapseRead
  <2>2. \A r \in Visible : r \in Ids /\ doc[r] \in Hashes
    BY <1>0 DEF Visible, RowsOK, Rows
  <2>3. ReadInbox(canon).hashes \in Readings
    <3>1. ReadInbox(canon).hashes \in [Visible -> Hashes] /\ Visible \in SUBSET Ids
      BY <2>2 DEF ReadInbox
    <3>2. QED
      BY <3>1 DEF Readings
  <2>4. ReadInbox(canon) \in
          [at : {"idle", "apply"}, canon : Ids \cup {NoId}, dups : SUBSET Ids, hashes : Readings]
    BY <2>2, <2>3 DEF ReadInbox
  <2>5. QED
    BY <1>0, <1>6, <2>1, <2>4 DEF CollapseRead, TypeOK, Rows
<1>7. ASSUME NEW c \in Collapses, CollapseApply(c) PROVE TypeOK'
  <2>1. \A r \in Ids : r \in DOMAIN collapse[c].hashes => collapse[c].hashes[r] \in Hashes
    BY <1>0 DEF TypeOK, Readings
  <2>2. fingerprint' \in [Ids -> Hashes \cup {NoHash}]
    BY <1>0, <1>7, <2>1 DEF CollapseApply, TypeOK
  <2>3. canonical' \in [Ids -> Ids \cup {NoId}]
    BY <1>0, <1>7 DEF CollapseApply, TypeOK
  <2>4. collapse' = [collapse EXCEPT ![c] = IdleCollapse]
    BY <1>7 DEF CollapseApply
  <2>5. QED
    BY <1>0, <1>7, <2>2, <2>3, <2>4, IdleType DEF CollapseApply, TypeOK, Rows
<1>8. ASSUME NEW c \in Collapses, CollapseAbort(c) PROVE TypeOK'
  BY <1>0, <1>8, IdleType DEF CollapseAbort, TypeOK, Rows
<1>9. ASSUME NEW r \in Ids, Leave(r) \/ Requeue(r) PROVE TypeOK'
  BY <1>0, <1>9 DEF Leave, Requeue, TypeOK, Rows
<1>10. CASE UNCHANGED vars
  BY <1>0, <1>10 DEF TypeOK, Rows
<1>11. QED
  BY <1>1, <1>2, <1>3, <1>4, <1>5, <1>6, <1>7, <1>8, <1>9, <1>10 DEF Next

\* A row is made with its id drawn and its posting; the queue shows rows only.
LEMMA RowsStep == IInv /\ [Next]_vars => RowsOK'
<1> SUFFICES ASSUME IInv, [Next]_vars PROVE RowsOK'
  OBVIOUS
<1> USE DEF vars, rows
<1>0. TypeOK /\ RowsOK /\ IngestsOK
  BY DEF IInv
<1>1. ASSUME NEW u \in Urls, NEW h \in Hashes, IngestKnown(u, h) PROVE RowsOK'
  BY <1>0, <1>1 DEF IngestKnown, TypeOK, RowsOK, Rows
<1>2. ASSUME NEW i \in Ingests, IngestInsert(i) PROVE RowsOK'
  BY <1>0, <1>2 DEF IngestInsert, TypeOK, RowsOK, Rows
<1>3. ASSUME NEW i \in Ingests, IngestCommit(i) PROVE RowsOK'
  <2>1. /\ ingest[i].id \in Ids /\ ingest[i].id < nextId
        /\ ingest[i].hash \in Hashes /\ ingest[i].url \in Urls
    BY <1>0, <1>3 DEF IngestCommit, IngestsOK, IngestOK
  <2>2. Rows' = Rows \cup {ingest[i].id}
    BY <1>0, <1>3, <2>1 DEF IngestCommit, TypeOK, Rows
  <2>3. QED
    BY <1>0, <1>3, <2>1, <2>2 DEF IngestCommit, TypeOK, RowsOK, Rows
<1>4. ASSUME NEW r \in Ids, Leave(r) \/ Requeue(r) PROVE RowsOK'
  BY <1>0, <1>4 DEF Leave, Requeue, RowsOK, Rows
<1>5. ASSUME UNCHANGED <<nextId, url, queued, doc>> PROVE RowsOK'
  BY <1>0, <1>5 DEF RowsOK, Rows
<1>6. QED
  BY <1>1, <1>2, <1>3, <1>4, <1>5
     DEF Next, IngestLookup, IngestEnd, CollapseRead, CollapseApply, CollapseAbort

\* What a commit adds to the rows.
LEMMA CommitAdds ==
  ASSUME IInv, NEW i \in Ingests, IngestCommit(i)
  PROVE  /\ Rows' = Rows \cup {ingest[i].id} /\ ingest[i].id \in Ids \ Rows
         /\ \A r \in Ids : url'[r] = IF r = ingest[i].id THEN ingest[i].url ELSE url[r]
         /\ \A r \in Ids : canonical'[r] = IF r = ingest[i].id THEN ingest[i].canonical ELSE canonical[r]
<1>1. ingest[i].id \in Ids \ Rows /\ ingest[i].url \in Urls
  BY DEF IngestCommit, IInv, IngestsOK, IngestOK
<1>2. QED
  BY <1>1 DEF IngestCommit, IInv, TypeOK, Rows

\* No url is committed twice: the insert looked, and waited for the others.
LEMMA UniqueStep == IInv /\ [Next]_vars => UrlTrackedOnce'
<1> SUFFICES ASSUME IInv, [Next]_vars PROVE UrlTrackedOnce'
  OBVIOUS
<1>1. ASSUME NEW i \in Ingests, IngestCommit(i) PROVE UrlTrackedOnce'
  <2>1. \A r \in Rows : url[r] # ingest[i].url
    BY <1>1 DEF IngestCommit, IInv, IngestsOK, IngestOK
  <2>2. QED
    BY <1>1, <2>1, CommitAdds DEF UrlTrackedOnce, IInv, Rows
<1>2. ASSUME url' = url PROVE UrlTrackedOnce'
  BY <1>2 DEF UrlTrackedOnce, Rows, IInv
<1>3. QED
  BY <1>1, <1>2, RowsGrow

\* Whoever is not at a new step keeps its condition: rows are never removed, and
\* a row that another transaction commits has another id and another url.
LEMMA IngestKept ==
  ASSUME IInv, [Next]_vars, NEW j \in Ingests, ingest'[j] = ingest[j]
  PROVE  IngestOK(ingest[j])'
<1> DEFINE q == ingest[j]
<1>1. IngestOK(q)
  BY DEF IInv, IngestsOK
<1>2. Rows \subseteq Rows' /\ \A n \in Ids : n < nextId => n < nextId'
  BY RowsGrow, TypeStep DEF IInv, TypeOK
<1>3. CASE url' = url
  <2>1. Rows' = Rows
    BY <1>3 DEF Rows
  <2>2. QED
    BY <1>1, <1>2, <1>3, <2>1 DEF IngestOK
<1>4. ASSUME NEW i \in Ingests, IngestCommit(i) PROVE IngestOK(q)'
  <2>1. CASE q.at = "commit"
    <3>1. i # j
      BY <1>4, <2>1 DEF IngestCommit, IdleIngest, IInv, TypeOK
    <3>2. ingest[i].url # q.url /\ ingest[i].id # q.id
      BY <1>4, <2>1, <3>1 DEF IngestCommit, IInv, InsertsDiffer
    <3>3. nextId' = nextId
      BY <1>4 DEF IngestCommit
    <3>4. q' = q
      OBVIOUS
    <3>5. q.id \notin Rows' /\ \A r \in Rows' : url'[r] # q.url
      BY <1>1, <1>4, <2>1, <3>2, CommitAdds DEF IngestOK, Rows
    <3>6. QED
      BY <1>1, <1>2, <2>1, <3>3, <3>4, <3>5 DEF IngestOK
  <2>2. CASE q.at # "commit"
    BY <1>1, <1>2, <2>2 DEF IngestOK
  <2>3. QED
    BY <2>1, <2>2
<1>5. QED
  BY <1>3, <1>4, RowsGrow

\* Each step of an ingest establishes the condition of the next.
LEMMA IngestsStep == IInv /\ [Next]_vars => IngestsOK'
<1> SUFFICES ASSUME IInv, [Next]_vars, NEW j \in Ingests PROVE IngestOK(ingest[j])'
  BY DEF IngestsOK
<1> USE DEF vars, rows
<1>0. TypeOK /\ RowsOK /\ IngestsOK /\ TypeOK'
  BY TypeStep DEF IInv
<1>1. ASSUME NEW u \in Urls, NEW h \in Hashes, IngestLookup(j, u, h) PROVE IngestOK(ingest[j])'
  <2>1. PICK c \in IF NearestCanonicals(h) = {} THEN {NoId} ELSE NearestCanonicals(h) :
          ingest'[j] = [at |-> "insert", url |-> u, hash |-> h, canonical |-> c, id |-> NoId]
    BY <1>0, <1>1 DEF IngestLookup, TypeOK
  <2>2. c = NoId \/ c \in Rows
    BY <1>0 DEF NearestCanonicals, Visible, RowsOK
  <2>3. Rows' = Rows
    BY <1>1 DEF IngestLookup, Rows
  <2>4. QED
    BY <2>1, <2>2, <2>3 DEF IngestOK
<1>2. ASSUME IngestInsert(j) PROVE IngestOK(ingest[j])'
  <2> DEFINE at == IF \E r \in Rows : url[r] = ingest[j].url THEN "failed" ELSE "commit"
             q == [ingest[j] EXCEPT !.at = at, !.id = nextId]
  <2>1. ingest'[j] = q
    BY <1>0, <1>2 DEF IngestInsert, TypeOK
  <2>2. /\ q.at = at /\ q.id = nextId /\ q.url = ingest[j].url
        /\ q.hash = ingest[j].hash /\ q.canonical = ingest[j].canonical
    BY <1>0 DEF TypeOK
  <2>3. nextId \in Ids /\ nextId' = nextId + 1 /\ url' = url
    BY <1>0, <1>2 DEF IngestInsert, TypeOK
  <2>4. nextId \notin Rows /\ Rows' = Rows
    BY <1>0, <2>3 DEF RowsOK, Rows
  <2>5. IngestOK(ingest[j]) /\ ingest[j].at = "insert"
    BY <1>0, <1>2 DEF IngestInsert, IngestsOK
  <2>6. ingest[j].canonical < nextId
    BY <1>0, <2>3, <2>5 DEF IngestOK, RowsOK, TypeOK
  <2>7. at = "commit" => \A r \in Rows : url[r] # ingest[j].url
    OBVIOUS
  <2> HIDE DEF at, q
  <2>8. QED
    BY <2>1, <2>2, <2>3, <2>4, <2>5, <2>6, <2>7 DEF IngestOK
<1>3. ASSUME ingest'[j] = IdleIngest PROVE IngestOK(ingest[j])'
  BY <1>3 DEF IngestOK, IdleIngest
<1>4. ASSUME NEW i \in Ingests,
             IngestInsert(i) \/ IngestCommit(i) \/ IngestEnd(i)
               \/ \E u \in Urls, h \in Hashes : IngestLookup(i, u, h)
      PROVE  ingest'[j] = ingest[j] \/ ingest'[j] = IdleIngest \/ IngestInsert(j)
               \/ \E u \in Urls, h \in Hashes : IngestLookup(j, u, h)
  <2>1. CASE i = j
    <3>1. CASE IngestCommit(i) \/ IngestEnd(i)
      BY <1>0, <2>1, <3>1 DEF IngestCommit, IngestEnd, TypeOK
    <3>2. QED
      BY <1>4, <2>1, <3>1
  <2>2. CASE i # j
    <3>1. CASE IngestInsert(i)
      BY <1>0, <2>2, <3>1 DEF IngestInsert, TypeOK
    <3>2. CASE IngestCommit(i) \/ IngestEnd(i)
      BY <1>0, <2>2, <3>2 DEF IngestCommit, IngestEnd, TypeOK
    <3>3. CASE \E u \in Urls, h \in Hashes : IngestLookup(i, u, h)
      BY <1>0, <2>2, <3>3 DEF IngestLookup, TypeOK
    <3>4. QED
      BY <1>4, <3>1, <3>2, <3>3
  <2>3. QED
    BY <2>1, <2>2
<1>5. ASSUME UNCHANGED ingest PROVE ingest'[j] = ingest[j]
  BY <1>5
<1>6. QED
  BY <1>1, <1>2, <1>3, <1>4, <1>5, IngestKept
     DEF Next, IngestKnown, CollapseRead, CollapseApply, CollapseAbort, Leave, Requeue

\* An insert draws a fresh id, and waits for whoever holds its url.
LEMMA DifferStep == IInv /\ [Next]_vars => InsertsDiffer'
<1> SUFFICES ASSUME IInv, [Next]_vars PROVE InsertsDiffer'
  OBVIOUS
<1> USE DEF vars, rows
<1>0. TypeOK /\ IngestsOK /\ InsertsDiffer
  BY DEF IInv
<1>1. ASSUME NEW i \in Ingests, IngestInsert(i) PROVE InsertsDiffer'
  <2>1. \A j \in Ingests : j # i => ingest'[j] = ingest[j]
    BY <1>0, <1>1 DEF IngestInsert, TypeOK
  <2>2. ingest'[i].url = ingest[i].url /\ ingest'[i].id = nextId
    BY <1>0, <1>1 DEF IngestInsert, TypeOK
  <2>3. \A j \in Ingests : ingest[j].at = "commit" => ingest[j].url # ingest[i].url /\ ingest[j].id # nextId
    BY <1>0, <1>1 DEF IngestInsert, IngestsOK, IngestOK, TypeOK
  <2>4. QED
    BY <1>0, <2>1, <2>2, <2>3 DEF InsertsDiffer
<1>2. ASSUME \A j \in Ingests : ingest'[j] = ingest[j] \/ ingest'[j].at # "commit" PROVE InsertsDiffer'
  BY <1>0, <1>2 DEF InsertsDiffer
<1>3. ASSUME NEW i \in Ingests, IngestCommit(i) \/ IngestEnd(i) PROVE InsertsDiffer'
  BY <1>0, <1>2, <1>3 DEF IngestCommit, IngestEnd, IdleIngest, TypeOK
<1>4. ASSUME NEW i \in Ingests, NEW u \in Urls, NEW h \in Hashes, IngestLookup(i, u, h) PROVE InsertsDiffer'
  BY <1>0, <1>2, <1>4 DEF IngestLookup, TypeOK
<1>5. ASSUME UNCHANGED ingest PROVE InsertsDiffer'
  BY <1>2, <1>5
<1>6. QED
  BY <1>1, <1>3, <1>4, <1>5
     DEF Next, IngestKnown, CollapseRead, CollapseApply, CollapseAbort, Leave, Requeue

\* The canonical a collapse picks is the lowest id it has read.
LEMMA CollapsesStep == IInv /\ [Next]_vars => CollapsesOK'
<1> SUFFICES ASSUME IInv, [Next]_vars, NEW d \in Collapses PROVE CollapseOK(collapse[d])'
  BY DEF CollapsesOK
<1> USE DEF vars, rows
<1>0. TypeOK /\ RowsOK /\ CollapseOK(collapse[d]) /\ Rows \subseteq Rows'
  BY RowsGrow DEF IInv, CollapsesOK
<1>1. ASSUME CollapseRead(d) PROVE CollapseOK(collapse[d])'
  <2>1. PICK canon \in Visible : /\ \A r \in Visible : canon <= r
                                 /\ collapse'[d] = ReadInbox(canon)
    BY <1>0, <1>1 DEF CollapseRead, TypeOK
  <2>2. Visible \subseteq Rows
    BY <1>0 DEF Visible, RowsOK
  <2>3. ReadInbox(canon).canon = canon /\ ReadInbox(canon).dups \subseteq Visible \ {canon}
    BY DEF ReadInbox
  <2>4. \A r \in ReadInbox(canon).dups : canon < r
    <3>1. \A r \in Visible : r \in Nat
      BY <2>2 DEF Rows, Ids
    <3>2. QED
      BY <2>1, <2>3, <3>1
  <2>5. canon \in Rows'
    BY <1>0, <2>1, <2>2
  <2>6. /\ (collapse[d].canon)' = canon
        /\ \A r \in (collapse[d].dups)' : canon < r
    BY <2>1, <2>3, <2>4
  <2>7. QED
    BY <2>5, <2>6 DEF CollapseOK
<1>2. ASSUME collapse'[d] = collapse[d] PROVE CollapseOK(collapse[d])'
  BY <1>0, <1>2 DEF CollapseOK
<1>3. ASSUME collapse'[d] = IdleCollapse PROVE CollapseOK(collapse[d])'
  BY <1>3 DEF CollapseOK, IdleCollapse
<1>4. ASSUME NEW c \in Collapses, CollapseRead(c) \/ CollapseApply(c) \/ CollapseAbort(c)
      PROVE  collapse'[d] = collapse[d] \/ collapse'[d] = IdleCollapse \/ CollapseRead(d)
  BY <1>0, <1>4 DEF CollapseRead, CollapseApply, CollapseAbort, TypeOK
<1>5. ASSUME UNCHANGED collapse PROVE collapse'[d] = collapse[d]
  BY <1>5
<1>6. QED
  BY <1>1, <1>2, <1>3, <1>4, <1>5
     DEF Next, IngestKnown, IngestLookup, IngestInsert, IngestCommit, IngestEnd, Leave, Requeue

\* Only a commit and a collapse fold rows, both into a row that is older.
LEMMA OlderStep == IInv /\ [Next]_vars => CanonicalIsOlder'
<1> SUFFICES ASSUME IInv, [Next]_vars, NEW r \in Ids, canonical'[r] # NoId
             PROVE  canonical'[r] < r /\ canonical'[r] \in Rows'
  BY DEF CanonicalIsOlder
<1> USE DEF vars, rows
<1>0. Rows \subseteq Rows' /\ TypeOK /\ CanonicalIsOlder
  BY RowsGrow DEF IInv
<1>1. ASSUME NEW i \in Ingests, IngestCommit(i)
      PROVE  canonical'[r] < r /\ canonical'[r] \in Rows'
  <2>1. /\ ingest[i].canonical # NoId => ingest[i].canonical \in Rows
        /\ ingest[i].canonical < ingest[i].id
    BY <1>1 DEF IngestCommit, IInv, IngestsOK, IngestOK
  <2>2. QED
    BY <1>0, <1>1, <2>1, CommitAdds DEF CanonicalIsOlder
<1>2. ASSUME NEW c \in Collapses, CollapseApply(c)
      PROVE  canonical'[r] < r /\ canonical'[r] \in Rows'
  <2>1. collapse[c].canon \in Rows /\ \A q \in collapse[c].dups : collapse[c].canon < q
    BY <1>2 DEF CollapseApply, IInv, CollapsesOK, CollapseOK
  <2>2. canonical'[r] = IF r \in collapse[c].dups THEN collapse[c].canon ELSE canonical[r]
    BY <1>2 DEF CollapseApply
  <2>3. QED
    BY <1>0, <2>1, <2>2 DEF CanonicalIsOlder
<1>3. ASSUME UNCHANGED canonical PROVE canonical'[r] < r /\ canonical'[r] \in Rows'
  BY <1>0, <1>3 DEF CanonicalIsOlder
<1>4. QED
  BY <1>1, <1>2, <1>3
     DEF Next, IngestKnown, IngestLookup, IngestInsert, IngestEnd, CollapseRead, CollapseAbort,
         Leave, Requeue

------------------------------------------------------------------------------
\* Whatever ingests and collapses interleave: the tables keep their types, the
\* folds point backwards to rows, and urls stay unique.
THEOREM Invariance == Spec => []IInv
<1>1. IInv /\ [Next]_vars => IInv'
  BY TypeStep, RowsStep, IngestsStep, CollapsesStep, DifferStep, OlderStep, UniqueStep DEF IInv
<1>2. QED
  BY InitIInv, <1>1, PTL DEF Spec

\* Every column and every request holds a value of its type.
THEOREM TypeCorrect == Spec => []TypeOK
<1>1. IInv => TypeOK
  BY DEF IInv
<1>2. QED
  BY Invariance, <1>1, PTL

\* A near-duplicate points to an older row, whoever folded it.
THEOREM FoldsPointBack == Spec => []CanonicalIsOlder
<1>1. IInv => CanonicalIsOlder
  BY DEF IInv
<1>2. QED
  BY Invariance, <1>1, PTL

\* The rows from r on, each folded into the next, up to one that is not folded.
Folds(p, n, r) ==
  /\ p \in [0..n -> Rows] /\ p[0] = r
  /\ \A i \in 0..n : canonical[p[i]] = IF i = n THEN NoId ELSE p[i + 1]

LeadsHome == \A r \in Rows : \E n \in Nat : \E p \in [0..n -> Rows] : Folds(p, n, r)

\* Rows that are folded into older rows are folded, in so many steps, into one
\* that is not: of the rows without such a chain there is no oldest.
LEMMA OlderLeadsHome == ASSUME TypeOK, CanonicalIsOlder PROVE LeadsHome
<1> DEFINE Home(r) == \E n \in Nat : \E p \in [0..n -> Rows] : Folds(p, n, r)
           lost == {r \in Rows : ~Home(r)}
<1>1. SUFFICES ASSUME lost # {} PROVE FALSE
  BY DEF LeadsHome
<1>2. lost \subseteq Nat
  BY DEF Rows
<1>3. PICK r \in lost : \A q \in lost : r <= q
  <2> HIDE DEF lost
  <2> QED
    BY <1>1, <1>2, LeastNumber
<1>4. r \in Rows /\ ~Home(r)
  OBVIOUS
<1>5. CASE canonical[r] = NoId
  <2> DEFINE p == [i \in 0..0 |-> r]
  <2>1. p \in [0..0 -> Rows] /\ Folds(p, 0, r)
    BY <1>4, <1>5 DEF Folds
  <2> HIDE DEF p
  <2>2. Home(r)
    <3>1. 0 \in Nat
      OBVIOUS
    <3> QED
      BY <2>1, <3>1
  <2> QED
    BY <1>4, <2>2
<1>6. CASE canonical[r] # NoId
  <2> DEFINE c == canonical[r]
  <2>1. c < r /\ c \in Rows /\ c \in Nat /\ r \in Nat
    BY <1>4, <1>6 DEF CanonicalIsOlder, Rows
  <2>2. c \notin lost
    <3>1. ~(r <= c)
      BY <2>1
    <3> QED
      BY <1>3, <3>1
  <2>3. PICK n \in Nat : \E p \in [0..n -> Rows] : Folds(p, n, c)
    BY <2>1, <2>2
  <2>4. PICK p \in [0..n -> Rows] : Folds(p, n, c)
    BY <2>3
  <2> DEFINE q == [i \in 0..(n + 1) |-> IF i = 0 THEN r ELSE p[i - 1]]
  <2>5. /\ q \in [0..(n + 1) -> Rows] /\ q[0] = r
        /\ \A i \in 0..n : q[i + 1] = p[i]
    <3>1. \A i \in 0..(n + 1) : i # 0 => i - 1 \in 0..n
      OBVIOUS
    <3>2. \A i \in 0..n : i + 1 \in 0..(n + 1) /\ i + 1 # 0 /\ (i + 1) - 1 = i
      OBVIOUS
    <3>3. 0 \in 0..(n + 1)
      OBVIOUS
    <3> QED
      BY <1>4, <3>1, <3>2, <3>3
  <2> HIDE DEF q
  <2>6. \A i \in 0..(n + 1) : canonical[q[i]] = IF i = n + 1 THEN NoId ELSE q[i + 1]
    <3> TAKE i \in 0..(n + 1)
    <3>1. CASE i = 0
      <4>1. q[1] = p[0] /\ p[0] = c
        BY <2>4, <2>5 DEF Folds
      <4> QED
        BY <2>5, <3>1, <4>1
    <3>2. CASE i # 0
      <4>1. PICK j \in 0..n : i = j + 1
        <5>1. i - 1 \in 0..n /\ i = (i - 1) + 1
          BY <3>2
        <5> QED
          BY <5>1
      <4>2. q[i] = p[j] /\ canonical[p[j]] = IF j = n THEN NoId ELSE p[j + 1]
        BY <2>4, <2>5, <4>1 DEF Folds
      <4>3. CASE j = n
        BY <4>1, <4>2, <4>3
      <4>4. CASE j # n
        <5>1. j + 1 \in 0..n /\ i # n + 1 /\ i + 1 = (j + 1) + 1
          BY <4>1, <4>4
        <5>2. q[i + 1] = p[j + 1]
          BY <2>5, <5>1
        <5> QED
          BY <4>2, <4>4, <5>1, <5>2
      <4> QED
        BY <4>3, <4>4
    <3> QED
      BY <3>1, <3>2
  <2>7. n + 1 \in Nat /\ Folds(q, n + 1, r)
    BY <2>5, <2>6 DEF Folds
  <2> HIDE DEF q
  <2>8. Home(r)
    BY <2>5, <2>7
  <2> QED
    BY <1>4, <2>8
<1> QED
  BY <1>5, <1>6

\* canonical_id has no cycles: whatever ingests and collapses were under way,
\* from every row the folds lead, in finitely many steps, to a canonical one.
THEOREM FoldsLeadHome == Spec => []LeadsHome
<1>1. IInv => LeadsHome
  BY OlderLeadsHome DEF IInv
<1>2. QED
  BY Invariance, <1>1, PTL

\* IngestPosting's lookup and the unique index together keep urls apart.
THEOREM UrlsAreUnique == Spec => []UrlTrackedOnce
<1>1. IInv => UrlTrackedOnce
  BY DEF IInv
<1>2. QED
  BY Invariance, <1>1, PTL
==============================================================================
