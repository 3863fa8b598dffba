---------------------------- MODULE ImportProofs ----------------------------
(***************************************************************************)
(* What holds of imports, remedies, ratings and moves beside a reload, for *)
(* any documents, files, postings and number of them.                      *)
(***************************************************************************)
EXTENDS Import, FiniteSetTheorems, SequenceTheorems, TLAPS

USE BoundsAssumption, KeysAssumption, FilesAssumption DEF NoUrl, NoFile, Ids

\* Ids not handed out yet have no row; what is claimed has one.
RowsOK ==
  /\ \A i \in Ids : i >= nextId => key[i] = NoKey
  /\ \A i \in Ids : key[i] = NoKey => status[i] = "absent" /\ i \notin claimed
  /\ \A r \in writes : r.kind = "migrated" => r.file \in Files

\* What a task is to write is about the role of its row, or late by now.
TasksOK ==
  \A t \in Tasks :
    /\ task[t].since <= reloads
    /\ task[t].phase # "busy" => task[t].todo = {}
    /\ \A p \in task[t].todo : p.about = key[p.row] \/ p.late \/ Late(t)

RatersOK == \A t \in Raters : \A p, q \in task[t].todo : p = q

\* An import, the only one, has a file for each of its rows, and none of them
\* has a migrated report yet.
ImportsOK ==
  \A t \in Imports : \A p \in task[t].todo :
    /\ p.file \in Files
    /\ (\A s \in Imports : s = t) =>
         /\ \A q \in task[t].todo : q.row = p.row => q = p
         /\ \A r \in writes : r.kind = "migrated" => r.row # p.row

IInv == TypeOK /\ RowsOK /\ TasksOK /\ RatersOK /\ ImportsOK
          /\ ForeignIsLate /\ OneMigratedReport /\ ClaimsHaveRaters

------------------------------------------------------------------------------
(* The shape of a document's columns, and of what a task reads.            *)

\* The columns that a document gives have the types of the tables.
LEMMA DocumentColumns ==
  ASSUME NEW doc \in Documents \cup {<<>>}
  PROVE  /\ KeysOf(doc) \in [Ids -> Keys \cup {NoKey}]
         /\ StatusesOf(doc) \in [Ids -> Statuses]
         /\ Len(doc) + 1 \in 1..(MaxId + 1)
         /\ \A i \in Ids : i >= Len(doc) + 1 => KeysOf(doc)[i] = NoKey
         /\ \A i \in Ids : KeysOf(doc)[i] = NoKey => StatusesOf(doc)[i] = "absent"
         /\ \A i \in Ids : StatusesOf(doc)[i] # "inbox"
<1> DEFINE Line == [key : Keys, status : Progression \cup SideStates]
<1>1. doc \in Seq(Line)
  BY EmptySeq, DocumentsAssumption
<1>2. Len(doc) \in Nat /\ DOMAIN doc = 1..Len(doc)
  BY <1>1, LenProperties
<1>3. \A i \in 1..Len(doc) : doc[i] \in Line
  BY <1>1, ElementOfSeq
<1>bound. Len(doc) <= MaxId
  BY EmptySeq, DocumentsAssumption
<1>4. \A i \in 1..Len(doc) : doc[i].key \in Keys /\ doc[i].status \in Progression \cup SideStates
  BY <1>3
<1>5. QED
  BY <1>2, <1>4, <1>bound DEF KeysOf, StatusesOf, Statuses, AllStatuses, Progression, SideStates

\* What is read of a row that exists is something to be done.
LEMMA ReadType ==
  ASSUME TypeOK, NEW i \in Ids, Exists(i), NEW f \in Files \cup {NoFile}
  PROVE  Read(i, f) \in Todo /\ Read(i, f).row = i /\ Read(i, f).about = key[i] /\ Read(i, f).file = f
BY DEF TypeOK, Exists, Read, Todo

\* A task that begins holds what it read, as of now; the others are as before.
LEMMA BeginTask ==
  ASSUME TypeOK, NEW t \in Tasks, NEW todo \in SUBSET Todo, Begin(t, todo)
  PROVE  /\ task' \in [Tasks -> [phase : Phases, since : 0..MaxReloads, todo : SUBSET Todo]]
         /\ task'[t].todo = todo /\ task'[t].since = reloads /\ task'[t].phase = "busy"
         /\ \A s \in Tasks : s # t => task'[s] = task[s]
BY DEF TypeOK, Begin, Phases

\* A task that ends is idle, and no other changes.
LEMMA EndTask ==
  ASSUME TypeOK, NEW t \in Tasks, End(t)
  PROVE  /\ task' \in [Tasks -> [phase : Phases, since : 0..MaxReloads, todo : SUBSET Todo]]
         /\ task'[t].todo = {} /\ task'[t].since = 0 /\ task'[t].phase = "idle"
         /\ \A s \in Tasks : s # t => task'[s] = task[s]
BY DEF TypeOK, End, Idle, Phases

\* A task that has done a posting has it to do no longer, and no other changes.
LEMMA DoneTask ==
  ASSUME TypeOK, NEW t \in Tasks, NEW p, Done(t, p)
  PROVE  /\ task' \in [Tasks -> [phase : Phases, since : 0..MaxReloads, todo : SUBSET Todo]]
         /\ task'[t].todo = task[t].todo \ {p}
         /\ task'[t].since = task[t].since /\ task'[t].phase = task[t].phase
         /\ \A s \in Tasks : s # t => task'[s] = task[s]
BY DEF TypeOK, Done, Phases

\* The record of a write: what it says of its row, and when it was read.
LEMMA RecordType ==
  ASSUME TypeOK, NEW t \in Tasks, NEW p \in task[t].todo, NEW k \in {"rating", "migrated", "url", "move"},
         Record(t, p, k)
  PROVE  /\ p \in Todo
         /\ \E r \in Writes : /\ writes' = writes \cup {r}
                              /\ r.row = p.row /\ r.kind = k /\ r.about = p.about /\ r.file = p.file
                              /\ r.late <=> (p.late \/ Late(t))
<1>1. p \in Todo
  BY DEF TypeOK
<1>2. p.late \in BOOLEAN /\ Late(t) \in BOOLEAN
  BY <1>1 DEF Todo, Late
<1> DEFINE r == [row |-> p.row, kind |-> k, about |-> p.about, file |-> p.file, late |-> p.late \/ Late(t)]
<1>3. r \in Writes
  BY <1>1, <1>2 DEF Todo, Writes
<1>4. writes' = writes \cup {r}
  BY DEF Record
<1>5. QED
  BY <1>1, <1>3, <1>4

\* An empty database, or a freshly loaded one, satisfies everything.
LEMMA InitIInv == Init => IInv
<1> SUFFICES ASSUME Init PROVE IInv
  OBVIOUS
<1>1. PICK doc \in Documents \cup {<<>>} :
        key = KeysOf(doc) /\ status = StatusesOf(doc) /\ nextId = Len(doc) + 1
  BY DEF Init
<1>2. TypeOK
  BY <1>1, DocumentColumns DEF Init, TypeOK, ForeignKeys, Idle, Phases, NoUrls
<1>3. RowsOK
  BY <1>1, DocumentColumns DEF Init, RowsOK
<1>4. TasksOK /\ RatersOK /\ ImportsOK
  BY DEF Init, TasksOK, RatersOK, ImportsOK, Idle, Tasks
<1>5. ForeignIsLate /\ OneMigratedReport /\ ClaimsHaveRaters
  BY DEF Init, ForeignIsLate, OneMigratedReport, ClaimsHaveRaters
<1>6. QED
  BY <1>2, <1>3, <1>4, <1>5 DEF IInv

------------------------------------------------------------------------------
(* What a step does to the tasks, and what a write leaves behind.          *)

\* A task that ends, or has done one thing, leaves the others as they were.
LEMMA ShrinkStep ==
  ASSUME IInv, NEW t \in Tasks, End(t) \/ \E p : Done(t, p), UNCHANGED <<key, reloads>>
  PROVE  /\ task' \in [Tasks -> [phase : Phases, since : 0..MaxReloads, todo : SUBSET Todo]]
         /\ TasksOK' /\ RatersOK'
         /\ \A s \in Tasks : task'[s].todo \subseteq task[s].todo
         /\ \A s \in Tasks : s # t => task'[s] = task[s]
<1>0. TypeOK /\ TasksOK /\ RatersOK /\ reloads \in Nat
  BY DEF IInv, TypeOK
<1>1. \A s \in Tasks : s # t => task'[s] = task[s]
  BY <1>0, EndTask, DoneTask
<1>2. /\ task' \in [Tasks -> [phase : Phases, since : 0..MaxReloads, todo : SUBSET Todo]]
      /\ \/ task'[t].todo = {} /\ task'[t].since = 0
         \/ /\ task'[t].todo \subseteq task[t].todo
            /\ task'[t].since = task[t].since /\ task'[t].phase = task[t].phase
  BY <1>0, EndTask, DoneTask
<1>3. \A s \in Tasks : task'[s].todo \subseteq task[s].todo
  BY <1>1, <1>2
<1>4. TasksOK'
  BY <1>0, <1>1, <1>2 DEF TasksOK, Late
<1>5. RatersOK'
  BY <1>0, <1>3 DEF RatersOK, Tasks
<1>6. QED
  BY <1>1, <1>2, <1>3, <1>4, <1>5

\* A write leaves a record that is about its row, or late; a report is attached
\* by an import, which is done with its row then.
LEMMA WriteStep ==
  ASSUME IInv, NEW t \in Tasks, NEW p \in task[t].todo,
         NEW k \in {"rating", "migrated", "url", "move"}, Record(t, p, k),
         Exists(p.row),
         k = "migrated" => t \in Imports, End(t) \/ Done(t, p), k = "migrated" => Done(t, p),
         UNCHANGED <<key, reloads>>
  PROVE  /\ writes' \subseteq Writes /\ ForeignIsLate' /\ OneMigratedReport' /\ ImportsOK'
         /\ \A r \in writes' : Exists(r.row) /\ (r.kind = "migrated" => r.file \in Files)
<1>0. /\ TypeOK /\ RowsOK /\ TasksOK /\ ImportsOK /\ ForeignIsLate /\ OneMigratedReport
      /\ Imports \subseteq Tasks
  BY DEF IInv, Tasks
<1>1. PICK n \in Writes : /\ writes' = writes \cup {n}
                          /\ n.row = p.row /\ n.kind = k /\ n.about = p.about /\ n.file = p.file
                          /\ n.late <=> (p.late \/ Late(t))
  BY <1>0, RecordType
<1>2. writes' \subseteq Writes
  BY <1>0, <1>1 DEF TypeOK
<1>3. ForeignIsLate'
  BY <1>0, <1>1 DEF ForeignIsLate, TasksOK
<1>row. \A r \in writes' : Exists(r.row)
  BY <1>0, <1>1 DEF TypeOK, ForeignKeys, Exists
<1>4. \A s \in Tasks : task'[s].todo \subseteq task[s].todo
  BY ShrinkStep
<1>5. CASE k # "migrated"
  <2>1. OneMigratedReport'
    BY <1>0, <1>1, <1>5 DEF OneMigratedReport
  <2>2. ImportsOK'
    BY <1>0, <1>1, <1>4, <1>5 DEF ImportsOK
  <2>3. \A r \in writes' : r.kind = "migrated" => r.file \in Files
    BY <1>0, <1>1, <1>5 DEF RowsOK
  <2>4. QED
    BY <1>2, <1>3, <1>row, <2>1, <2>2, <2>3
<1>6. CASE k = "migrated"
  <2>1. t \in Imports /\ task'[t].todo = task[t].todo \ {p} /\ p.file \in Files
    BY <1>0, <1>6, DoneTask DEF ImportsOK
  <2>2. OneMigratedReport'
    BY <1>0, <1>1, <2>1 DEF OneMigratedReport, ImportsOK
  <2>3. ImportsOK'
    <3> SUFFICES ASSUME NEW s \in Imports, NEW q \in task'[s].todo
                 PROVE  /\ q.file \in Files
                        /\ (\A u \in Imports : u = s) =>
                             /\ \A o \in task'[s].todo : o.row = q.row => o = q
                             /\ \A r \in writes' : r.kind = "migrated" => r.row # q.row
      BY DEF ImportsOK
    <3>1. q \in task[s].todo /\ task'[s].todo \subseteq task[s].todo
      BY <1>0, <1>4
    <3>2. (\A u \in Imports : u = s) => q.row # p.row
      BY <1>0, <2>1, <3>1 DEF ImportsOK
    <3>3. QED
      BY <1>0, <1>1, <3>1, <3>2 DEF ImportsOK
  <2>4. \A r \in writes' : r.kind = "migrated" => r.file \in Files
    BY <1>0, <1>1, <2>1 DEF RowsOK
  <2>5. QED
    BY <1>2, <1>3, <1>row, <2>2, <2>3, <2>4
<1>7. QED
  BY <1>5, <1>6

\* A task that reads rows as they are, none of which it had to write before.
LEMMA BeginStep ==
  ASSUME IInv, NEW t \in Tasks, NEW todo \in SUBSET Todo, Begin(t, todo), task[t].todo = {},
         UNCHANGED <<key, status, url, nextId, posted, writes, reloads>>,
         \A p \in todo : p.about = key[p.row] \/ p.late,
         \/ claimed' = claimed
         \/ t \in Raters /\ \E p \in todo : claimed' = claimed \cup {p.row} /\ Exists(p.row),
         t \in Raters => \A p, q \in todo : p = q,
         t \in Imports => \A p \in todo : /\ p.file \in Files
                                          /\ \A q \in todo : q.row = p.row => q = p
                                          /\ \A r \in writes : r.kind = "migrated" => r.row # p.row
  PROVE  IInv'
<1>0. /\ TypeOK /\ RowsOK /\ TasksOK /\ RatersOK /\ ImportsOK
      /\ ForeignIsLate /\ OneMigratedReport /\ ClaimsHaveRaters
      /\ Imports \subseteq Tasks /\ Raters \subseteq Tasks /\ reloads \in Nat
  BY DEF IInv, Tasks, TypeOK
<1>1. /\ task' \in [Tasks -> [phase : Phases, since : 0..MaxReloads, todo : SUBSET Todo]]
      /\ task'[t].todo = todo /\ task'[t].since = reloads /\ task'[t].phase = "busy"
      /\ \A s \in Tasks : s # t => task'[s] = task[s]
  BY <1>0, BeginTask
<1>2. TypeOK'
  <2>1. \A p \in todo : p.row \in Ids
    BY DEF Todo
  <2>2. claimed' \subseteq Ids
    <3>1. CASE claimed' = claimed
      BY <1>0, <3>1 DEF TypeOK
    <3>2. ASSUME NEW p \in todo, claimed' = claimed \cup {p.row} PROVE claimed' \subseteq Ids
      <4>1. claimed \subseteq Ids
        BY <1>0 DEF TypeOK
      <4>2. p.row \in Ids
        BY <2>1
      <4>3. QED
        BY <3>2, <4>1, <4>2
    <3>3. QED
      BY <3>1, <3>2
  <2>3. ForeignKeys'
    BY <1>0 DEF TypeOK, ForeignKeys, Exists
  <2>4. QED
    BY <1>0, <1>1, <2>2, <2>3 DEF TypeOK
<1>3. RowsOK'
  BY <1>0 DEF RowsOK, Exists
<1>4. TasksOK'
  BY <1>0, <1>1 DEF TasksOK, Late
<1>5. RatersOK'
  BY <1>0, <1>1 DEF RatersOK
<1>6. ImportsOK'
  BY <1>0, <1>1 DEF ImportsOK
<1>7. ForeignIsLate' /\ OneMigratedReport'
  BY <1>0 DEF ForeignIsLate, OneMigratedReport
<1>8. ClaimsHaveRaters'
  <2> SUFFICES ASSUME NEW i \in claimed', status'[i] = "inbox"
               PROVE  \E s \in Raters : \E p \in task'[s].todo : p.row = i
    BY DEF ClaimsHaveRaters
  <2>1. CASE i \in claimed
    <3>1. PICK s \in Raters : \E p \in task[s].todo : p.row = i
      BY <1>0, <2>1 DEF ClaimsHaveRaters
    <3>2. QED
      BY <1>0, <1>1, <3>1
  <2>2. CASE i \notin claimed
    BY <1>1, <2>2
  <2>3. QED
    BY <2>1, <2>2
<1>9. QED
  BY <1>2, <1>3, <1>4, <1>5, <1>6, <1>7, <1>8 DEF IInv

------------------------------------------------------------------------------
(* The assignment of files to rows.                                        *)

\* Among the files of a key the order by length, ties broken, is strict and total.
LEMMA FullerOrders ==
  ASSUME NEW f \in Files, NEW g \in Files
  PROVE  /\ ~Fuller(f, f)
         /\ f # g => Fuller(f, g) \/ Fuller(g, f)
         /\ \A h \in Files : Fuller(h, f) /\ Fuller(f, g) => Fuller(h, g)
<1>1. \A x \in Files : x \in Nat /\ FileLength[x] \in Nat
  OBVIOUS
<1>2. QED
  BY <1>1 DEF Fuller

\* The fuller of two files of a key has the smaller rank.
LEMMA FullerRanksFirst ==
  ASSUME NEW upload \in SUBSET Files, NEW f \in upload, NEW g \in upload,
         FileKey[f] = FileKey[g], Fuller(f, g)
  PROVE  Cardinality({h \in upload : FileKey[h] = FileKey[f] /\ Fuller(h, f)})
           # Cardinality({h \in upload : FileKey[h] = FileKey[g] /\ Fuller(h, g)})
<1> DEFINE S == {h \in upload : FileKey[h] = FileKey[f] /\ Fuller(h, f)}
           T == {h \in upload : FileKey[h] = FileKey[g] /\ Fuller(h, g)}
<1>1. IsFiniteSet(T)
  BY FS_Subset
<1>2. S \subseteq T
  BY FullerOrders
<1>3. f \in T /\ f \notin S
  BY FullerOrders
<1>4. Cardinality(S) # Cardinality(T)
  BY <1>1, <1>2, <1>3, FS_Subset
<1>5. QED
  BY <1>4

\* No candidate is assigned two files.
LEMMA AssignedOnce ==
  ASSUME NEW upload \in SUBSET Files, NEW candidates, NEW i, NEW f \in upload, NEW g \in upload,
         Assigned(f, i, upload, candidates), Assigned(g, i, upload, candidates)
  PROVE  f = g
<1>1. FileKey[f] = FileKey[g]
  BY DEF Assigned
<1>2. Cardinality({h \in upload : FileKey[h] = FileKey[f] /\ Fuller(h, f)})
        = Cardinality({h \in upload : FileKey[h] = FileKey[g] /\ Fuller(h, g)})
  BY DEF Assigned
<1>3. ~Fuller(f, g) /\ ~Fuller(g, f)
  BY <1>1, <1>2, FullerRanksFirst
<1>4. QED
  BY <1>3, FullerOrders

------------------------------------------------------------------------------
(* The steps.                                                              *)

\* A reload: new rows, nothing written, nothing claimed, and every task late.
LEMMA LoadStep ==
  ASSUME IInv, NEW doc \in Documents, LoadTracker(doc)
  PROVE  IInv'
<1> USE DEF LoadTracker, ReloadRows
<1>0. TypeOK /\ TasksOK /\ RatersOK /\ ImportsOK /\ reloads \in Nat
  BY DEF IInv, TypeOK
<1>1. TypeOK'
  BY <1>0, DocumentColumns DEF TypeOK, ForeignKeys, NoUrls
<1>2. RowsOK'
  BY DocumentColumns DEF RowsOK
<1>3. TasksOK'
  BY <1>0 DEF TasksOK, Late, TypeOK
<1>4. RatersOK' /\ ImportsOK'
  BY <1>0 DEF RatersOK, ImportsOK
<1>5. ForeignIsLate' /\ OneMigratedReport' /\ ClaimsHaveRaters'
  BY DEF ForeignIsLate, OneMigratedReport, ClaimsHaveRaters
<1>6. QED
  BY <1>1, <1>2, <1>3, <1>4, <1>5 DEF IInv

\* A new row takes an id that no task and no write knows.
LEMMA IngestStep ==
  ASSUME IInv, NEW u \in Urls, IngestPosting(u)
  PROVE  IInv'
<1>0. /\ TypeOK /\ RowsOK /\ TasksOK /\ RatersOK /\ ImportsOK
      /\ ForeignIsLate /\ OneMigratedReport /\ ClaimsHaveRaters
  BY DEF IInv
<1>1. UNCHANGED <<claimed, writes, reloads, task>>
  BY DEF IngestPosting
<1>2. \A t \in Tasks : \A p \in task[t].todo : p.about \in Keys /\ p.row \in Ids
  BY <1>0 DEF TypeOK, Todo
<1>3. \A r \in writes : r.about \in Keys /\ r.row \in Ids
  BY <1>0 DEF TypeOK, Writes
<1>4. RatersOK' /\ ImportsOK' /\ OneMigratedReport'
  BY <1>0, <1>1 DEF RatersOK, ImportsOK, OneMigratedReport
<1>5. CASE /\ UNCHANGED <<key, status, url, nextId>>
           /\ \E i \in Ids : url[i] = u /\ posted' = posted \cup {i}
  <2>0. u # NoUrl
    BY FilesAssumption
  <2>1. TypeOK'
    BY <1>0, <1>1, <1>5, <2>0 DEF TypeOK, ForeignKeys
  <2>2. RowsOK' /\ TasksOK' /\ ForeignIsLate' /\ ClaimsHaveRaters'
    BY <1>0, <1>1, <1>5 DEF RowsOK, TasksOK, Late, ForeignIsLate, ClaimsHaveRaters
  <2>3. QED
    BY <1>4, <2>1, <2>2 DEF IInv
<1>6. CASE /\ nextId \in Ids
           /\ key'    = [key EXCEPT ![nextId] = UrlKey[u]]
           /\ status' = [status EXCEPT ![nextId] = "inbox"]
           /\ url'    = [url EXCEPT ![nextId] = u]
           /\ posted' = posted \cup {nextId}
           /\ nextId' = nextId + 1
  <2>1. UrlKey[u] \in Keys /\ "inbox" \in Statuses
    BY DEF Statuses, AllStatuses
  <2>2. /\ key' \in [Ids -> Keys \cup {NoKey}] /\ status' \in [Ids -> Statuses]
        /\ url' \in [Ids -> Urls \cup {NoUrl}] /\ nextId' \in 1..(MaxId + 1) /\ posted' \subseteq Ids
    BY <1>0, <1>6, <2>1 DEF TypeOK
  <2>3. key[nextId] = NoKey /\ \A i \in Ids : i # nextId => key'[i] = key[i] /\ status'[i] = status[i]
    BY <1>0, <1>6 DEF RowsOK, TypeOK
  <2>4. key'[nextId] = UrlKey[u] /\ status'[nextId] = "inbox"
    BY <1>0, <1>6 DEF TypeOK
  <2>keys. ForeignKeys'
    BY <1>0, <1>1, <1>3, <1>6, <2>1, <2>3, <2>4 DEF TypeOK, ForeignKeys
  <2>type. TypeOK'
    BY <1>0, <1>1, <2>2, <2>keys DEF TypeOK
  <2>5. RowsOK'
    BY <1>0, <1>1, <1>6, <2>1, <2>3, <2>4 DEF RowsOK, TypeOK
  <2>6. TasksOK'
    BY <1>0, <1>1, <1>2, <2>3 DEF TasksOK, Late
  <2>7. ForeignIsLate'
    BY <1>0, <1>1, <1>3, <2>3 DEF ForeignIsLate
  <2>8. ClaimsHaveRaters'
    BY <1>0, <1>1, <1>6, <2>3 DEF ClaimsHaveRaters, RowsOK, TypeOK
  <2>9. QED
    BY <1>4, <2>type, <2>5, <2>6, <2>7, <2>8 DEF IInv
<1>7. QED
  BY <1>5, <1>6 DEF IngestPosting

\* Claims, moves, imports and remedies read rows that exist.
LEMMA ReadStep ==
  ASSUME IInv, NEW t \in Tasks,
         \/ t \in Raters /\ \E i \in Ids : ClaimNextInbox(t, i)
         \/ t \in Movers /\ \E i \in Ids : SetStatusRead(t, i)
         \/ t \in Imports /\ \E upload \in SUBSET Files : ImportRead(t, upload)
         \/ t \in Remedies /\ BackfillRead(t)
  PROVE  IInv'
<1>0. TypeOK /\ RowsOK /\ TasksOK /\ ForeignIsLate
  BY DEF IInv
<1>1. task[t] = Idle \/ task[t].phase # "busy" => task[t].todo = {}
  BY <1>0 DEF TasksOK, Idle
<1>2. ASSUME NEW i \in Ids, t \in Raters, ClaimNextInbox(t, i) PROVE IInv'
  <2>1. Exists(i)
    BY <1>0, <1>2 DEF ClaimNextInbox, RowsOK, Exists
  <2>2. {Read(i, NoFile)} \in SUBSET Todo /\ Read(i, NoFile).row = i /\ Read(i, NoFile).about = key[i]
    BY <1>0, <2>1, ReadType
  <2>3. t \notin Imports
    BY <1>2, TasksAssumption
  <2>4. QED
    BY <1>1, <1>2, <2>1, <2>2, <2>3, BeginStep DEF ClaimNextInbox, Idle
<1>3. ASSUME NEW i \in Ids, t \in Movers, SetStatusRead(t, i) PROVE IInv'
  <2>1. Exists(i)
    BY <1>0, <1>3 DEF SetStatusRead, CanTransition, Valid, AllStatuses, Progression, SideStates, RowsOK, Exists
  <2>2. {Read(i, NoFile)} \in SUBSET Todo /\ Read(i, NoFile).row = i /\ Read(i, NoFile).about = key[i]
    BY <1>0, <2>1, ReadType
  <2>3. t \notin Imports
    BY <1>3, TasksAssumption
  <2>4. QED
    BY <1>1, <1>3, <2>2, <2>3, BeginStep DEF SetStatusRead, Idle, rowVars
<1>4. ASSUME NEW upload \in SUBSET Files, t \in Imports, ImportRead(t, upload) PROVE IInv'
  <2> DEFINE todo == {p \in {Read(i, f) : i \in Ids, f \in upload} :
                        Assigned(p.file, p.row, upload, ImportedCandidates)}
  <2>1. \A p \in todo : /\ p.row \in Ids /\ Exists(p.row) /\ ~Reported(p.row) /\ p.file \in upload
                        /\ p = Read(p.row, p.file)
    <3> SUFFICES ASSUME NEW i \in Ids, NEW f \in upload,
                        Assigned(Read(i, f).file, Read(i, f).row, upload, ImportedCandidates)
                 PROVE  /\ Read(i, f).row = i /\ Read(i, f).file = f
                        /\ Exists(i) /\ ~Reported(i)
      OBVIOUS
    <3>1. Read(i, f).row = i /\ Read(i, f).file = f
      BY DEF Read
    <3>2. QED
      BY <3>1 DEF Assigned, ImportedCandidates
  <2>2. \A p \in todo : p \in Todo /\ p.about = key[p.row]
    BY <1>0, <2>1, ReadType
  <2>3. \A p, q \in todo : p.row = q.row => p = q
    BY <2>1, AssignedOnce
  <2>4. \A p \in todo : \A r \in writes : r.kind = "migrated" => r.row # p.row
    BY <2>1 DEF Reported
  <2>5. t \notin Raters
    BY <1>4, TasksAssumption
  <2>6. Begin(t, todo) /\ task[t].phase # "busy"
    BY <1>4 DEF ImportRead
  <2> HIDE DEF todo
  <2>7. QED
    BY <1>1, <1>4, <2>1, <2>2, <2>3, <2>4, <2>5, <2>6, BeginStep DEF ImportRead, rowVars
<1>5. ASSUME t \in Remedies, BackfillRead(t) PROVE IInv'
  <2> DEFINE todo == {[row |-> r.row, about |-> r.about, file |-> r.file, url |-> FileUrl[r.file],
                       late |-> r.late] : r \in Recoverable}
  <2>1. \A r \in Recoverable : r \in Writes /\ r.file \in Files /\ (r.about = key[r.row] \/ r.late)
    BY <1>0 DEF Recoverable, RowsOK, TypeOK, ForeignIsLate
  <2>2. \A p \in todo : p \in Todo /\ (p.about = key[p.row] \/ p.late)
    <3> SUFFICES ASSUME NEW r \in Recoverable
                 PROVE  LET p == [row |-> r.row, about |-> r.about, file |-> r.file,
                                  url |-> FileUrl[r.file], late |-> r.late]
                        IN  p \in Todo /\ (p.about = key[p.row] \/ p.late)
      OBVIOUS
    <3>1. /\ r.row \in Ids /\ r.about \in Keys /\ r.late \in BOOLEAN /\ r.file \in Files
          /\ FileUrl[r.file] \in Urls \cup {NoUrl} /\ (r.about = key[r.row] \/ r.late)
      BY <2>1 DEF Writes
    <3>2. QED
      BY <3>1 DEF Todo
  <2>3. t \notin Raters /\ t \notin Imports
    BY <1>5, TasksAssumption
  <2>4. Begin(t, todo)
    BY <1>5 DEF BackfillRead
  <2> HIDE DEF todo
  <2>5. QED
    BY <1>1, <1>5, <2>2, <2>3, <2>4, BeginStep DEF BackfillRead, rowVars, Idle
<1>6. QED
  BY <1>2, <1>3, <1>4, <1>5

\* A task that writes nothing leaves what is said of the writes as it was.
LEMMA KeepWrites ==
  ASSUME IInv, NEW t \in Tasks, End(t) \/ \E p : Done(t, p), UNCHANGED <<key, writes, reloads>>
  PROVE  /\ writes' \subseteq Writes /\ ForeignIsLate' /\ OneMigratedReport' /\ ImportsOK'
         /\ \A r \in writes' : Exists(r.row) /\ (r.kind = "migrated" => r.file \in Files)
<1>0. /\ TypeOK /\ RowsOK /\ ImportsOK /\ ForeignIsLate /\ OneMigratedReport
      /\ Imports \subseteq Tasks
  BY DEF IInv, Tasks
<1>1. \A s \in Tasks : task'[s].todo \subseteq task[s].todo
  BY ShrinkStep
<1>2. ImportsOK'
  BY <1>0, <1>1 DEF ImportsOK
<1>3. QED
  BY <1>0, <1>2 DEF TypeOK, ForeignKeys, Exists, RowsOK, ForeignIsLate, OneMigratedReport

\* A write by id, or none: what is left to show is of the columns it changes.
LEMMA FinishStep ==
  ASSUME IInv, NEW t \in Tasks, End(t) \/ \E p : Done(t, p), UNCHANGED <<key, nextId, reloads>>,
         writes' \subseteq Writes, ForeignIsLate', OneMigratedReport', ImportsOK',
         \A r \in writes' : Exists(r.row) /\ (r.kind = "migrated" => r.file \in Files),
         \A i \in Ids : url'[i] = url[i] \/ Exists(i),
         status' \in [Ids -> Statuses], url' \in [Ids -> Urls \cup {NoUrl}], posted' = posted,
         claimed' \subseteq claimed,
         \A i \in Ids : key[i] = NoKey => status'[i] = "absent",
         \A i \in claimed' : status'[i] = "inbox" =>
           /\ status[i] = "inbox"
           /\ t \in Raters => \A p \in task[t].todo : p.row # i
  PROVE  IInv'
<1>0. TypeOK /\ RowsOK /\ ClaimsHaveRaters /\ Raters \subseteq Tasks
  BY DEF IInv, Tasks
<1>1. /\ task' \in [Tasks -> [phase : Phases, since : 0..MaxReloads, todo : SUBSET Todo]]
      /\ TasksOK' /\ RatersOK'
      /\ \A s \in Tasks : s # t => task'[s] = task[s]
  BY ShrinkStep
<1>2. TypeOK'
  <2>1. ForeignKeys'
    BY <1>0 DEF TypeOK, ForeignKeys, Exists
  <2>2. QED
    BY <1>0, <1>1, <2>1 DEF TypeOK
<1>3. RowsOK'
  BY <1>0 DEF RowsOK
<1>4. ClaimsHaveRaters'
  <2> SUFFICES ASSUME NEW i \in claimed', status'[i] = "inbox"
               PROVE  \E s \in Raters : \E p \in task'[s].todo : p.row = i
    BY DEF ClaimsHaveRaters
  <2>1. PICK s \in Raters : \E p \in task[s].todo : p.row = i
    BY <1>0 DEF ClaimsHaveRaters
  <2>2. s # t
    BY <2>1
  <2>3. QED
    BY <1>0, <1>1, <2>1, <2>2
<1>5. QED
  BY <1>1, <1>2, <1>3, <1>4 DEF IInv

\* A rating, a release, a move.
LEMMA RowStep ==
  ASSUME IInv, NEW t \in Raters \cup Movers, NEW p \in task[t].todo,
         \/ t \in Raters /\ (SaveEvaluation(t, p) \/ ReleaseClaim(t, p))
         \/ t \in Movers /\ SetStatusWrite(t, p)
  PROVE  IInv'
<1>0. TypeOK /\ RowsOK /\ RatersOK /\ t \in Tasks /\ t \notin Imports /\ p.row \in Ids
  BY TasksAssumption DEF IInv, Tasks, TypeOK, Todo
<1>1. {"evaluated", "applied"} \subseteq Statuses
  BY DEF Statuses, AllStatuses, Progression
<1>2. CASE t \in Raters /\ ReleaseClaim(t, p)
  <2>1. \A q \in task[t].todo : q = p
    BY <1>0, <1>2 DEF RatersOK
  <2>2. /\ End(t) /\ claimed' = claimed \ {p.row}
        /\ UNCHANGED <<key, status, url, nextId, posted, writes, reloads>>
    BY <1>2 DEF ReleaseClaim
  <2>3. QED
    BY <1>0, <2>1, <2>2, KeepWrites, FinishStep DEF TypeOK, RowsOK
<1>3. ASSUME NEW k \in {"rating", "move"}, NEW s \in {"evaluated", "applied"},
             Exists(p.row), status' = [status EXCEPT ![p.row] = s], Record(t, p, k), End(t),
             UNCHANGED <<key, url, nextId, posted, claimed, reloads>>
      PROVE  IInv'
  <2>1. t \in Raters => \A q \in task[t].todo : q = p
    BY <1>0 DEF RatersOK
  <2>2. /\ writes' \subseteq Writes /\ ForeignIsLate' /\ OneMigratedReport' /\ ImportsOK'
        /\ \A r \in writes' : Exists(r.row) /\ (r.kind = "migrated" => r.file \in Files)
    BY <1>0, <1>3, WriteStep
  <2>3. status' \in [Ids -> Statuses] /\ \A i \in Ids : status'[i] = IF i = p.row THEN s ELSE status[i]
    BY <1>0, <1>1, <1>3 DEF TypeOK
  <2>4. \A i \in Ids : key[i] = NoKey => status'[i] = "absent"
    BY <1>0, <1>3, <2>3 DEF RowsOK, Exists
  <2>5. \A i \in claimed' : status'[i] = "inbox" =>
          status[i] = "inbox" /\ (t \in Raters => \A q \in task[t].todo : q.row # i)
    BY <1>0, <1>3, <2>1, <2>3 DEF TypeOK
  <2>6. QED
    BY <1>0, <1>3, <2>2, <2>3, <2>4, <2>5, FinishStep DEF TypeOK
<1>4. CASE SaveEvaluation(t, p)
  BY <1>3, <1>4 DEF SaveEvaluation
<1>5. CASE SetStatusWrite(t, p)
  BY <1>3, <1>5 DEF SetStatusWrite
<1>6. QED
  BY <1>2, <1>4, <1>5

\* An import that clears, attaches or ends.
LEMMA ImportStep ==
  ASSUME IInv, NEW t \in Imports,
         \/ ClearImportedReports(t)
         \/ \E p \in task[t].todo : AttachReport(t, p)
         \/ ImportEnds(t)
  PROVE  IInv'
<1>0. TypeOK /\ RowsOK /\ t \in Tasks /\ t \notin Raters
  BY TasksAssumption DEF IInv, Tasks
<1>1. CASE ClearImportedReports(t)
  <2>1. /\ task[t] = Idle /\ writes' \subseteq writes
        /\ UNCHANGED <<key, status, url, nextId, posted, claimed, reloads>>
        /\ task' = [task EXCEPT ![t].phase = "cleared"]
    BY <1>1 DEF ClearImportedReports, rowVars
  <2>2. /\ task' \in [Tasks -> [phase : Phases, since : 0..MaxReloads, todo : SUBSET Todo]]
        /\ \A s \in Tasks : task'[s].todo = task[s].todo /\ task'[s].since = task[s].since
        /\ \A s \in Tasks : s # t => task'[s] = task[s]
        /\ task[t].todo = {}
    <3>1. task \in [Tasks -> [phase : Phases, since : 0..MaxReloads, todo : SUBSET Todo]]
      BY <1>0 DEF TypeOK
    <3>2. task[t].todo = {}
      BY <2>1 DEF Idle
    <3>3. "cleared" \in Phases
      BY DEF Phases
    <3>4. [task[t] EXCEPT !.phase = "cleared"] \in [phase : Phases, since : 0..MaxReloads, todo : SUBSET Todo]
      BY <1>0, <3>1, <3>3
    <3>5. task'[t].todo = task[t].todo /\ task'[t].since = task[t].since
      BY <1>0, <2>1, <3>1
    <3>6. \A s \in Tasks : s # t => task'[s] = task[s]
      BY <2>1, <3>1
    <3>7. task' \in [Tasks -> [phase : Phases, since : 0..MaxReloads, todo : SUBSET Todo]]
      BY <1>0, <2>1, <3>1, <3>4
    <3>8. QED
      BY <3>2, <3>5, <3>6, <3>7
  <2>3. TypeOK' /\ RowsOK' /\ ForeignIsLate' /\ OneMigratedReport'
    BY <1>0, <2>1, <2>2 DEF IInv, TypeOK, ForeignKeys, RowsOK, ForeignIsLate, OneMigratedReport
  <2>4. TasksOK'
    BY <1>0, <2>1, <2>2 DEF IInv, TasksOK, Late
  <2>5. RatersOK' /\ ImportsOK' /\ ClaimsHaveRaters'
    BY <1>0, <2>1, <2>2 DEF IInv, RatersOK, ImportsOK, ClaimsHaveRaters, Tasks
  <2>6. QED
    BY <2>3, <2>4, <2>5 DEF IInv
<1>2. ASSUME NEW p \in task[t].todo, AttachReport(t, p) PROVE IInv'
  <2>1. Done(t, p) /\ UNCHANGED <<key, status, url, nextId, posted, claimed, reloads>>
    BY <1>2 DEF AttachReport, rowVars
  <2>2. /\ writes' \subseteq Writes /\ ForeignIsLate' /\ OneMigratedReport' /\ ImportsOK'
        /\ \A r \in writes' : Exists(r.row) /\ (r.kind = "migrated" => r.file \in Files)
    <3>1. CASE Exists(p.row) /\ Record(t, p, "migrated")
      BY <1>0, <2>1, <3>1, WriteStep
    <3>2. CASE UNCHANGED writes
      BY <1>0, <2>1, <3>2, KeepWrites
    <3>3. QED
      BY <1>2, <3>1, <3>2 DEF AttachReport
  <2>3. QED
    BY <1>0, <2>1, <2>2, FinishStep DEF TypeOK, RowsOK
<1>3. CASE ImportEnds(t)
  BY <1>0, <1>3, KeepWrites, FinishStep DEF ImportEnds, rowVars, TypeOK, RowsOK
<1>4. QED
  BY <1>1, <1>2, <1>3

\* A remedy that writes a url or requeues, and a request that gives up.
LEMMA RemedyStep ==
  ASSUME IInv, NEW t \in Remedies \cup Movers,
         \/ \E p \in task[t].todo : BackfillWrite(t, p)
         \/ RequeueUnreported(t)
         \/ GiveUp(t)
  PROVE  IInv'
<1>0. TypeOK /\ RowsOK /\ t \in Tasks /\ t \notin Raters /\ t \notin Imports
  BY TasksAssumption DEF IInv, Tasks
<1>1. ASSUME NEW p \in task[t].todo, BackfillWrite(t, p) PROVE IInv'
  <2>0. /\ Done(t, p) /\ UNCHANGED <<key, status, nextId, posted, claimed, reloads>>
        /\ p.row \in Ids /\ p.url \in Urls \cup {NoUrl}
    BY <1>0, <1>1 DEF BackfillWrite, TypeOK, Todo
  <2>1. url' \in [Ids -> Urls \cup {NoUrl}] /\ \A i \in Ids : url'[i] = url[i] \/ Exists(i)
    BY <1>0, <1>1, <2>0 DEF BackfillWrite, TypeOK
  <2>2. /\ writes' \subseteq Writes /\ ForeignIsLate' /\ OneMigratedReport' /\ ImportsOK'
        /\ \A r \in writes' : Exists(r.row) /\ (r.kind = "migrated" => r.file \in Files)
    <3>1. CASE Exists(p.row) /\ Record(t, p, "url")
      BY <1>0, <2>0, <3>1, WriteStep
    <3>2. CASE UNCHANGED writes
      BY <1>0, <2>0, <3>2, KeepWrites
    <3>3. QED
      BY <1>1, <3>1, <3>2 DEF BackfillWrite
  <2>3. QED
    BY <1>0, <2>0, <2>1, <2>2, FinishStep DEF TypeOK, RowsOK
<1>2. CASE RequeueUnreported(t)
  <2> DEFINE rows == {i \in posted : status[i] = "evaluated" /\ ~Reported(i)}
  <2>1. /\ status' = [i \in Ids |-> IF i \in rows THEN "inbox" ELSE status[i]]
        /\ claimed' = claimed \ rows
        /\ End(t) /\ UNCHANGED <<key, url, nextId, posted, writes, reloads>>
    BY <1>2 DEF RequeueUnreported
  <2>2. \A i \in rows : status[i] = "evaluated"
    OBVIOUS
  <2> HIDE DEF rows
  <2>3. status' \in [Ids -> Statuses] /\ "inbox" \in Statuses
    BY <1>0, <2>1 DEF TypeOK, Statuses, AllStatuses
  <2>4. \A i \in Ids : key[i] = NoKey => status'[i] = "absent"
    BY <1>0, <2>1, <2>2 DEF RowsOK
  <2>5. \A i \in claimed' : status'[i] = "inbox" => status[i] = "inbox"
    BY <1>0, <2>1 DEF TypeOK
  <2>6. QED
    BY <1>0, <2>1, <2>3, <2>4, <2>5, KeepWrites, FinishStep DEF TypeOK
<1>3. CASE GiveUp(t)
  BY <1>0, <1>3, KeepWrites, FinishStep DEF GiveUp, rowVars, TypeOK, RowsOK
<1>4. QED
  BY <1>1, <1>2, <1>3

\* Every step of the specification.
LEMMA NextIInv == IInv /\ [Next]_vars => IInv'
<1> SUFFICES ASSUME IInv, [Next]_vars PROVE IInv'
  OBVIOUS
<1>1. CASE \E doc \in Documents : LoadTracker(doc)
  BY <1>1, LoadStep
<1>2. CASE \E u \in Urls : IngestPosting(u)
  BY <1>2, IngestStep
<1>3. ASSUME NEW t \in Raters, RaterNext(t) PROVE IInv'
  BY <1>3, ReadStep, RowStep DEF RaterNext, Tasks
<1>4. ASSUME NEW t \in Movers, MoverNext(t) PROVE IInv'
  BY <1>4, ReadStep, RowStep, RemedyStep DEF MoverNext, Tasks
<1>5. ASSUME NEW t \in Imports, ImportNext(t) PROVE IInv'
  BY <1>5, ReadStep, ImportStep DEF ImportNext, Tasks
<1>6. ASSUME NEW t \in Remedies, RemedyNext(t) PROVE IInv'
  BY <1>6, ReadStep, RemedyStep DEF RemedyNext, Tasks
<1>7. CASE UNCHANGED vars
  BY <1>7 DEF vars, rowVars, IInv, TypeOK, ForeignKeys, RowsOK, TasksOK, Late, RatersOK, ImportsOK,
              ForeignIsLate, OneMigratedReport, ClaimsHaveRaters
<1>8. QED
  BY <1>1, <1>2, <1>3, <1>4, <1>5, <1>6, <1>7 DEF Next

\* The invariant of the whole, for any documents, files and requests.
LEMMA IInvAlways == Spec => []IInv
  BY InitIInv, NextIInv, PTL DEF Spec

------------------------------------------------------------------------------
\* The types of the columns, the records and the requests in progress.
THEOREM TypeCorrect == Spec => []TypeOK
<1>1. IInv => TypeOK
  BY DEF IInv
<1>2. QED
  BY <1>1, IInvAlways, PTL

\* A report, a url or a move lands on another role's row only if it, or the
\* report it was derived from, goes back to a read before a reload.
THEOREM OnlyLateIsForeign == Spec => []ForeignIsLate
<1>1. IInv => ForeignIsLate
  BY DEF IInv
<1>2. QED
  BY <1>1, IInvAlways, PTL

\* One import at a time gives no role two migrated reports.
THEOREM MigratedOnce == Spec => []OneMigratedReport
<1>1. IInv => OneMigratedReport
  BY DEF IInv
<1>2. QED
  BY <1>1, IInvAlways, PTL

\* A claimed row of the inbox has a goroutine, whatever reloads and requeues.
THEOREM ClaimsKeepRaters == Spec => []ClaimsHaveRaters
<1>1. IInv => ClaimsHaveRaters
  BY DEF IInv
<1>2. QED
  BY <1>1, IInvAlways, PTL
==============================================================================
