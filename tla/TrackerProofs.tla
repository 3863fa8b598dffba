---------------------------- MODULE TrackerProofs ----------------------------
(***************************************************************************)
(* What module Tracker guarantees for every number of roles, workers and   *)
(* requests, and every threshold; and, at the end, that the evaluator's    *)
(* claims implement a work queue (module TrackerQueue).                    *)
(***************************************************************************)
EXTENDS TrackerQueue, TLAPS

\* A request in progress is on rows that exist, and is to write what its
\* handler writes; rows only a requeue may put in the inbox have a posting.
RequestOK(q) ==
  /\ q.op = "idle" => q = IdleHandler
  /\ q.op = "setStatus" => q.to \in AllStatuses \ {"inbox"}
  /\ q.op = "discardBelowLine" => q.to = "discarded"
  /\ q.op \in {"requeueUnreported", "requeueBelowLine"} =>
       q.to = "inbox" /\ q.rows \subseteq posted

RequestsOK == \A h \in Handlers : RequestOK(handler[h])

\* A row that does not exist has no column set, and nobody works on it.
AbsentIsBlank ==
  \A a \in Apps : status[a] = "absent" =>
    /\ a \notin claimed \cup posted \cup linked \cup disappeared
    /\ \A w \in Workers : slot[w] # a
    /\ \A h \in Handlers : a \notin handler[h].rows

IInv ==
  /\ TypeOK
  /\ RequestsOK
  /\ AbsentIsBlank
  /\ NoOrphanClaim
  /\ LedgerFollowsStatus
  /\ QueuedHasPosting
  /\ ScoredHasReport
  /\ ExpiredIsGone

USE AppsAssumption, ImportedAssumption, TargetsAssumption, ThresholdAssumption, FlagsAssumption
    DEF NoApp

\* The tracker starts, imported rows and all, in the inductive invariant.
THEOREM InitIInv == Init => IInv
<1> SUFFICES ASSUME Init PROVE IInv
  OBVIOUS
<1> USE DEF Init, IdleHandler, Statuses, EnumStatuses, AllStatuses, Progression, SideStates,
            ImportStatuses, Scores, Reasons, Requests
<1>1. TypeOK
  BY DEF TypeOK
<1>2. RequestsOK
  BY DEF RequestsOK, RequestOK
<1>3. AbsentIsBlank
  BY DEF AbsentIsBlank
<1>4. NoOrphanClaim /\ LedgerFollowsStatus
  BY DEF NoOrphanClaim, LedgerFollowsStatus
<1>5. QueuedHasPosting
  BY DEF QueuedHasPosting
<1>6. ScoredHasReport
  BY DEF ScoredHasReport
<1>7. ExpiredIsGone
  BY DEF ExpiredIsGone
<1>8. QED
  BY <1>1, <1>2, <1>3, <1>4, <1>5, <1>6, <1>7 DEF IInv

------------------------------------------------------------------------------
\* The state machine grants no move into the inbox, nor to 'expired'.
LEMMA GrantedTargets ==
  ASSUME NEW from, NEW to, CanTransition(from, to)
  PROVE  to \in AllStatuses \ {"inbox"}
BY DEF CanTransition, Valid, Targets, AllStatuses, Progression, SideStates

\* The values the actions write are values of their columns.
LEMMA Values ==
  /\ {"inbox", "evaluated", "expired", "discarded", "absent"} \subseteq Statuses
  /\ UserTargets \subseteq Statuses
  /\ {"none", "low", "high"} \subseteq Scores
  /\ {"none", "given", "below_bar"} \subseteq Reasons
  /\ IdleHandler \in Requests
BY DEF Statuses, EnumStatuses, AllStatuses, Progression, SideStates, Scores, Reasons, Requests, IdleHandler

\* A column after Put is a column: the new value on S, the old one elsewhere.
LEMMA PutType ==
  ASSUME NEW V, NEW column \in [Apps -> V], NEW S, NEW v \in V
  PROVE  Put(column, S, v) \in [Apps -> V]
BY DEF Put

\* Moving rows keeps both columns of the move.
LEMMA MoveType ==
  ASSUME TypeOK, NEW S, NEW to \in Statuses, Move(S, to)
  PROVE  status' \in [Apps -> Statuses] /\ lastTo' \in [Apps -> Statuses]
BY PutType DEF TypeOK, Move

\* Every writer gives its columns values of their types.
LEMMA TypeStep == IInv /\ [Next]_vars => TypeOK'
<1> SUFFICES ASSUME IInv, [Next]_vars PROVE TypeOK'
  OBVIOUS
<1> USE Values DEF rowVars, probeVars, processVars
<1>0. TypeOK /\ RequestsOK /\ ExpiredIsGone
  BY DEF IInv
<1>1. ASSUME NEW a \in Apps, IngestNew(a) \/ Resight(a) PROVE TypeOK'
  <2>1. CASE IngestNew(a)
    BY <1>0, <2>1, MoveType DEF IngestNew, TypeOK
  <2>2. CASE Resight(a)
    BY <1>0, <2>2 DEF Resight, TypeOK
  <2>3. QED
    BY <1>1, <2>1, <2>2
<1>2. CASE Poll \/ ClaimNone \/ Boot \/ ReclaimStaleClaims \/ \E on \in BOOLEAN : EvalPause(on)
  BY <1>0, <1>2 DEF Poll, ClaimNone, Boot, ReclaimStaleClaims, EvalPause, TypeOK
<1>3. CASE Crash
  BY <1>0, <1>3 DEF Crash, TypeOK
<1>4. CASE \E w \in Workers, a \in Apps : ClaimNextInbox(w, a)
  BY <1>0, <1>4 DEF ClaimNextInbox, TypeOK
<1>5. ASSUME NEW w \in Workers, NEW s \in {"low", "high"}, SaveEvaluation(w, s) PROVE TypeOK'
  BY <1>0, <1>5, MoveType DEF SaveEvaluation, TypeOK
<1>6. CASE \E w \in Workers : ReleaseClaim(w) \/ ReleaseClaimFails(w)
  BY <1>0, <1>6 DEF ReleaseClaim, ReleaseClaimFails, TypeOK
<1>7. CASE EnqueueForReeval
  BY <1>0, <1>7, PutType DEF EnqueueForReeval, TypeOK
<1>8. ASSUME NEW h \in Handlers, HandlerNext(h) PROVE TypeOK'
  <2>1. CASE \E a \in Apps, to \in UserTargets, why \in {"none", "given"} : SetStatusRead(h, a, to, why)
    BY <1>0, <2>1 DEF SetStatusRead, Begin, TypeOK, Requests
  <2>2. CASE DiscardBelowLineRead(h)
    BY <1>0, <2>2 DEF DiscardBelowLineRead, Begin, TypeOK, Requests
  <2>3. CASE RequeueUnreportedRead(h)
    BY <1>0, <2>3 DEF RequeueUnreportedRead, Begin, TypeOK, Requests
  <2>4. CASE RequeueBelowLineRead(h)
    BY <1>0, <2>4 DEF RequeueBelowLineRead, Begin, TypeOK, Requests
  <2>5. CASE Commit(h)
    <3>1. handler[h].to \in Statuses /\ handler[h].reason \in Reasons
      BY <1>0 DEF TypeOK, Requests
    <3>2. status' \in [Apps -> Statuses] /\ lastTo' \in [Apps -> Statuses]
      BY <1>0, <2>5, <3>1, MoveType DEF Commit
    <3>3. /\ score' \in [Apps -> Scores] /\ reason' \in [Apps -> Reasons]
          /\ claimed' \subseteq Apps
      <4>1. CASE SetStatusWrite(h)
        BY <1>0, <3>1, <4>1, PutType DEF TypeOK, SetStatusWrite
      <4>2. CASE DiscardBelowLineWrite(h)
        BY <1>0, <4>2, PutType DEF TypeOK, DiscardBelowLineWrite
      <4>3. CASE RequeueUnreportedWrite(h)
        BY <1>0, <4>3, PutType DEF TypeOK, RequeueUnreportedWrite
      <4>4. CASE RequeueBelowLineWrite(h)
        BY <1>0, <4>4, PutType DEF TypeOK, RequeueBelowLineWrite
      <4>5. QED
        BY <2>5, <4>1, <4>2, <4>3, <4>4 DEF Commit
    <3>4. QED
      BY <1>0, <2>5, <3>2, <3>3 DEF Commit, TypeOK
  <2>6. CASE Abort(h)
    BY <1>0, <2>6 DEF Abort, TypeOK
  <2>7. QED
    BY <1>8, <2>1, <2>2, <2>3, <2>4, <2>5, <2>6 DEF HandlerNext
<1>9. CASE \E a \in Apps : ProbeAlive(a)
  BY <1>0, <1>9 DEF ProbeAlive, TypeOK
<1>10. ASSUME NEW a \in Apps, ProbeGone(a) PROVE TypeOK'
  <2>1. gone[a] \in 0..Threshold /\ gone[a] # Threshold
    BY <1>0, <1>10 DEF ProbeGone, Probeable, TypeOK, ExpiredIsGone
  <2>2. gone' \in [Apps -> 0..Threshold]
    BY <1>0, <1>10, <2>1 DEF ProbeGone, TypeOK
  <2>3. /\ status' \in [Apps -> Statuses] /\ lastTo' \in [Apps -> Statuses]
        /\ disappeared' \subseteq Apps
    BY <1>0, <1>10, MoveType DEF ProbeGone, TypeOK
  <2>4. QED
    BY <1>0, <1>10, <2>2, <2>3 DEF ProbeGone, TypeOK
<1>11. CASE UNCHANGED vars
  BY <1>0, <1>11 DEF vars, TypeOK
<1>12. QED
  BY <1>1, <1>2, <1>3, <1>4, <1>5, <1>6, <1>7, <1>8, <1>9, <1>10, <1>11 DEF Next, EvaluatorNext

------------------------------------------------------------------------------
(* What the steps do to single columns.                                    *)

\* The six kinds of step that write a status.
StatusWrite ==
  \/ \E a \in Apps : IngestNew(a) \/ ProbeGone(a)
  \/ \E w \in Workers, s \in {"low", "high"} : SaveEvaluation(w, s)
  \/ EnqueueForReeval
  \/ \E h \in Handlers : Commit(h)

\* No other step changes the status of a role or its newest event.
LEMMA StatusWriters == [Next]_vars => StatusWrite \/ UNCHANGED <<status, lastTo>>
<1> SUFFICES ASSUME [Next]_vars, ~StatusWrite PROVE UNCHANGED <<status, lastTo>>
  OBVIOUS
<1> USE DEF rowVars, probeVars, processVars, StatusWrite
<1>1. CASE EvaluatorNext
  BY <1>1 DEF EvaluatorNext, Poll, ClaimNextInbox, ClaimNone, ReleaseClaim, ReleaseClaimFails
<1>2. CASE \E h \in Handlers : HandlerNext(h)
  BY <1>2 DEF HandlerNext, SetStatusRead, DiscardBelowLineRead, RequeueUnreportedRead,
              RequeueBelowLineRead, Begin, Abort
<1>3. CASE \E a \in Apps : Resight(a) \/ ProbeAlive(a)
  BY <1>3 DEF Resight, ProbeAlive
<1>4. CASE Crash \/ Boot \/ ReclaimStaleClaims \/ \E on \in BOOLEAN : EvalPause(on)
  BY <1>4 DEF Crash, Boot, ReclaimStaleClaims, EvalPause
<1>5. CASE UNCHANGED vars
  BY <1>5 DEF vars
<1>6. QED
  BY <1>1, <1>2, <1>3, <1>4, <1>5 DEF Next

\* Postings and reports are never removed.
LEMMA Monotone == [Next]_vars => posted \subseteq posted' /\ reported \subseteq reported'
<1> SUFFICES ASSUME [Next]_vars PROVE posted \subseteq posted' /\ reported \subseteq reported'
  OBVIOUS
<1> USE DEF rowVars, probeVars, processVars
<1>1. CASE EvaluatorNext
  BY <1>1 DEF EvaluatorNext, Poll, ClaimNextInbox, ClaimNone, ReleaseClaim, ReleaseClaimFails, SaveEvaluation
<1>2. CASE \E h \in Handlers : HandlerNext(h)
  BY <1>2 DEF HandlerNext, SetStatusRead, DiscardBelowLineRead, RequeueUnreportedRead,
              RequeueBelowLineRead, Begin, Abort, Commit
<1>3. CASE \E a \in Apps : IngestNew(a) \/ Resight(a) \/ ProbeAlive(a) \/ ProbeGone(a)
  BY <1>3 DEF IngestNew, Resight, ProbeAlive, ProbeGone
<1>4. CASE EnqueueForReeval \/ Crash \/ Boot \/ ReclaimStaleClaims \/ \E on \in BOOLEAN : EvalPause(on)
  BY <1>4 DEF EnqueueForReeval, Crash, Boot, ReclaimStaleClaims, EvalPause
<1>5. CASE UNCHANGED vars
  BY <1>5 DEF vars
<1>6. QED
  BY <1>1, <1>2, <1>3, <1>4, <1>5 DEF Next

\* A move gives the rows in S their new status and event, and no other row.
LEMMA MoveValue ==
  ASSUME NEW S, NEW to, Move(S, to), NEW a \in Apps
  PROVE  /\ status'[a] = IF a \in S THEN to ELSE status[a]
         /\ lastTo'[a] = IF a \in S THEN to ELSE lastTo[a]
BY DEF Move, Put

\* A writer of statuses gives its rows the event of the move, or takes them from
\* 'evaluated' back to the inbox.
LEMMA LedgerStep == IInv /\ [Next]_vars => LedgerFollowsStatus'
<1> SUFFICES ASSUME IInv, [Next]_vars, NEW a \in Apps
             PROVE  \/ lastTo'[a] = status'[a]
                    \/ status'[a] = "inbox" /\ lastTo'[a] = "evaluated"
  BY DEF LedgerFollowsStatus
<1>0. \/ lastTo[a] = status[a]
      \/ status[a] = "inbox" /\ lastTo[a] = "evaluated"
  BY DEF IInv, LedgerFollowsStatus
<1>1. CASE UNCHANGED <<status, lastTo>>
  BY <1>0, <1>1
<1>2. CASE \E S \in SUBSET Apps, to \in Statuses : Move(S, to)
  BY <1>0, <1>2, MoveValue
<1>3. CASE EnqueueForReeval
  BY <1>0, <1>3 DEF EnqueueForReeval, Put
<1>4. ASSUME NEW b \in Apps, IngestNew(b) \/ ProbeGone(b)
      PROVE  UNCHANGED <<status, lastTo>> \/ \E S \in SUBSET Apps, to \in Statuses : Move(S, to)
  BY <1>4, Values DEF IngestNew, ProbeGone
<1>5. ASSUME NEW w \in Workers, NEW s \in {"low", "high"}, SaveEvaluation(w, s)
      PROVE  \E S \in SUBSET Apps, to \in Statuses : Move(S, to)
  BY <1>5, Values DEF SaveEvaluation, IInv, TypeOK
<1>6. ASSUME NEW h \in Handlers, Commit(h)
      PROVE  \E S \in SUBSET Apps, to \in Statuses : Move(S, to)
  BY <1>6 DEF Commit, IInv, TypeOK, Requests
<1>7. QED
  BY <1>1, <1>2, <1>3, <1>4, <1>5, <1>6, StatusWriters DEF StatusWrite

\* What a request is to write stays what its operation can write: postings and
\* reports it relied on are never removed.
LEMMA RequestsStep == IInv /\ [Next]_vars => RequestsOK'
<1> SUFFICES ASSUME IInv, [Next]_vars PROVE RequestsOK'
  OBVIOUS
<1> USE DEF rowVars, probeVars, processVars
<1>0. TypeOK /\ RequestsOK /\ posted \subseteq posted'
  BY Monotone DEF IInv
<1>1. CASE handler' = handler
  BY <1>0, <1>1 DEF RequestsOK, RequestOK
<1>2. ASSUME NEW h \in Handlers, NEW q, handler' = [handler EXCEPT ![h] = q], RequestOK(q)
      PROVE  RequestsOK'
  BY <1>0, <1>2 DEF RequestsOK, RequestOK, TypeOK
<1>3. RequestOK(IdleHandler)
  BY DEF RequestOK, IdleHandler
<1>4. ASSUME NEW h \in Handlers, HandlerNext(h) PROVE RequestsOK'
  <2>1. ASSUME NEW a \in Apps, NEW to \in UserTargets, NEW why \in {"none", "given"},
               SetStatusRead(h, a, to, why)
        PROVE  RequestsOK'
    BY <1>2, <2>1, GrantedTargets DEF SetStatusRead, Begin, RequestOK
  <2>2. CASE DiscardBelowLineRead(h)
    BY <1>2, <2>2 DEF DiscardBelowLineRead, Begin, RequestOK
  <2>3. CASE RequeueUnreportedRead(h)
    BY <1>2, <2>3 DEF RequeueUnreportedRead, Begin, RequestOK
  <2>4. CASE RequeueBelowLineRead(h)
    BY <1>2, <2>4 DEF RequeueBelowLineRead, Begin, RequestOK
  <2>5. CASE Commit(h) \/ Abort(h)
    BY <1>2, <1>3, <2>5 DEF Commit, Abort
  <2>6. QED
    BY <1>4, <2>1, <2>2, <2>3, <2>4, <2>5 DEF HandlerNext
<1>5. CASE Crash
  BY <1>3, <1>5 DEF Crash, RequestsOK, RequestOK, IdleHandler
<1>6. CASE EvaluatorNext
  BY <1>1, <1>6 DEF EvaluatorNext, Poll, ClaimNextInbox, ClaimNone, ReleaseClaim, ReleaseClaimFails, SaveEvaluation
<1>7. CASE \E a \in Apps : IngestNew(a) \/ Resight(a) \/ ProbeAlive(a) \/ ProbeGone(a)
  BY <1>1, <1>7 DEF IngestNew, Resight, ProbeAlive, ProbeGone
<1>8. CASE EnqueueForReeval \/ Boot \/ ReclaimStaleClaims \/ \E on \in BOOLEAN : EvalPause(on)
  BY <1>1, <1>8 DEF EnqueueForReeval, Boot, ReclaimStaleClaims, EvalPause
<1>9. CASE UNCHANGED vars
  BY <1>1, <1>9 DEF vars
<1>10. QED
  BY <1>4, <1>5, <1>6, <1>7, <1>8, <1>9 DEF Next

\* Nobody touches a row before it exists.
LEMMA AbsentStep == IInv /\ [Next]_vars => AbsentIsBlank'
<1> SUFFICES ASSUME IInv, [Next]_vars, NEW a \in Apps, status'[a] = "absent"
             PROVE  /\ a \notin claimed' \cup posted' \cup linked' \cup disappeared'
                    /\ \A w \in Workers : slot'[w] # a
                    /\ \A h \in Handlers : a \notin handler'[h].rows
  BY DEF AbsentIsBlank
<1> USE DEF rowVars, probeVars, processVars
<1>0. TypeOK /\ RequestsOK
  BY DEF IInv
<1>1. status[a] = "absent"
  <2>1. CASE UNCHANGED <<status, lastTo>>
    BY <2>1
  <2>2. ASSUME NEW b \in Apps, IngestNew(b) \/ ProbeGone(b) PROVE status[a] = "absent"
    BY <2>2, MoveValue DEF IngestNew, ProbeGone
  <2>3. ASSUME NEW w \in Workers, NEW s \in {"low", "high"}, SaveEvaluation(w, s)
        PROVE  status[a] = "absent"
    BY <2>3, MoveValue DEF SaveEvaluation
  <2>4. CASE EnqueueForReeval
    BY <2>4 DEF EnqueueForReeval, Put
  <2>5. ASSUME NEW h \in Handlers, Commit(h) PROVE status[a] = "absent"
    <3>1. handler[h].to # "absent"
      BY <1>0, <2>5 DEF RequestsOK, RequestOK, Commit, SetStatusWrite, DiscardBelowLineWrite,
                        RequeueUnreportedWrite, RequeueBelowLineWrite,
                        AllStatuses, Progression, SideStates
    <3>2. QED
      BY <2>5, <3>1, MoveValue DEF Commit
  <2>6. QED
    BY <2>1, <2>2, <2>3, <2>4, <2>5, StatusWriters DEF StatusWrite
<1>2. /\ a \notin claimed \cup posted \cup linked \cup disappeared
      /\ \A w \in Workers : slot[w] # a
      /\ \A h \in Handlers : a \notin handler[h].rows
  BY <1>1 DEF IInv, AbsentIsBlank
<1>3. ASSUME NEW b \in Apps, IngestNew(b) \/ Resight(b) PROVE b # a
  BY <1>2, <1>3, MoveValue DEF IngestNew, Resight
<1>4. CASE \E b \in Apps : IngestNew(b) \/ Resight(b)
  BY <1>2, <1>3, <1>4 DEF IngestNew, Resight
<1>5. CASE EvaluatorNext
  <2>1. ASSUME NEW w \in Workers, NEW b \in Apps, ClaimNextInbox(w, b)
        PROVE  /\ a \notin claimed' \cup posted' \cup linked' \cup disappeared'
               /\ \A v \in Workers : slot'[v] # a
               /\ \A h \in Handlers : a \notin handler'[h].rows
    <3>1. b # a
      BY <1>1, <2>1 DEF ClaimNextInbox, Claimable
    <3>2. \A v \in Workers : slot'[v] # a
      BY <1>0, <1>2, <2>1, <3>1 DEF ClaimNextInbox, TypeOK
    <3>3. QED
      BY <1>2, <2>1, <3>1, <3>2 DEF ClaimNextInbox
  <2>3. CASE Poll \/ ClaimNone
    BY <1>2, <2>3 DEF Poll, ClaimNone
  <2>4. CASE \E w \in Workers, s \in {"low", "high"} : SaveEvaluation(w, s)
    BY <1>0, <1>2, <2>4 DEF SaveEvaluation, TypeOK
  <2>5. CASE \E w \in Workers : ReleaseClaim(w) \/ ReleaseClaimFails(w)
    BY <1>0, <1>2, <2>5 DEF ReleaseClaim, ReleaseClaimFails, TypeOK
  <2>6. QED
    BY <1>5, <2>1, <2>3, <2>4, <2>5 DEF EvaluatorNext
<1>6. ASSUME NEW h \in Handlers, HandlerNext(h)
      PROVE  /\ a \notin claimed' \cup posted' \cup linked' \cup disappeared'
             /\ \A w \in Workers : slot'[w] # a
             /\ \A k \in Handlers : a \notin handler'[k].rows
  <2>1. ASSUME NEW q, a \notin q.rows, Begin(h, q)
        PROVE  /\ a \notin claimed' \cup posted' \cup linked' \cup disappeared'
               /\ \A w \in Workers : slot'[w] # a
               /\ \A k \in Handlers : a \notin handler'[k].rows
    BY <1>0, <1>2, <2>1 DEF Begin, TypeOK
  <2>2. ASSUME NEW b \in Apps, NEW to \in UserTargets, NEW why \in {"none", "given"},
               SetStatusRead(h, b, to, why)
        PROVE  a # b
    BY <1>1, <2>2 DEF SetStatusRead, CanTransition, Valid, AllStatuses, Progression, SideStates
  <2>3. CASE \E b \in Apps, to \in UserTargets, why \in {"none", "given"} : SetStatusRead(h, b, to, why)
    BY <2>1, <2>2, <2>3 DEF SetStatusRead
  <2>4. CASE DiscardBelowLineRead(h) \/ RequeueUnreportedRead(h) \/ RequeueBelowLineRead(h)
    BY <1>1, <2>1, <2>4 DEF DiscardBelowLineRead, RequeueUnreportedRead, RequeueBelowLineRead
  <2>5. CASE Commit(h)
    BY <1>0, <1>2, <2>5 DEF Commit, SetStatusWrite, DiscardBelowLineWrite, RequeueUnreportedWrite,
                            RequeueBelowLineWrite, TypeOK, IdleHandler
  <2>6. CASE Abort(h)
    BY <1>0, <1>2, <2>6 DEF Abort, TypeOK, IdleHandler
  <2>7. QED
    BY <1>6, <2>3, <2>4, <2>5, <2>6 DEF HandlerNext
<1>7. CASE EnqueueForReeval \/ Boot \/ ReclaimStaleClaims \/ \E on \in BOOLEAN : EvalPause(on)
  BY <1>2, <1>7 DEF EnqueueForReeval, Boot, ReclaimStaleClaims, EvalPause
<1>8. CASE Crash
  BY <1>2, <1>8 DEF Crash, IdleHandler
<1>9. CASE \E b \in Apps : ProbeAlive(b) \/ ProbeGone(b)
  BY <1>1, <1>2, <1>9 DEF ProbeAlive, ProbeGone, Probeable
<1>10. CASE UNCHANGED vars
  BY <1>2, <1>10 DEF vars
<1>11. QED
  BY <1>4, <1>5, <1>6, <1>7, <1>8, <1>9, <1>10 DEF Next

\* A claim on an inbox row stays with its goroutine: every move into the inbox
\* clears the claim, and a goroutine that ends has moved or released its row.
LEMMA OrphanStep == IInv /\ [Next]_vars => NoOrphanClaim'
<1> SUFFICES ASSUME IInv, [Next]_vars, ~DBFaults, dispatcher' \in {"poll", "claim"},
                    NEW a \in claimed', status'[a] = "inbox"
             PROVE  \E w \in Workers : slot'[w] = a
  BY DEF NoOrphanClaim
<1> USE DEF rowVars, probeVars, processVars
<1>0. TypeOK /\ RequestsOK /\ AbsentIsBlank /\ a \in Apps
  BY TypeStep DEF IInv, TypeOK
<1>1. ASSUME dispatcher \in {"poll", "claim"}, a \in claimed, status[a] = "inbox"
      PROVE  \E w \in Workers : slot[w] = a
  BY <1>1 DEF IInv, NoOrphanClaim
<1>2. ASSUME NEW b \in Apps, IngestNew(b) \/ Resight(b) PROVE \E w \in Workers : slot'[w] = a
  <2>1. CASE Resight(b)
    BY <1>1, <2>1 DEF Resight
  <2>2. CASE IngestNew(b)
    <3>1. a # b
      BY <1>0, <2>2 DEF IngestNew, AbsentIsBlank
    <3>2. status[a] = "inbox"
      BY <1>0, <2>2, <3>1, MoveValue DEF IngestNew
    <3>3. QED
      BY <1>1, <2>2, <3>2 DEF IngestNew, Up
  <2>3. QED
    BY <1>2, <2>1, <2>2
<1>3. CASE Poll \/ ClaimNone \/ \E on \in BOOLEAN : EvalPause(on)
  BY <1>1, <1>3 DEF Poll, ClaimNone, EvalPause
<1>4. ASSUME NEW w \in Workers, NEW b \in Apps, ClaimNextInbox(w, b)
      PROVE  \E v \in Workers : slot'[v] = a
  <2>1. slot[w] = NoApp /\ slot' = [slot EXCEPT ![w] = b] /\ slot'[w] = b
    BY <1>0, <1>4 DEF ClaimNextInbox, TypeOK
  <2>2. CASE a = b
    BY <2>1, <2>2
  <2>3. CASE a # b
    <3>1. PICK v \in Workers : slot[v] = a
      BY <1>1, <1>4, <2>3 DEF ClaimNextInbox
    <3>2. v # w
      BY <1>0, <2>1, <3>1
    <3>3. QED
      BY <1>0, <2>1, <3>1, <3>2 DEF TypeOK
  <2>4. QED
    BY <2>2, <2>3
<1>5. ASSUME NEW w \in Workers, NEW s \in {"low", "high"}, SaveEvaluation(w, s)
      PROVE  \E v \in Workers : slot'[v] = a
  <2>1. a # slot[w] /\ status[a] = "inbox"
    BY <1>0, <1>5, MoveValue DEF SaveEvaluation
  <2>2. QED
    BY <1>0, <1>1, <1>5, <2>1 DEF SaveEvaluation, TypeOK
<1>6. CASE \E w \in Workers : ReleaseClaim(w)
  BY <1>0, <1>1, <1>6 DEF ReleaseClaim, TypeOK
<1>7. CASE \E w \in Workers : ReleaseClaimFails(w)
  BY <1>7 DEF ReleaseClaimFails
<1>8. CASE EnqueueForReeval
  BY <1>0, <1>1, <1>8 DEF EnqueueForReeval, Put
<1>9. ASSUME NEW h \in Handlers, HandlerNext(h) PROVE \E w \in Workers : slot'[w] = a
  <2>1. CASE Commit(h)
    <3>1. status[a] = "inbox" /\ a \in claimed
      BY <1>0, <2>1, MoveValue
         DEF Commit, SetStatusWrite, DiscardBelowLineWrite, RequeueUnreportedWrite, RequeueBelowLineWrite,
             RequestsOK, RequestOK
    <3>2. QED
      BY <1>1, <2>1, <3>1 DEF Commit
  <2>2. CASE ~Commit(h)
    BY <1>1, <1>9, <2>2 DEF HandlerNext, SetStatusRead, DiscardBelowLineRead, RequeueUnreportedRead,
                            RequeueBelowLineRead, Begin, Abort
  <2>3. QED
    BY <2>1, <2>2
<1>10. CASE \E b \in Apps : ProbeAlive(b) \/ ProbeGone(b)
  BY <1>0, <1>1, <1>10, MoveValue DEF ProbeAlive, ProbeGone
<1>11. CASE Crash \/ Boot \/ ReclaimStaleClaims
  BY <1>11 DEF Crash, Boot, ReclaimStaleClaims
<1>12. CASE UNCHANGED vars
  BY <1>1, <1>12 DEF vars
<1>13. QED
  BY <1>2, <1>3, <1>4, <1>5, <1>6, <1>7, <1>8, <1>9, <1>10, <1>11, <1>12 DEF Next, EvaluatorNext

\* Only scraped rows enter the inbox: new ones, and requeued ones that had a
\* posting when they were read, which is never removed.
LEMMA QueuedStep == IInv /\ [Next]_vars => QueuedHasPosting'
<1> SUFFICES ASSUME IInv, [Next]_vars, NEW a \in Apps, status'[a] = "inbox" PROVE a \in posted'
  BY DEF QueuedHasPosting
<1>0. TypeOK /\ RequestsOK /\ posted \subseteq posted'
  BY Monotone DEF IInv
<1>1. CASE status[a] = "inbox"
  BY <1>0, <1>1 DEF IInv, QueuedHasPosting
<1>2. CASE UNCHANGED <<status, lastTo>>
  BY <1>1, <1>2
<1>3. ASSUME NEW b \in Apps, IngestNew(b) \/ ProbeGone(b) PROVE a \in posted'
  BY <1>1, <1>3, MoveValue DEF IngestNew, ProbeGone
<1>4. ASSUME NEW w \in Workers, NEW s \in {"low", "high"}, SaveEvaluation(w, s) PROVE a \in posted'
  BY <1>1, <1>4, MoveValue DEF SaveEvaluation
<1>5. CASE EnqueueForReeval
  BY <1>0, <1>1, <1>5 DEF EnqueueForReeval, Put
<1>6. ASSUME NEW h \in Handlers, Commit(h) PROVE a \in posted'
  <2>1. CASE a \in handler[h].rows
    <3>0. Move(handler[h].rows, handler[h].to)
      BY <1>6 DEF Commit
    <3>1. handler[h].to = "inbox"
      BY <2>1, <3>0, MoveValue
    <3>2. handler[h].rows \subseteq posted
      BY <1>0, <1>6, <3>1 DEF RequestsOK, RequestOK, Commit, SetStatusWrite, DiscardBelowLineWrite,
                              RequeueUnreportedWrite, RequeueBelowLineWrite
    <3>3. QED
      BY <1>0, <2>1, <3>2
  <2>2. CASE a \notin handler[h].rows
    BY <1>1, <1>6, <2>2, MoveValue DEF Commit
  <2>3. QED
    BY <2>1, <2>2
<1>7. QED
  BY <1>2, <1>3, <1>4, <1>5, <1>6, StatusWriters DEF StatusWrite

\* A score is written with its report, and reports are never removed.
LEMMA ScoredStep == IInv /\ [Next]_vars => ScoredHasReport'
<1> SUFFICES ASSUME IInv, [Next]_vars, NEW a \in Apps \ Imported, score'[a] # "none"
             PROVE  a \in reported'
  BY DEF ScoredHasReport
<1> USE DEF rowVars, probeVars, processVars
<1>0. TypeOK /\ reported \subseteq reported'
  BY Monotone DEF IInv
<1>1. CASE score[a] # "none"
  BY <1>0, <1>1 DEF IInv, ScoredHasReport
<1>2. ASSUME NEW w \in Workers, NEW s \in {"low", "high"}, SaveEvaluation(w, s) PROVE a \in reported'
  <2>1. CASE a = slot[w]
    BY <1>2, <2>1 DEF SaveEvaluation
  <2>2. CASE a # slot[w]
    BY <1>0, <1>1, <1>2, <2>2 DEF SaveEvaluation, TypeOK
  <2>3. QED
    BY <2>1, <2>2
<1>3. ASSUME NEW h \in Handlers, HandlerNext(h) PROVE score[a] # "none"
  BY <1>3 DEF HandlerNext, SetStatusRead, DiscardBelowLineRead, RequeueUnreportedRead,
              RequeueBelowLineRead, Begin, Abort, Commit, SetStatusWrite, DiscardBelowLineWrite,
              RequeueUnreportedWrite, RequeueBelowLineWrite, Put
<1>4. CASE Poll \/ ClaimNone \/ \E w \in Workers : ReleaseClaim(w) \/ ReleaseClaimFails(w)
  BY <1>1, <1>4 DEF Poll, ClaimNone, ReleaseClaim, ReleaseClaimFails
<1>5. CASE \E w \in Workers, b \in Apps : ClaimNextInbox(w, b)
  BY <1>1, <1>5 DEF ClaimNextInbox
<1>6. CASE \E b \in Apps : IngestNew(b) \/ Resight(b) \/ ProbeAlive(b) \/ ProbeGone(b)
  BY <1>1, <1>6 DEF IngestNew, Resight, ProbeAlive, ProbeGone
<1>7. CASE EnqueueForReeval \/ Crash \/ Boot \/ ReclaimStaleClaims \/ \E on \in BOOLEAN : EvalPause(on)
  BY <1>1, <1>7 DEF EnqueueForReeval, Crash, Boot, ReclaimStaleClaims, EvalPause
<1>8. CASE UNCHANGED vars
  BY <1>1, <1>8 DEF vars
<1>9. QED
  BY <1>1, <1>2, <1>3, <1>4, <1>5, <1>6, <1>7, <1>8 DEF Next, EvaluatorNext

\* The re-prober alone writes 'expired', gone_probes and disappeared_at.
LEMMA ProbeColumns ==
  [Next]_vars => \/ UNCHANGED probeVars
                 \/ \E a \in Apps : ProbeAlive(a) \/ ProbeGone(a)
<1> SUFFICES ASSUME [Next]_vars, ~(\E a \in Apps : ProbeAlive(a) \/ ProbeGone(a))
             PROVE  UNCHANGED probeVars
  OBVIOUS
<1> USE DEF probeVars
<1>1. CASE EvaluatorNext
  BY <1>1 DEF EvaluatorNext, Poll, ClaimNextInbox, ClaimNone, ReleaseClaim, ReleaseClaimFails, SaveEvaluation
<1>2. CASE \E h \in Handlers : HandlerNext(h)
  BY <1>2 DEF HandlerNext, SetStatusRead, DiscardBelowLineRead, RequeueUnreportedRead,
              RequeueBelowLineRead, Begin, Abort, Commit
<1>3. CASE \E a \in Apps : IngestNew(a) \/ Resight(a)
  BY <1>3 DEF IngestNew, Resight
<1>4. CASE EnqueueForReeval \/ Crash \/ Boot \/ ReclaimStaleClaims \/ \E on \in BOOLEAN : EvalPause(on)
  BY <1>4 DEF EnqueueForReeval, Crash, Boot, ReclaimStaleClaims, EvalPause
<1>5. CASE UNCHANGED vars
  BY <1>5 DEF vars
<1>6. QED
  BY <1>1, <1>2, <1>3, <1>4, <1>5 DEF Next

\* A status becomes 'expired' only by a probe that finds a passive role gone.
LEMMA ExpiryStep ==
  ASSUME IInv, [Next]_vars, NEW a \in Apps, status'[a] = "expired", status[a] # "expired"
  PROVE  ProbeGone(a) /\ a \in disappeared' /\ IsPassiveStatus(status[a])
<1>0. TypeOK /\ RequestsOK
  BY DEF IInv
<1>1. ASSUME NEW b \in Apps, IngestNew(b) PROVE FALSE
  BY <1>1, MoveValue DEF IngestNew
<1>2. ASSUME NEW b \in Apps, ProbeGone(b)
      PROVE  ProbeGone(a) /\ a \in disappeared' /\ IsPassiveStatus(status[a])
  <2>1. /\ disappeared' = disappeared \cup {b}
        /\ IsPassiveStatus(status[b])
        /\ Move({b}, "expired")
    BY <1>2 DEF ProbeGone
  <2>2. a = b
    BY <2>1, MoveValue
  <2>3. QED
    BY <1>2, <2>1, <2>2
<1>3. ASSUME NEW w \in Workers, NEW s \in {"low", "high"}, SaveEvaluation(w, s) PROVE FALSE
  BY <1>3, MoveValue DEF SaveEvaluation
<1>4. CASE EnqueueForReeval
  BY <1>4 DEF EnqueueForReeval, Put
<1>5. ASSUME NEW h \in Handlers, Commit(h) PROVE FALSE
  <2>1. handler[h].to # "expired"
    BY <1>0, <1>5 DEF RequestsOK, RequestOK, Commit, SetStatusWrite, DiscardBelowLineWrite,
                      RequeueUnreportedWrite, RequeueBelowLineWrite, AllStatuses, Progression, SideStates
  <2>2. QED
    BY <1>5, <2>1, MoveValue DEF Commit
<1>6. QED
  BY <1>1, <1>2, <1>3, <1>4, <1>5, StatusWriters DEF StatusWrite

\* The threshold is reached once, and stamped in the same step.
LEMMA ExpiredStep == IInv /\ [Next]_vars => ExpiredIsGone'
<1> SUFFICES ASSUME IInv, [Next]_vars PROVE ExpiredIsGone'
  OBVIOUS
<1>0. TypeOK /\ ExpiredIsGone
  BY DEF IInv
<1>1. ASSUME NEW a \in Apps
      PROVE  (a \in disappeared' <=> gone'[a] = Threshold) /\ disappeared \subseteq disappeared'
  <2>1. CASE UNCHANGED probeVars
    BY <1>0, <2>1 DEF ExpiredIsGone, probeVars
  <2>2. ASSUME NEW b \in Apps, ProbeAlive(b)
        PROVE  (a \in disappeared' <=> gone'[a] = Threshold) /\ disappeared \subseteq disappeared'
    BY <1>0, <2>2 DEF ProbeAlive, Probeable, ExpiredIsGone, TypeOK
  <2>3. ASSUME NEW b \in Apps, ProbeGone(b)
        PROVE  (a \in disappeared' <=> gone'[a] = Threshold) /\ disappeared \subseteq disappeared'
    <3>1. gone[b] \in 0..Threshold /\ gone[b] # Threshold /\ b \notin disappeared
      BY <1>0, <2>3 DEF ProbeGone, Probeable, TypeOK, ExpiredIsGone
    <3>2. gone'[a] = IF a = b THEN gone[b] + 1 ELSE gone[a]
      BY <1>0, <2>3 DEF ProbeGone, TypeOK
    <3>3. disappeared' = IF gone[b] + 1 < Threshold THEN disappeared ELSE disappeared \cup {b}
      BY <2>3 DEF ProbeGone
    <3>4. QED
      BY <1>0, <3>1, <3>2, <3>3 DEF ExpiredIsGone
  <2>4. QED
    BY <2>1, <2>2, <2>3, ProbeColumns
<1>2. ASSUME NEW a \in Apps, status'[a] = "expired" PROVE a \in disappeared'
  BY <1>0, <1>1, <1>2, ExpiryStep DEF ExpiredIsGone
<1>3. QED
  BY <1>1, <1>2 DEF ExpiredIsGone

------------------------------------------------------------------------------
\* Whatever the number of roles, workers and requests: the columns have their
\* types, no claim is orphaned, the ledger follows the status, the queue holds
\* scraped roles only, scores have reports, and 'expired' means gone.
THEOREM Invariance == Spec => []IInv
<1>1. IInv /\ [Next]_vars => IInv'
  BY TypeStep, RequestsStep, AbsentStep, OrphanStep, LedgerStep, QueuedStep, ScoredStep, ExpiredStep DEF IInv
<1>2. QED
  BY InitIInv, <1>1, PTL DEF Spec

\* Every column of every row holds a value of its type (schema of 0001-0010).
THEOREM TypeCorrect == Spec => []TypeOK
<1>1. IInv => TypeOK
  BY DEF IInv
<1>2. QED
  BY Invariance, <1>1, PTL

\* ClaimNextInbox never skips a row that nobody is going to rate or release.
THEOREM ClaimsHaveOwners == Spec => []NoOrphanClaim
<1>1. IInv => NoOrphanClaim
  BY DEF IInv
<1>2. QED
  BY Invariance, <1>1, PTL

\* No writer of a status leaves a stale or foreign event as the newest one.
THEOREM LedgerAgrees == Spec => []LedgerFollowsStatus
<1>1. IInv => LedgerFollowsStatus
  BY DEF IInv
<1>2. QED
  BY Invariance, <1>1, PTL

\* No requeue, however stale its reading, queues a role without a posting.
THEOREM QueueIsScraped == Spec => []QueuedHasPosting
<1>1. IInv => QueuedHasPosting
  BY DEF IInv
<1>2. QED
  BY Invariance, <1>1, PTL

\* The score of a scraped role always has a report to explain it.
THEOREM ScoresAreExplained == Spec => []ScoredHasReport
<1>1. IInv => ScoredHasReport
  BY DEF IInv
<1>2. QED
  BY Invariance, <1>1, PTL

\* 'expired' and disappeared_at mean Threshold definitive probes in a row.
THEOREM ExpiryIsEarned == Spec => []ExpiredIsGone
<1>1. IInv => ExpiredIsGone
  BY DEF IInv
<1>2. QED
  BY Invariance, <1>1, PTL

\* RecordProbe reads the status under the row lock it writes it with: a role in
\* the user's pipeline keeps its status when its listing vanishes.
THEOREM PipelineIsKept == Spec => PipelineNeverExpires
<1>1. IInv /\ [Next]_vars => [\A a \in Apps : status[a] \in Engaged => status'[a] # "expired"]_vars
  <2> SUFFICES ASSUME IInv, [Next]_vars, NEW a \in Apps, status[a] \in Engaged, status'[a] = "expired"
               PROVE  FALSE
    OBVIOUS
  <2>1. IsPassiveStatus(status[a])
    BY ExpiryStep DEF Engaged
  <2>2. QED
    BY <2>1 DEF Engaged, IsPassiveStatus
<1>2. QED
  BY Invariance, <1>1, PTL DEF Spec, PipelineNeverExpires

\* A move the state machine grants from an in-funnel status goes forward.
LEMMA GrantsGoForward ==
  ASSUME NEW from, NEW to, CanTransition(from, to)
  PROVE  Rank(to) \notin 0..(Rank(from) - 1)
BY DEF CanTransition, Valid, AllStatuses, Progression, SideStates, Targets, Rank

\* SaveEvaluation and the requests that checked their move before their
\* transaction are the only way back in the funnel, and only after another
\* writer came between.
THEOREM BackwardIsStale == Spec => OnlyStaleGoesBack
<1> DEFINE Stale(a) == \/ \E w \in Workers : slot[w] = a /\ status'[a] = "evaluated"
                       \/ \E h \in Handlers : /\ a \in handler[h].rows /\ handler'[h] = IdleHandler
                                              /\ ~CanTransition(status[a], handler[h].to)
<1>1. ASSUME IInv, [Next]_vars, NEW a \in Apps, Rank(status'[a]) \in 0..(Rank(status[a]) - 1)
      PROVE  Stale(a)
  <2>0. TypeOK
    BY <1>1 DEF IInv
  <2>1. status'[a] # status[a] /\ status'[a] \notin {"inbox", "expired"}
    BY <1>1 DEF Rank
  <2>2. StatusWrite
    BY <1>1, <2>1, StatusWriters
  <2>3. ASSUME NEW b \in Apps, IngestNew(b) \/ ProbeGone(b) PROVE FALSE
    <3>1. Move({b}, "inbox") \/ Move({b}, "expired") \/ UNCHANGED status
      BY <2>3 DEF IngestNew, ProbeGone
    <3>2. QED
      BY <2>1, <3>1, MoveValue
  <2>4. ~EnqueueForReeval
    BY <2>1 DEF EnqueueForReeval, Put
  <2>5. ASSUME NEW w \in Workers, NEW s \in {"low", "high"}, SaveEvaluation(w, s) PROVE Stale(a)
    <3>1. Move({slot[w]}, "evaluated")
      BY <2>5 DEF SaveEvaluation
    <3>2. status'[a] = IF a \in {slot[w]} THEN "evaluated" ELSE status[a]
      BY ONLY <1>1, <3>1, MoveValue
    <3>3. slot[w] = a /\ status'[a] = "evaluated"
      BY ONLY <2>1, <3>2
    <3>4. QED
      BY ONLY <2>5, <3>3
  <2>6. ASSUME NEW h \in Handlers, Commit(h) PROVE Stale(a)
    <3>1. Move(handler[h].rows, handler[h].to) /\ handler'[h] = IdleHandler
      BY <2>0, <2>6 DEF Commit, TypeOK
    <3>2. a \in handler[h].rows /\ status'[a] = handler[h].to
      <4>1. status'[a] = IF a \in handler[h].rows THEN handler[h].to ELSE status[a]
        BY ONLY <1>1, <3>1, MoveValue
      <4>2. QED
        BY ONLY <2>1, <4>1
    <3>3. QED
      BY <1>1, <3>1, <3>2, GrantsGoForward
  <2>7. QED
    BY <2>2, <2>3, <2>4, <2>5, <2>6 DEF StatusWrite
<1>2. IInv /\ [Next]_vars =>
        [\A a \in Apps : Rank(status'[a]) \in 0..(Rank(status[a]) - 1) => Stale(a)]_vars
  BY <1>1
<1>3. QED
  BY Invariance, <1>2, PTL DEF Spec, OnlyStaleGoesBack

------------------------------------------------------------------------------
(* As long as no request puts a role back before its rating or at it, the  *)
(* claims do their work: no two goroutines rate the same row, whatever     *)
(* moves people make, whatever crashes, pauses, re-evaluations, failed     *)
(* releases and expiries occur.                                            *)

\* Nobody sets a role to 'evaluated' by hand - the re-evaluation would queue it
\* while it is being rated - and the two requeues, behind IMPORT_TOKEN, are off.
NoReturns == Handlers # {} => "evaluated" \notin UserTargets /\ ~AdminEnabled

\* The requests there are, then.
QuietRequests ==
  \A h \in Handlers : /\ handler[h].op \in {"idle", "setStatus", "discardBelowLine"}
                      /\ handler[h].to # "evaluated"

\* A goroutine's row is still claimed and in the inbox, or somebody moved it on,
\* but not to where a re-evaluation finds it; and goroutines live only as long
\* as the process.
HeldRows ==
  /\ \A w \in Workers : slot[w] # NoApp =>
       /\ status[slot[w]] \notin {"absent", "evaluated"}
       /\ status[slot[w]] = "inbox" => slot[w] \in claimed
  /\ dispatcher \in {"down", "boot"} => \A w \in Workers : slot[w] = NoApp

ExclusiveInv == IInv /\ QuietRequests /\ HeldRows /\ NoDoubleRating

\* A request that begins is one of those.
LEMMA QuietStep ==
  ASSUME NoReturns, TypeOK, QuietRequests, [Next]_vars
  PROVE  QuietRequests'
<1> USE DEF QuietRequests
<1>1. ASSUME NEW h \in Handlers, NEW q, Begin(h, q),
             q.op \in {"idle", "setStatus", "discardBelowLine"}, q.to # "evaluated"
      PROVE  QuietRequests'
  BY <1>1 DEF Begin, TypeOK
<1>2. ASSUME handler' = handler PROVE QuietRequests'
  BY <1>2
<1>3. ASSUME NEW h \in Handlers, HandlerNext(h) PROVE QuietRequests'
  <2>1. "evaluated" \notin UserTargets /\ ~AdminEnabled
    BY <1>3 DEF NoReturns
  <2>2. CASE \E a \in Apps, to \in UserTargets, why \in {"none", "given"} : SetStatusRead(h, a, to, why)
    BY <1>1, <2>1, <2>2 DEF SetStatusRead
  <2>3. CASE DiscardBelowLineRead(h)
    BY <1>1, <2>3 DEF DiscardBelowLineRead
  <2>4. CASE Commit(h) \/ Abort(h)
    BY <2>4 DEF Commit, Abort, IdleHandler, TypeOK
  <2>5. QED
    BY <1>3, <2>1, <2>2, <2>3, <2>4 DEF HandlerNext, RequeueUnreportedRead, RequeueBelowLineRead
<1>4. CASE Crash
  BY <1>4 DEF Crash, IdleHandler
<1>5. QED
  BY <1>2, <1>3, <1>4
     DEF Next, EvaluatorNext, vars, processVars, IngestNew, Resight, Poll, ClaimNextInbox, ClaimNone,
         SaveEvaluation, ReleaseClaim, ReleaseClaimFails, EnqueueForReeval, EvalPause, ProbeAlive,
         ProbeGone, Boot, ReclaimStaleClaims

\* A row that a goroutine works on is claimed and in the inbox, so nobody else
\* can claim it.
LEMMA ExclusiveStep ==
  ASSUME ExclusiveInv, [Next]_vars
  PROVE  HeldRows' /\ NoDoubleRating'
<1> USE DEF rowVars, probeVars, processVars
<1>0. TypeOK /\ AbsentIsBlank /\ RequestsOK /\ QuietRequests /\ HeldRows /\ NoDoubleRating
  BY DEF ExclusiveInv, IInv
<1>1. ASSUME NEW a \in Apps, IngestNew(a) PROVE HeldRows' /\ NoDoubleRating'
  <2>1. \A w \in Workers : slot[w] # a
    BY <1>0, <1>1 DEF IngestNew, AbsentIsBlank
  <2>2. \A b \in Apps : b # a => status'[b] = status[b]
    BY <1>1, MoveValue DEF IngestNew
  <2>3. HeldRows'
    BY <1>0, <1>1, <2>1, <2>2 DEF IngestNew, HeldRows, TypeOK
  <2>4. QED
    BY <1>0, <1>1, <2>3 DEF IngestNew, NoDoubleRating
<1>2. CASE Poll \/ ClaimNone \/ \E on \in BOOLEAN : EvalPause(on)
  BY <1>0, <1>2 DEF Poll, ClaimNone, EvalPause, HeldRows, NoDoubleRating
<1>3. ASSUME NEW w \in Workers, NEW a \in Apps, ClaimNextInbox(w, a)
      PROVE  HeldRows' /\ NoDoubleRating'
  <2>1. \A v \in Workers : slot[v] # a
    BY <1>0, <1>3 DEF ClaimNextInbox, Claimable, HeldRows
  <2>2. \A v \in Workers : slot'[v] = IF v = w THEN a ELSE slot[v]
    BY <1>0, <1>3 DEF ClaimNextInbox, TypeOK
  <2>3. HeldRows'
    BY <1>0, <1>3, <2>2 DEF ClaimNextInbox, Claimable, HeldRows
  <2>4. NoDoubleRating'
    BY <1>0, <2>1, <2>2 DEF NoDoubleRating
  <2>5. QED
    BY <2>3, <2>4
<1>4. ASSUME NEW w \in Workers, slot[w] # NoApp, slot' = [slot EXCEPT ![w] = NoApp]
      PROVE  /\ NoDoubleRating'
             /\ \A v \in Workers : slot'[v] # NoApp => slot'[v] = slot[v] /\ slot[v] # slot[w]
  <2>1. \A v \in Workers : slot'[v] = IF v = w THEN NoApp ELSE slot[v]
    BY <1>0, <1>4 DEF TypeOK
  <2>2. QED
    BY <1>0, <1>4, <2>1 DEF NoDoubleRating
<1>5. ASSUME NEW w \in Workers, NEW s \in {"low", "high"}, SaveEvaluation(w, s)
      PROVE  HeldRows' /\ NoDoubleRating'
  <2>1. slot[w] # NoApp /\ slot' = [slot EXCEPT ![w] = NoApp] /\ Move({slot[w]}, "evaluated")
    BY <1>5 DEF SaveEvaluation
  <2>2. \A b \in Apps : b # slot[w] => status'[b] = status[b]
    BY <2>1, MoveValue
  <2>3. claimed' = claimed /\ dispatcher' = dispatcher
    BY <1>5 DEF SaveEvaluation
  <2>4. HeldRows'
    BY <1>0, <1>4, <2>1, <2>2, <2>3 DEF HeldRows, TypeOK
  <2>5. QED
    BY <1>4, <2>1, <2>4
<1>6. ASSUME NEW w \in Workers, ReleaseClaim(w) \/ ReleaseClaimFails(w)
      PROVE  HeldRows' /\ NoDoubleRating'
  <2>1. slot[w] # NoApp /\ slot' = [slot EXCEPT ![w] = NoApp]
    BY <1>6 DEF ReleaseClaim, ReleaseClaimFails
  <2>2. status' = status /\ dispatcher' = dispatcher /\ claimed \ {slot[w]} \subseteq claimed'
    BY <1>6 DEF ReleaseClaim, ReleaseClaimFails
  <2>3. HeldRows'
    BY <1>0, <1>4, <2>1, <2>2 DEF HeldRows
  <2>4. QED
    BY <1>4, <2>1, <2>3
<1>7. CASE EnqueueForReeval
  <2>1. ASSUME NEW w \in Workers, slot[w] # NoApp
        PROVE  /\ status'[slot[w]] = status[slot[w]]
               /\ slot[w] \in claimed => slot[w] \in claimed'
    BY <1>0, <1>7, <2>1 DEF EnqueueForReeval, Put, HeldRows, TypeOK
  <2>2. slot' = slot /\ dispatcher' = dispatcher
    BY <1>7 DEF EnqueueForReeval
  <2>3. QED
    BY <1>0, <2>1, <2>2 DEF HeldRows, NoDoubleRating
<1>8. CASE \E a \in Apps : Resight(a) \/ ProbeAlive(a)
  BY <1>0, <1>8 DEF Resight, ProbeAlive, HeldRows, NoDoubleRating
<1>9. ASSUME NEW a \in Apps, ProbeGone(a) PROVE HeldRows' /\ NoDoubleRating'
  <2>1. \A b \in Apps : status'[b] = status[b] \/ status'[b] = "expired"
    BY <1>9, MoveValue DEF ProbeGone
  <2>2. slot' = slot /\ dispatcher' = dispatcher /\ claimed' = claimed
    BY <1>9 DEF ProbeGone
  <2>3. QED
    BY <1>0, <2>1, <2>2 DEF HeldRows, NoDoubleRating, TypeOK
<1>10. CASE Crash \/ Boot
  BY <1>0, <1>10 DEF Crash, Boot, HeldRows, NoDoubleRating
<1>11. CASE ReclaimStaleClaims
  BY <1>0, <1>11 DEF ReclaimStaleClaims, HeldRows, NoDoubleRating
<1>12. CASE UNCHANGED vars
  BY <1>0, <1>12 DEF vars, HeldRows, NoDoubleRating
<1>13. ASSUME NEW h \in Handlers, Commit(h) PROVE HeldRows' /\ NoDoubleRating'
  <2>1. handler[h].op \in {"setStatus", "discardBelowLine"} /\ Move(handler[h].rows, handler[h].to)
    BY <1>0, <1>13 DEF QuietRequests, Commit, SetStatusWrite, DiscardBelowLineWrite,
       RequeueUnreportedWrite, RequeueBelowLineWrite
  <2>2. handler[h].to \notin {"absent", "evaluated", "inbox"}
    BY <1>0, <2>1 DEF QuietRequests, RequestsOK, RequestOK, AllStatuses, Progression, SideStates
  <2>3. \A b \in Apps : status'[b] = status[b] \/ status'[b] = handler[h].to
    <3> TAKE b \in Apps
    <3>1. Move(handler[h].rows, handler[h].to)
      BY <2>1
    <3>2. status'[b] = IF b \in handler[h].rows THEN handler[h].to ELSE status[b]
      BY ONLY <3>1, MoveValue
    <3>3. QED
      BY <3>2
  <2>4. slot' = slot /\ dispatcher' = dispatcher /\ claimed' = claimed
    BY <1>13, <2>1 DEF Commit, SetStatusWrite, DiscardBelowLineWrite, RequeueUnreportedWrite,
       RequeueBelowLineWrite
  <2>5. QED
    BY <1>0, <2>2, <2>3, <2>4 DEF HeldRows, NoDoubleRating, TypeOK
<1>14. CASE \E h \in Handlers : HandlerNext(h) /\ ~Commit(h)
  BY <1>0, <1>14
     DEF HandlerNext, SetStatusRead, DiscardBelowLineRead, RequeueUnreportedRead, RequeueBelowLineRead,
         Begin, Abort, HeldRows, NoDoubleRating
<1>15. QED
  BY <1>1, <1>2, <1>3, <1>5, <1>6, <1>7, <1>8, <1>9, <1>10, <1>11, <1>12, <1>13, <1>14
     DEF Next, EvaluatorNext

\* The claims stay exclusive, whatever happens to the rows in the meantime.
LEMMA ExclusiveAlways == ASSUME NoReturns PROVE Spec => []ExclusiveInv
<1>1. Init => ExclusiveInv
  BY InitIInv DEF Init, ExclusiveInv, QuietRequests, IdleHandler, HeldRows, NoDoubleRating
<1>2. ExclusiveInv /\ [Next]_vars => ExclusiveInv'
  <2>1. IInv /\ [Next]_vars => IInv'
    BY TypeStep, RequestsStep, AbsentStep, OrphanStep, LedgerStep, QueuedStep, ScoredStep, ExpiredStep DEF IInv
  <2>2. ExclusiveInv /\ [Next]_vars => QuietRequests'
    BY QuietStep DEF ExclusiveInv, IInv
  <2>3. QED
    BY <2>1, <2>2, ExclusiveStep DEF ExclusiveInv
<1>3. QED
  BY <1>1, <1>2, PTL DEF Spec

\* FOR UPDATE SKIP LOCKED and the claim column keep the goroutines apart, even
\* while people apply for, discard or otherwise move on roles being rated, as
\* long as nobody sets one to 'evaluated' and the operator requeues none.
THEOREM RatingIsExclusive == ASSUME NoReturns PROVE Spec => []NoDoubleRating
<1>1. ExclusiveInv => NoDoubleRating
  BY DEF ExclusiveInv
<1>2. QED
  BY ExclusiveAlways, <1>1, PTL

------------------------------------------------------------------------------
(***************************************************************************)
(* The evaluator's claims implement a work queue, for every number of      *)
(* roles and goroutines: every step of the tracker is a step of WorkQueue  *)
(* or leaves the queue as it is.                                           *)
(***************************************************************************)
USE AppsAssumption DEF NoApp

\* The queue is a function of three columns.
LEMMA QueueFrame ==
  ASSUME UNCHANGED <<status, claimed, slot>>
  PROVE  UNCHANGED WQ!queueVars
BY DEF WQ!queueVars, Claimable, Abandoned

\* The items of the abstract queue that are worked on are the slots' rows.
LEMMA HeldAre == WQ!Held = {slot[w] : w \in Workers} \ {NoApp}
BY DEF WQ!Held

\* A row that arrives was not in the queue: nobody claimed it.
LEMMA IngestArrives ==
  ASSUME ExclusiveInv, NEW a \in Apps, IngestNew(a)
  PROVE  WQ!Arrive({a})
<1>0. TypeOK /\ AbsentIsBlank /\ status[a] = "absent" /\ a # NoApp
  BY DEF ExclusiveInv, IInv, IngestNew
<1>1. /\ \A b \in Apps : status'[b] = IF b = a THEN "inbox" ELSE status[b]
      /\ claimed' = claimed /\ slot' = slot
  BY DEF IngestNew, Move, Put, processVars
<1>2. a \notin claimed /\ \A w \in Workers : slot[w] # a
  BY <1>0 DEF AbsentIsBlank
<1>3. Claimable' = Claimable \cup {a} /\ Abandoned' = Abandoned
  BY <1>0, <1>1, <1>2 DEF Claimable, Abandoned, TypeOK
<1>4. {a} \cap (Claimable \cup Abandoned \cup WQ!Held) = {}
  BY <1>0, <1>2, HeldAre DEF Claimable, Abandoned
<1>5. QED
  BY <1>1, <1>3, <1>4 DEF WQ!Arrive

\* The row claimed is the oldest one, but for those that a request may have
\* locked: SKIP LOCKED passes nothing else over.
LEMMA ClaimTakes ==
  ASSUME ExclusiveInv, NEW w \in Workers, NEW a \in Apps, ClaimNextInbox(w, a)
  PROVE  WQ!Take(w, a)
<1>0. TypeOK /\ slot[w] = NoApp /\ a \in Claimable
  BY DEF ExclusiveInv, IInv, ClaimNextInbox
<1>1. \A b \in Claimable : b < a => b \in {c \in Apps : MaybeLocked(c)}
  BY DEF ClaimNextInbox, Claimable
<1>2. status' = status /\ claimed' = claimed \cup {a} /\ slot' = [slot EXCEPT ![w] = a]
  BY DEF ClaimNextInbox
<1>3. \A v \in Workers : slot'[v] = IF v = w THEN a ELSE slot[v]
  BY <1>0, <1>2 DEF TypeOK
<1>4. Claimable' = Claimable \ {a}
  BY <1>2 DEF Claimable
<1>5. Abandoned' = Abandoned
  <2>1. \A b \in claimed : (\A v \in Workers : slot'[v] # b) <=> (\A v \in Workers : slot[v] # b)
    BY <1>0, <1>3 DEF TypeOK, Claimable
  <2>2. a \notin Abandoned' /\ a \notin Abandoned
    BY <1>0, <1>3 DEF Abandoned, Claimable
  <2>3. QED
    BY <1>2, <2>1, <2>2 DEF Abandoned
<1>6. QED
  BY <1>0, <1>1, <1>2, <1>4, <1>5 DEF WQ!Take

\* A goroutine that ends leaves the queue: it rated its row, or gave it back, or
\* its release failed.  A row that left the inbox was called off.
LEMMA WorkerLeaves ==
  ASSUME ExclusiveInv, NEW w \in Workers,
         \/ \E s \in {"low", "high"} : SaveEvaluation(w, s)
         \/ ReleaseClaim(w)
         \/ ReleaseClaimFails(w)
  PROVE  WQ!Leave(w)
<1>0. TypeOK /\ HeldRows /\ NoDoubleRating /\ slot[w] # NoApp
  BY DEF ExclusiveInv, IInv, SaveEvaluation, ReleaseClaim, ReleaseClaimFails
<1>1. slot' = [slot EXCEPT ![w] = NoApp] /\ slot[w] \in Apps
  BY <1>0 DEF SaveEvaluation, ReleaseClaim, ReleaseClaimFails, TypeOK
<1>2. \A v \in Workers : slot'[v] = IF v = w THEN NoApp ELSE slot[v]
  BY <1>0, <1>1 DEF TypeOK
<1>3. \A b \in Apps : (\A v \in Workers : slot'[v] # b)
                        <=> b = slot[w] \/ \A v \in Workers : slot[v] # b
  BY <1>0, <1>1, <1>2 DEF NoDoubleRating
<1>apart. claimed \subseteq Apps /\ slot[w] \notin Abandoned
  BY <1>0 DEF TypeOK, Abandoned
<1>4. CASE \E s \in {"low", "high"} : SaveEvaluation(w, s)
  <2>1. claimed' = claimed /\ \A b \in Apps : status'[b] = IF b = slot[w] THEN "evaluated" ELSE status[b]
    BY <1>4 DEF SaveEvaluation, Move, Put
  <2>2. Claimable' = Claimable
    BY <1>0, <1>1, <2>1 DEF Claimable, HeldRows
  <2>3. Abandoned' = Abandoned
    <3>1. \A b \in Apps : b \in Abandoned' <=> b \in Abandoned
      BY <1>3, <1>apart, <2>1 DEF Abandoned
    <3>2. QED
      BY <1>apart, <2>1, <3>1 DEF Abandoned
  <2>4. QED
    BY <1>0, <1>1, <2>2, <2>3 DEF WQ!Leave
<1>5. CASE ReleaseClaim(w)
  <2>1. status' = status /\ claimed' = claimed \ {slot[w]}
    BY <1>5 DEF ReleaseClaim
  <2>2. Abandoned' = Abandoned
    BY <1>0, <1>1, <1>3, <2>1 DEF Abandoned, TypeOK
  <2>3. CASE status[slot[w]] # "inbox"
    <3>1. Claimable' = Claimable
      BY <1>1, <2>1, <2>3 DEF Claimable
    <3>2. QED
      BY <1>0, <1>1, <2>2, <3>1 DEF WQ!Leave
  <2>4. CASE status[slot[w]] = "inbox"
    <3>1. Claimable' = Claimable \cup {slot[w]}
      BY <1>1, <2>1, <2>4 DEF Claimable
    <3>2. QED
      BY <1>0, <1>1, <2>2, <3>1 DEF WQ!Leave
  <2>5. QED
    BY <1>0, <2>3, <2>4 DEF HeldRows
<1>6. CASE ReleaseClaimFails(w)
  <2>1. status' = status /\ claimed' = claimed
    BY <1>6 DEF ReleaseClaimFails, rowVars
  <2>2. Claimable' = Claimable
    BY <2>1 DEF Claimable
  <2>3. CASE status[slot[w]] # "inbox"
    <3>1. Abandoned' = Abandoned
      BY <1>0, <1>1, <1>3, <2>1, <2>3 DEF Abandoned, TypeOK
    <3>2. QED
      BY <1>0, <1>1, <2>2, <3>1 DEF WQ!Leave
  <2>4. CASE status[slot[w]] = "inbox" /\ slot[w] \in claimed
    <3>1. \A b \in Apps : b \in Abandoned' <=> b \in Abandoned \/ b = slot[w]
      BY <1>3, <1>apart, <2>1, <2>4 DEF Abandoned
    <3>2. Abandoned' = Abandoned \cup {slot[w]}
      <4>1. Abandoned \subseteq Apps /\ Abandoned' \subseteq Apps
        BY <1>apart, <2>1 DEF Abandoned
      <4>2. QED
        BY <1>1, <3>1, <4>1
    <3>3. QED
      BY <1>0, <1>1, <2>2, <3>2 DEF WQ!Leave
  <2>5. QED
    BY <1>0, <2>3, <2>4 DEF HeldRows
<1>7. QED
  BY <1>4, <1>5, <1>6

\* A re-evaluation queues rated rows with their claims cleared; a row that is
\* being rated is not among them.
LEMMA ReevalArrives ==
  ASSUME ExclusiveInv, EnqueueForReeval
  PROVE  [\E S \in SUBSET Apps : WQ!Arrive(S)]_(WQ!queueVars)
<1> DEFINE rows == {a \in posted : status[a] = "evaluated"}
<1>0. TypeOK /\ HeldRows
  BY DEF ExclusiveInv, IInv
<1>1. /\ \A a \in Apps : status'[a] = IF a \in rows THEN "inbox" ELSE status[a]
      /\ claimed' = claimed \ rows /\ slot' = slot /\ rows \subseteq Apps
  BY <1>0 DEF EnqueueForReeval, Put, processVars, TypeOK
<1>2. Claimable' = Claimable \cup rows /\ Abandoned' = Abandoned
  BY <1>0, <1>1 DEF Claimable, Abandoned, TypeOK
<1>3. rows \cap (Claimable \cup Abandoned \cup WQ!Held) = {}
  <2>1. \A w \in Workers : slot[w] # NoApp => slot[w] \notin rows
    BY <1>0 DEF HeldRows
  <2>2. QED
    BY <2>1, HeldAre DEF Claimable, Abandoned
<1>4. CASE rows = {}
  BY <1>1, <1>2, <1>4 DEF WQ!queueVars
<1>5. CASE rows # {}
  <2>1. WQ!Arrive(rows)
    BY <1>1, <1>2, <1>3, <1>5 DEF WQ!Arrive
  <2>2. QED
    BY <1>1, <2>1
<1>6. QED
  BY <1>4, <1>5

\* The expiry of a row calls it off, unless a goroutine works on it.
LEMMA ExpiryWithdraws ==
  ASSUME ExclusiveInv, NEW a \in Apps, ProbeGone(a)
  PROVE  [WQ!Withdraw({a})]_(WQ!queueVars)
<1>0. TypeOK
  BY DEF ExclusiveInv, IInv
<1>1. claimed' = claimed /\ slot' = slot
  BY DEF ProbeGone, processVars
<1>2. CASE status' = status
  BY <1>1, <1>2, QueueFrame
<1>3. CASE Move({a}, "expired")
  <2>1. \A b \in Apps : status'[b] = IF b = a THEN "expired" ELSE status[b]
    BY <1>3 DEF Move, Put
  <2>2. Claimable' = Claimable \ {a} /\ Abandoned' = Abandoned \ {a}
    BY <1>0, <1>1, <2>1 DEF Claimable, Abandoned, TypeOK
  <2>3. CASE a \in Claimable \cup Abandoned
    BY <1>1, <2>2, <2>3 DEF WQ!Withdraw
  <2>4. CASE a \notin Claimable \cup Abandoned
    BY <1>1, <2>2, <2>4 DEF WQ!queueVars
  <2>5. QED
    BY <2>3, <2>4
<1>4. QED
  BY <1>2, <1>3 DEF ProbeGone

\* A person's move and a bulk discard call off the rows they reach, but for those
\* that goroutines work on: these are off the queue when their goroutines end.
LEMMA MoveWithdraws ==
  ASSUME ExclusiveInv, NEW h \in Handlers, Commit(h)
  PROVE  [\E S \in SUBSET Apps : WQ!Withdraw(S)]_(WQ!queueVars)
<1> DEFINE rows == handler[h].rows
           S == rows \cap (Claimable \cup Abandoned)
<1>0. TypeOK /\ QuietRequests /\ RequestsOK
  BY DEF ExclusiveInv, IInv
<1>1. handler[h].op \in {"setStatus", "discardBelowLine"} /\ Move(handler[h].rows, handler[h].to)
  BY <1>0 DEF QuietRequests, Commit, SetStatusWrite, DiscardBelowLineWrite,
     RequeueUnreportedWrite, RequeueBelowLineWrite
<1>2. handler[h].to # "inbox"
  BY <1>0, <1>1 DEF RequestsOK, RequestOK
<1>3. claimed' = claimed /\ slot' = slot
  BY <1>1 DEF Commit, SetStatusWrite, DiscardBelowLineWrite, RequeueUnreportedWrite,
     RequeueBelowLineWrite
<1>4. \A b \in Apps : status'[b] = IF b \in rows THEN handler[h].to ELSE status[b]
  BY <1>1, MoveValue
<1>5. Claimable' = Claimable \ S /\ Abandoned' = Abandoned \ S
  BY <1>0, <1>2, <1>3, <1>4 DEF Claimable, Abandoned, TypeOK
<1>6. S \in SUBSET Apps
  BY <1>0 DEF Claimable, Abandoned, TypeOK
<1>7. CASE S = {}
  BY <1>3, <1>5, <1>7 DEF WQ!queueVars
<1>8. CASE S # {}
  <2>1. WQ!Withdraw(S)
    BY <1>3, <1>5, <1>8 DEF WQ!Withdraw
  <2>2. QED
    BY <1>6, <2>1
<1>9. QED
  BY <1>7, <1>8

\* A crash takes the goroutines, and leaves their claims in the database.
LEMMA CrashStops ==
  ASSUME ExclusiveInv, Crash
  PROVE  \E done \in SUBSET Apps : WQ!Stop(done)
<1> DEFINE done == {a \in WQ!Held : status[a] # "inbox"}
<1>0. TypeOK /\ HeldRows
  BY DEF ExclusiveInv, IInv
<1>1. status' = status /\ claimed' = claimed /\ slot' = [w \in Workers |-> NoApp]
  BY DEF Crash, rowVars
<1>2. Claimable' = Claimable
  BY <1>1 DEF Claimable
<1>3. WQ!Held \subseteq Apps
  BY <1>0, HeldAre DEF TypeOK
<1>4. Abandoned' = Abandoned \cup (WQ!Held \ done)
  <2>1. Abandoned' = {a \in claimed : status[a] = "inbox"}
    BY <1>0, <1>1 DEF Abandoned, TypeOK
  <2>2. \A a \in WQ!Held : a \notin done => status[a] = "inbox" /\ a \in claimed
    BY <1>0, HeldAre DEF HeldRows
  <2>3. \A a \in Apps : a \notin WQ!Held => \A w \in Workers : slot[w] # a
    BY HeldAre
  <2>4. QED
    BY <1>0, <2>1, <2>2, <2>3 DEF Abandoned, TypeOK
<1>5. WQ!Stop(done)
  BY <1>1, <1>2, <1>4 DEF WQ!Stop
<1>6. QED
  BY <1>3, <1>5

\* The reclaiming at boot finds no goroutine at work.
LEMMA ReclaimRecovers ==
  ASSUME ExclusiveInv, ReclaimStaleClaims
  PROVE  [WQ!Recover]_(WQ!queueVars)
<1>0. TypeOK /\ HeldRows /\ status' = status /\ slot' = slot /\ dispatcher = "boot"
  BY DEF ExclusiveInv, IInv, ReclaimStaleClaims
<1>1. CASE claimed' = claimed
  BY <1>0, <1>1, QueueFrame
<1>2. CASE claimed' = {a \in claimed : status[a] # "inbox"}
  <2>1. \A w \in Workers : slot[w] = NoApp
    BY <1>0 DEF HeldRows
  <2>2. WQ!Held = {}
    BY <2>1, HeldAre
  <2>3. Abandoned = {a \in claimed : status[a] = "inbox"}
    BY <1>0, <2>1 DEF Abandoned, TypeOK
  <2>4. Claimable' = Claimable \cup Abandoned /\ Abandoned' = {}
    BY <1>0, <1>2, <2>3 DEF Claimable, Abandoned, TypeOK
  <2>5. QED
    BY <1>0, <2>2, <2>4 DEF WQ!Recover
<1>3. QED
  BY <1>1, <1>2 DEF ReclaimStaleClaims

\* Every step of the tracker is a step of the work queue, or none.
LEMMA QueueStep ==
  ASSUME ExclusiveInv, [Next]_vars
  PROVE  [WQ!QueueNext]_(WQ!queueVars)
<1> USE DEF rowVars, probeVars, processVars, WQ!QueueNext
<1>1. CASE \E a \in Apps : IngestNew(a)
  BY <1>1, IngestArrives
<1>2. CASE Poll \/ ClaimNone \/ Boot \/ \E on \in BOOLEAN : EvalPause(on)
  BY <1>2, QueueFrame DEF Poll, ClaimNone, Boot, EvalPause
<1>3. CASE \E a \in Apps : Resight(a) \/ ProbeAlive(a)
  BY <1>3, QueueFrame DEF Resight, ProbeAlive
<1>4. CASE \E w \in Workers, a \in Apps : ClaimNextInbox(w, a)
  BY <1>4, ClaimTakes
<1>5. CASE \E w \in Workers : \/ \E s \in {"low", "high"} : SaveEvaluation(w, s)
                              \/ ReleaseClaim(w)
                              \/ ReleaseClaimFails(w)
  BY <1>5, WorkerLeaves
<1>6. CASE EnqueueForReeval
  BY <1>6, ReevalArrives
<1>7. CASE \E a \in Apps : ProbeGone(a)
  BY <1>7, ExpiryWithdraws
<1>8. CASE Crash
  BY <1>8, CrashStops
<1>9. CASE ReclaimStaleClaims
  BY <1>9, ReclaimRecovers
<1>10. CASE UNCHANGED vars
  BY <1>10, QueueFrame DEF vars
<1>11. CASE \E h \in Handlers : Commit(h)
  BY <1>11, MoveWithdraws
<1>12. CASE \E h \in Handlers : HandlerNext(h) /\ ~Commit(h)
  BY <1>12, QueueFrame
     DEF HandlerNext, SetStatusRead, DiscardBelowLineRead, RequeueUnreportedRead, RequeueBelowLineRead,
         Begin, Abort
<1>13. QED
  BY <1>1, <1>2, <1>3, <1>4, <1>5, <1>6, <1>7, <1>8, <1>9, <1>10, <1>11, <1>12 DEF Next, EvaluatorNext

\* RunEvaluator, ClaimNextInbox, ReleaseClaim and ReclaimStaleClaims together are
\* a work queue, beside people who move roles on and bulk discards: every behaviour
\* of the tracker in which no request puts a row back while it is rated is one of
\* WorkQueue, for any number of roles, goroutines and requests.
THEOREM EvaluatorIsWorkQueue == ASSUME NoReturns PROVE Spec => ServesAsWorkQueue
<1>1. Init => WQ!QueueInit
  BY DEF Init, WQ!QueueInit, Claimable, Abandoned, ImportStatuses, Progression, SideStates
<1>2. ExclusiveInv /\ [Next]_vars => [WQ!QueueNext]_(WQ!queueVars)
  BY QueueStep
<1>3. Spec => []ExclusiveInv
  BY ExclusiveAlways
<1>4. QED
  BY <1>1, <1>2, <1>3, PTL DEF Spec, ServesAsWorkQueue, WQ!QueueSpec
==============================================================================
