----------------------------- MODULE ApplyProofs -----------------------------
(***************************************************************************)
(* What a request to prepare an application does to the browser, and what  *)
(* it reports of it, for any pages, profiles and number of turns.          *)
(***************************************************************************)
EXTENDS ApplyFlow, SequenceTheorems, TLAPS

USE TurnsAssumption

\* A snapshot after which the page has not turned is one of that page.
SnapOK == snap.turn <= turn /\ (snap.turn = turn => snap.page = page)

\* How far the request has got, and what it cannot have done by then.
StepsOK ==
  /\ step # "answered" => typed = {}
  /\ step \in {"ask", "initialize", "navigate"} => turn = 0
  /\ step \in {"ask", "initialize", "navigate", "look", "press"} => pressed = {} /\ res.clicked = {}
  /\ step = "press" => ApplyControls(snap.page) # {}
  /\ step = "look again" =>
       \A i \in DOMAIN snap.page : IsApplyControl(i, snap.page) =>
         [turn |-> snap.turn, page |-> snap.page, at |-> i] \in pressed

IInv == TypeOK /\ SnapOK /\ StepsOK /\ NothingTypedIsSubmitted /\ TypedIsSafe /\ ReportIsTrue

------------------------------------------------------------------------------
(* What is read off a page is there.                                       *)

\* A shown page has its elements at numbers.
LEMMA PageTypes ==
  ASSUME NEW p \in Shown
  PROVE  DOMAIN p \subseteq Nat
<1>1. p \in Seq(Element)
  BY PagesAssumption, EmptySeq DEF Shown, Blank
<1>2. DOMAIN p = 1..Len(p) /\ Len(p) \in Nat
  BY <1>1, LenProperties
<1>3. QED
  BY <1>2

\* There is one first Apply-like control at most, on a page without text fields.
LEMMA OneControl ==
  ASSUME NEW p \in Shown, NEW i \in DOMAIN p, NEW j \in DOMAIN p,
         IsApplyControl(i, p), IsApplyControl(j, p)
  PROVE  i = j /\ TextFields(p) = {}
<1>1. i \in Nat /\ j \in Nat
  BY PageTypes
<1>2. i <= j /\ j <= i /\ TextFields(p) = {}
  BY DEF IsApplyControl, ApplyControls
<1>3. QED
  BY <1>1, <1>2

\* What the flow fills are text fields, none of them one to be left alone.
LEMMA FillsAreSafe ==
  ASSUME NEW p, NEW prof, NEW i \in Fills(p, prof)
  PROVE  /\ i \in DOMAIN p /\ i \in TextFields(p)
         /\ p[i].role \in TextRoles /\ p[i].name \cap NeverFill = {}
BY DEF Fills, TextFields, Matches

\* An answer without a report changes the code and the note.
LEMMA AnswerStep ==
  ASSUME res \in Results, NEW c \in {"rejected", "bad gateway", "ok"}, NEW n \in Notes, Answer(c, n)
  PROVE  /\ step' = "answered" /\ res' \in Results
         /\ res'.code = c /\ res'.note = n /\ res'.clicked = res.clicked
BY DEF Answer, Results

\* The invariant holds when the flow starts.
LEMMA InitIInv == Init => IInv
<1> SUFFICES ASSUME Init PROVE IInv
  OBVIOUS
<1>1. /\ step = "ask" /\ profile = NoProfile /\ page = Blank /\ turn = 0
      /\ snap = [turn |-> 0, page |-> Blank]
      /\ res = [code |-> "none", clicked |-> {}, filled |-> {}, remaining |-> {}, note |-> "none"]
      /\ pressed = {} /\ typed = {} /\ submitted = {}
  BY DEF Init
<1>2. res \in Results /\ snap \in Shots
  BY <1>1 DEF Results, Shots, Shown, Notes
<1>3. TypeOK
  BY <1>1, <1>2 DEF TypeOK, Steps, Shown, Results
<1>4. SnapOK /\ StepsOK /\ NothingTypedIsSubmitted /\ TypedIsSafe /\ ReportIsTrue
  BY <1>1, TurnsAssumption DEF SnapOK, StepsOK, NothingTypedIsSubmitted, TypedIsSafe, ReportIsTrue
<1>5. QED
  BY <1>3, <1>4 DEF IInv

------------------------------------------------------------------------------
(* The steps.                                                              *)

\* Before the browser is touched.
LEMMA EarlyStep ==
  ASSUME IInv, ApplyJob \/ Initialize
  PROVE  IInv'
<1>i. TypeOK /\ SnapOK /\ StepsOK /\ NothingTypedIsSubmitted /\ TypedIsSafe /\ ReportIsTrue
  BY DEF IInv
<1>0. res \in Results
  BY <1>i DEF TypeOK
<1>1. /\ UNCHANGED <<page, turn, snap, pressed, typed, submitted>>
      /\ step \in {"ask", "initialize"} /\ profile' \in Profiles \cup {NoProfile}
      /\ \/ step' \in {"initialize", "navigate"} /\ UNCHANGED res
         \/ /\ step' = "answered"
            /\ res' \in Results /\ res'.code \in {"rejected", "bad gateway"} /\ res'.clicked = res.clicked
  <2>1. "none" \in Notes
    BY DEF Notes
  <2>2. CASE ApplyJob
    <3>1. /\ UNCHANGED <<page, turn, snap, pressed, typed, submitted>> /\ step = "ask"
          /\ \/ Answer("rejected", "none") /\ UNCHANGED profile
             \/ step' = "initialize" /\ profile' \in Profiles \cup {NoProfile} /\ UNCHANGED res
      BY <2>2 DEF ApplyJob, browser, acts
    <3>2. Answer("rejected", "none") =>
            /\ step' = "answered"
            /\ res' \in Results /\ res'.code \in {"rejected", "bad gateway"} /\ res'.clicked = res.clicked
      BY <1>0, <2>1, AnswerStep
    <3>3. QED
      BY <1>i, <3>1, <3>2 DEF TypeOK
  <2>3. CASE Initialize
    <3>1. /\ UNCHANGED <<profile, page, turn, snap, pressed, typed, submitted>> /\ step = "initialize"
          /\ \/ Answer("bad gateway", "none")
             \/ step' = "navigate" /\ UNCHANGED res
      BY <2>3 DEF Initialize, browser, acts
    <3>2. Answer("bad gateway", "none") =>
            /\ step' = "answered"
            /\ res' \in Results /\ res'.code \in {"rejected", "bad gateway"} /\ res'.clicked = res.clicked
      BY <1>0, <2>1, AnswerStep
    <3>3. QED
      BY <1>i, <3>1, <3>2 DEF TypeOK
  <2>4. QED
    BY <2>2, <2>3
<1>2. turn = 0 /\ pressed = {} /\ typed = {} /\ res.clicked = {}
  BY <1>i, <1>1 DEF StepsOK
<1>3. TypeOK'
  BY <1>i, <1>0, <1>1 DEF TypeOK, Steps, Notes
<1>4. SnapOK' /\ StepsOK' /\ NothingTypedIsSubmitted' /\ TypedIsSafe'
  BY <1>i, <1>0, <1>1, <1>2 DEF SnapOK, StepsOK, NothingTypedIsSubmitted, TypedIsSafe
<1>5. ReportIsTrue'
  BY <1>i, <1>0, <1>1, <1>2 DEF ReportIsTrue, TypeOK
<1>6. QED
  BY <1>3, <1>4, <1>5 DEF IInv

\* The page is opened, or turns.
LEMMA PageStep ==
  ASSUME IInv, Navigate \/ PageTurns
  PROVE  IInv'
<1>i. TypeOK /\ SnapOK /\ StepsOK /\ NothingTypedIsSubmitted /\ TypedIsSafe /\ ReportIsTrue
  BY DEF IInv
<1>0. /\ res \in Results
      /\ turn \in Nat /\ snap.turn \in Nat
  BY <1>i DEF TypeOK, Shots
<1>1. /\ UNCHANGED <<profile, snap, pressed, typed, submitted>>
      /\ step # "answered"
      /\ \/ page' \in Pages /\ turn < MaxTurns /\ turn' = turn + 1
         \/ UNCHANGED <<page, turn>>
      /\ \/ UNCHANGED <<step, res>> /\ step \notin {"ask", "initialize", "navigate"}
         \/ step = "navigate" /\ step' = "look" /\ UNCHANGED res
         \/ /\ step = "navigate" /\ step' = "answered"
            /\ res' \in Results /\ res'.code = "ok" /\ res'.note = "not opened"
            /\ res'.clicked = res.clicked
  <2>1. "not opened" \in Notes
    BY DEF Notes
  <2>2. CASE Navigate
    BY <1>i, <1>0, <2>1, <2>2, AnswerStep DEF Navigate, browser, acts
  <2>3. CASE PageTurns
    BY <2>3 DEF PageTurns, browser, acts
  <2>4. QED
    BY <2>2, <2>3
<1>2. typed = {} /\ res.code = "none"
  BY <1>i, <1>0, <1>1 DEF StepsOK, TypeOK
<1>3. turn' \in 0..MaxTurns /\ page' \in Shown
  <2>1. turn \in 0..MaxTurns /\ page \in Shown /\ MaxTurns \in Nat
    BY <1>i DEF TypeOK
  <2>2. CASE page' \in Pages /\ turn < MaxTurns /\ turn' = turn + 1
    BY <2>1, <2>2 DEF Shown
  <2>3. CASE UNCHANGED <<page, turn>>
    BY <2>1, <2>3
  <2>4. QED
    BY <1>1, <2>2, <2>3
<1>4. TypeOK'
  BY <1>i, <1>0, <1>1, <1>3 DEF TypeOK, Steps, Notes
<1>5. SnapOK'
  <2>1. snap' = snap /\ ((turn' = turn /\ page' = page) \/ turn' = turn + 1)
    BY <1>1
  <2>2. snap.turn <= turn /\ (snap.turn = turn => snap.page = page)
    BY <1>i DEF SnapOK
  <2>3. QED
    BY <1>0, <2>1, <2>2 DEF SnapOK
<1>6. StepsOK'
  BY <1>i, <1>0, <1>1 DEF StepsOK
<1>7. NothingTypedIsSubmitted' /\ TypedIsSafe'
  BY <1>i, <1>1 DEF NothingTypedIsSubmitted, TypedIsSafe
<1>8. ReportIsTrue'
  BY <1>i, <1>0, <1>1, <1>2 DEF ReportIsTrue
<1>9. QED
  BY <1>4, <1>5, <1>6, <1>7, <1>8 DEF IInv

\* The page is read.
LEMMA LookStep ==
  ASSUME IInv, Snapshot \/ SnapshotAgain
  PROVE  IInv'
<1>i. TypeOK /\ SnapOK /\ StepsOK /\ NothingTypedIsSubmitted /\ TypedIsSafe /\ ReportIsTrue
  BY DEF IInv
<1>0. /\ res \in Results
      /\ turn \in 0..MaxTurns /\ page \in Shown /\ snap \in Shots
      /\ pressed \subseteq Places
  BY <1>i DEF TypeOK
<1>1. UNCHANGED <<profile, page, turn, pressed, typed, submitted>>
  BY DEF Snapshot, SnapshotAgain, browser, acts
<1>2. typed = {} /\ res.code = "none"
  BY <1>i DEF Snapshot, SnapshotAgain, StepsOK, TypeOK
<1>3. snap' = [turn |-> turn, page |-> page] \/ snap' = snap
  BY DEF Snapshot, SnapshotAgain
<1>4. snap' \in Shots /\ SnapOK'
  BY <1>i, <1>0, <1>1, <1>3 DEF Shots, SnapOK
<1>5. NothingTypedIsSubmitted' /\ TypedIsSafe'
  BY <1>i, <1>1 DEF NothingTypedIsSubmitted, TypedIsSafe
<1>6. CASE Snapshot
  <2>1. /\ pressed = {} /\ res.clicked = {}
        /\ \/ /\ UNCHANGED res /\ step' \in {"press", "fill"}
              /\ step' = "press" => ApplyControls(snap'.page) # {}
           \/ /\ step' = "answered" /\ res' \in Results
              /\ res'.code = "ok" /\ res'.note = "unreadable" /\ res'.clicked = res.clicked
    <3>1. "unreadable" \in Notes
      BY DEF Notes
    <3>2. pressed = {} /\ res.clicked = {}
      BY <1>i, <1>6 DEF Snapshot, StepsOK
    <3>3. CASE Answer("ok", "unreadable")
      BY <1>0, <3>1, <3>2, <3>3, AnswerStep
    <3>4. CASE /\ snap' = [turn |-> turn, page |-> page]
               /\ step' = IF ApplyControls(page) # {} THEN "press" ELSE "fill"
               /\ UNCHANGED res
      BY <3>2, <3>4
    <3>5. QED
      BY <1>6, <3>3, <3>4 DEF Snapshot
  <2>2. TypeOK'
    BY <1>i, <1>0, <1>1, <1>2, <1>4, <2>1 DEF TypeOK, Steps
  <2>3. StepsOK' /\ ReportIsTrue'
    BY <1>i, <1>0, <1>1, <1>2, <2>1 DEF StepsOK, ReportIsTrue
  <2>4. QED
    BY <1>4, <1>5, <2>2, <2>3 DEF IInv
<1>7. CASE SnapshotAgain
  <2>1. /\ step = "look again" /\ step' = "fill"
        /\ \/ UNCHANGED res
           \/ \E i \in DOMAIN snap.page :
                /\ IsApplyControl(i, snap.page)
                /\ res' = [res EXCEPT !.clicked = {[turn |-> snap.turn, page |-> snap.page, at |-> i]}]
    BY <1>7 DEF SnapshotAgain
  <2>2. res'.clicked \subseteq pressed /\ res'.code = "none"
    <3>1. CASE UNCHANGED res
      BY <1>i, <1>2, <3>1 DEF ReportIsTrue
    <3>2. ASSUME NEW i \in DOMAIN snap.page, IsApplyControl(i, snap.page),
                 res' = [res EXCEPT !.clicked = {[turn |-> snap.turn, page |-> snap.page, at |-> i]}]
          PROVE  res'.clicked \subseteq pressed /\ res'.code = "none"
      <4>1. [turn |-> snap.turn, page |-> snap.page, at |-> i] \in pressed
        BY <1>i, <2>1, <3>2 DEF StepsOK
      <4>2. /\ res'.clicked = {[turn |-> snap.turn, page |-> snap.page, at |-> i]}
            /\ res'.code = res.code
        BY <1>0, <3>2 DEF Results
      <4>3. QED
        BY <1>2, <4>1, <4>2
    <3>3. QED
      BY <2>1, <3>1, <3>2
  <2>3. TypeOK'
    <3>1. res' \in Results
      BY <1>i, <1>0, <2>1, <2>2 DEF Results
    <3>2. QED
      BY <1>i, <1>1, <1>4, <2>1, <2>2, <3>1 DEF TypeOK, Steps
  <2>4. StepsOK' /\ ReportIsTrue'
    BY <1>i, <1>1, <1>2, <2>1, <2>2 DEF StepsOK, ReportIsTrue
  <2>5. QED
    BY <1>4, <1>5, <2>3, <2>4 DEF IInv
<1>8. QED
  BY <1>6, <1>7

\* A control is pressed, the first there has been, or the press fails.
LEMMA ClickStep ==
  ASSUME IInv, Click
  PROVE  IInv'
<1>i. TypeOK /\ SnapOK /\ StepsOK /\ NothingTypedIsSubmitted /\ TypedIsSafe /\ ReportIsTrue
  BY DEF IInv
<1>0. /\ page \in Shown /\ turn \in 0..MaxTurns /\ res \in Results /\ snap \in Shots
      /\ submitted \subseteq SUBSET Places /\ snap.page \in Shown
  BY <1>i DEF TypeOK, Shots
<1>1. UNCHANGED <<profile, page, turn, snap, res, typed>> /\ step = "press"
  BY DEF Click, browser
<1>2. typed = {} /\ pressed = {} /\ res.clicked = {} /\ res.code = "none"
  BY <1>i, <1>1 DEF StepsOK, TypeOK
<1>3. PICK i \in DOMAIN snap.page, reply \in Replies, done \in BOOLEAN :
        /\ IsApplyControl(i, snap.page)
        /\ reply = "result" => done
        /\ done => snap.turn = turn
        /\ pressed'   = IF done THEN pressed \cup {Here(i)} ELSE pressed
        /\ submitted' = IF done /\ Submits(page[i]) THEN submitted \cup {typed} ELSE submitted
        /\ step' = IF reply = "result" THEN "look again" ELSE "fill"
  BY DEF Click
<1>4. /\ step' \in {"look again", "fill"} /\ (step' = "look again" => done)
      /\ step' # "answered"
  BY <1>3
<1>5. i \in Nat /\ TextFields(snap.page) = {}
  BY <1>0, <1>3, PageTypes, OneControl
<1>6. done => snap.page = page /\ Here(i) = [turn |-> snap.turn, page |-> snap.page, at |-> i]
  BY <1>i, <1>3 DEF SnapOK, Here
<1>7. Here(i) \in Places /\ Here(i).page = page
  BY <1>0, <1>5 DEF Here, Places
<1>8. /\ pressed' \subseteq {Here(i)} /\ (done => Here(i) \in pressed')
      /\ pressed' # {} => done
  BY <1>2, <1>3
<1>9. submitted' \subseteq {{}} /\ submitted' \subseteq SUBSET Places
  BY <1>i, <1>0, <1>2, <1>3 DEF NothingTypedIsSubmitted
<1>10. TypeOK'
  BY <1>i, <1>1, <1>2, <1>4, <1>7, <1>8, <1>9 DEF TypeOK, Steps
<1>11. SnapOK' /\ TypedIsSafe'
  BY <1>i, <1>1 DEF SnapOK, TypedIsSafe
<1>12. NothingTypedIsSubmitted'
  BY <1>5, <1>6, <1>7, <1>8, <1>9 DEF NothingTypedIsSubmitted
<1>13. StepsOK'
  <2>1. ASSUME NEW j \in DOMAIN snap.page, IsApplyControl(j, snap.page), step' = "look again"
        PROVE  [turn |-> snap.turn, page |-> snap.page, at |-> j] \in pressed'
    <3>1. j = i
      BY <1>0, <1>3, <2>1, OneControl
    <3>2. QED
      BY <1>4, <1>6, <1>8, <2>1, <3>1
  <2>2. QED
    BY <1>1, <1>2, <1>4, <2>1 DEF StepsOK
<1>14. ReportIsTrue'
  BY <1>1, <1>2 DEF ReportIsTrue
<1>15. QED
  BY <1>10, <1>11, <1>12, <1>13, <1>14 DEF IInv

\* The form is filled in, or as much of it as the call got to.
LEMMA FillStep ==
  ASSUME IInv, FillForm
  PROVE  IInv'
<1>i. TypeOK /\ SnapOK /\ StepsOK /\ NothingTypedIsSubmitted /\ TypedIsSafe /\ ReportIsTrue
  BY DEF IInv
<1> DEFINE fills == Fills(snap.page, profile)
           place(j) == [turn |-> snap.turn, page |-> snap.page, at |-> j]
<1>0. /\ res \in Results /\ snap \in Shots /\ snap.turn \in 0..MaxTurns /\ snap.page \in Shown
      /\ res.clicked \subseteq pressed
  BY <1>i DEF TypeOK, Shots, ReportIsTrue
<1>1. UNCHANGED <<profile, page, turn, snap, pressed, submitted>> /\ step = "fill" /\ step' = "answered"
  BY DEF FillForm, Report, browser
<1>2. typed = {}
  BY <1>i, <1>1 DEF StepsOK
<1>3. fills \subseteq TextFields(snap.page) /\ fills \subseteq Nat /\ TextFields(snap.page) \subseteq Nat
  BY <1>0, PageTypes DEF Fills, TextFields
<1>4. \A j \in fills : /\ place(j) \in Places
                       /\ snap.page[j].role \in TextRoles /\ snap.page[j].name \cap NeverFill = {}
  BY <1>0, <1>3, FillsAreSafe DEF Places
<1>5. snap.turn = turn => \A j : Here(j) = place(j)
  BY <1>i DEF SnapOK, Here
<1>6. PICK note \in Notes :
        /\ Report(note)
        /\ \/ typed' = {}
           \/ snap.turn = turn /\ \E k \in Nat : typed' = {Here(j) : j \in {n \in fills : n <= k}}
        /\ note # "not filled" => typed' = {place(j) : j \in fills}
  <2>1. {"none", "no fields", "not filled"} \subseteq Notes
    BY DEF Notes
  <2>2. CASE fills = {} /\ typed' = typed /\ Report(IF TextFields(snap.page) = {} THEN "no fields" ELSE "none")
    <3>1. typed' = {} /\ {place(j) : j \in fills} = {}
      BY <1>2, <2>2
    <3>2. QED
      BY <2>1, <2>2, <3>1
  <2>3. CASE snap.turn = turn /\ TypeUpTo(Len(page)) /\ Report("none")
    <3>1. snap.page = page /\ page \in Seq(Element)
      BY <1>i, <2>3, PagesAssumption, EmptySeq DEF SnapOK, TypeOK, Shown, Blank
    <3>2. Len(page) \in Nat /\ DOMAIN page = 1..Len(page)
      BY <3>1, LenProperties
    <3>3. {n \in fills : n <= Len(page)} = fills
      BY <3>1, <3>2 DEF Fills, TextFields
    <3>4. typed' = {Here(j) : j \in {n \in fills : n <= Len(page)}}
      BY <1>2, <2>3 DEF TypeUpTo
    <3>5. typed' = {place(j) : j \in fills}
      BY <1>5, <2>3, <3>3, <3>4
    <3>6. QED
      BY <2>1, <2>3, <3>2, <3>4, <3>5
  <2>4. CASE Report("not filled") /\ (typed' = typed \/ (snap.turn = turn /\ \E k \in DOMAIN page : TypeUpTo(k)))
    <3>1. DOMAIN page \subseteq Nat
      BY <1>i, PageTypes DEF TypeOK
    <3>2. \A k \in DOMAIN page : TypeUpTo(k) => typed' = {Here(j) : j \in {n \in fills : n <= k}}
      BY <1>2 DEF TypeUpTo
    <3>3. QED
      BY <1>2, <2>1, <2>4, <3>1, <3>2
  <2> DEFINE Nothing == fills = {} /\ typed' = typed
                          /\ Report(IF TextFields(snap.page) = {} THEN "no fields" ELSE "none")
             All     == snap.turn = turn /\ TypeUpTo(Len(page)) /\ Report("none")
             Some    == Report("not filled")
                          /\ (typed' = typed \/ (snap.turn = turn /\ \E k \in DOMAIN page : TypeUpTo(k)))
  <2>5. Nothing \/ All \/ Some
    BY DEF FillForm
  <2>6. QED
    BY <2>2, <2>3, <2>4, <2>5
<1>7. typed' \subseteq {place(j) : j \in fills}
  <2>1. CASE typed' = {}
    BY <2>1
  <2>2. ASSUME snap.turn = turn, NEW k \in Nat, typed' = {Here(j) : j \in {n \in fills : n <= k}}
        PROVE  typed' \subseteq {place(j) : j \in fills}
    BY <1>5, <2>2
  <2>3. QED
    BY <1>6, <2>1, <2>2
<1>8. /\ res' \in Results /\ res'.code = "ok" /\ res'.note = note /\ res'.clicked = res.clicked
      /\ res'.filled = fills /\ res'.remaining = TextFields(snap.page) \ fills
  BY <1>0, <1>3, <1>6 DEF Report, Results
<1>9. \A t \in typed' : /\ t \in Places
                        /\ t.page[t.at].role \in TextRoles /\ t.page[t.at].name \cap NeverFill = {}
  BY <1>4, <1>7
<1>10. TypeOK'
  BY <1>i, <1>1, <1>8, <1>9 DEF TypeOK, Steps
<1>11. SnapOK' /\ StepsOK' /\ NothingTypedIsSubmitted'
  BY <1>i, <1>1 DEF SnapOK, StepsOK, NothingTypedIsSubmitted
<1>12. TypedIsSafe'
  BY <1>9 DEF TypedIsSafe
<1>13. ReportIsTrue'
  BY <1>0, <1>1, <1>3, <1>6, <1>8 DEF ReportIsTrue
<1>14. QED
  BY <1>10, <1>11, <1>12, <1>13 DEF IInv

\* Every step of the specification.
LEMMA IInvAlways == Spec => []IInv
<1>1. IInv /\ [Next]_vars => IInv'
  <2>1. ASSUME IInv, Next PROVE IInv'
    BY <2>1, EarlyStep, PageStep, LookStep, ClickStep, FillStep DEF Next, Request
  <2>2. ASSUME IInv, UNCHANGED vars PROVE IInv'
    <3>1. UNCHANGED <<step, profile, page, turn, snap, res, pressed, typed, submitted>>
      BY <2>2 DEF vars, browser, acts
    <3>2. TypeOK' /\ SnapOK' /\ StepsOK'
      BY <2>2, <3>1 DEF IInv, TypeOK, SnapOK, StepsOK
    <3>3. NothingTypedIsSubmitted' /\ TypedIsSafe'
      BY <2>2, <3>1 DEF IInv, NothingTypedIsSubmitted, TypedIsSafe
    <3>4. ReportIsTrue'
      BY <2>2, <3>1 DEF IInv, ReportIsTrue
    <3>5. QED
      BY <3>2, <3>3, <3>4 DEF IInv
  <2>3. QED
    BY <2>1, <2>2
<1>2. QED
  BY <1>1, InitIInv, PTL DEF Spec

------------------------------------------------------------------------------
\* The types, and that an answered request, and no other, has a code.
THEOREM TypeCorrect == Spec => []TypeOK
<1>1. IInv => TypeOK
  BY DEF IInv
<1>2. QED
  BY <1>1, IInvAlways, PTL

\* One press at most, on a page without text fields; what it submits was not
\* typed by the flow.
THEOREM TypedIsNotSubmitted == Spec => []NothingTypedIsSubmitted
<1>1. IInv => NothingTypedIsSubmitted
  BY DEF IInv
<1>2. QED
  BY <1>1, IInvAlways, PTL

\* Whatever pages come up, no field that is the person's to answer is typed into.
THEOREM TypingIsSafe == Spec => []TypedIsSafe
<1>1. IInv => TypedIsSafe
  BY DEF IInv
<1>2. QED
  BY <1>1, IInvAlways, PTL

\* What the report says was done has been done.
THEOREM ReportsAreTrue == Spec => []ReportIsTrue
<1>1. IInv => ReportIsTrue
  BY DEF IInv
<1>2. QED
  BY <1>1, IInvAlways, PTL
==============================================================================
