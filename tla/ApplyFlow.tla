------------------------------ MODULE ApplyFlow ------------------------------
(***************************************************************************)
(* One request to prepare an application: applyJob, prepareApplication and *)
(* the calls of the WebMCP client, beside a page that changes by itself or *)
(* under the hands of the person at the noVNC desktop.  A client is one    *)
(* browser session, so that requests share nothing.                        *)
(*                                                                         *)
(* External, as the code uses it: the browser and its pages.  A call may   *)
(* fail before or after it had its effect; what it names by a reference of *)
(* an earlier page is refused.                                             *)
(***************************************************************************)
EXTENDS Naturals, Sequences, FiniteSets

CONSTANTS
  Pages,      \* what the browser may show: sequences of elements
  Profiles,   \* the candidate profiles that may be stored, by what they have
  MaxTurns    \* bound on the changes of the page

TextRoles == {"textbox", "combobox"}
Roles     == TextRoles \cup {"checkbox", "radio", "slider", "link", "button"}

\* An element: its accessible name as the words the code looks for, and whether
\* its line has the shape of the expressions, with a name and the ref next to it.
Element == [role : Roles, name : SUBSET STRING, legible : BOOLEAN]

ASSUME PagesAssumption == Pages \subseteq Seq(Element)
ASSUME TurnsAssumption == MaxTurns \in Nat \ {0}

VARIABLES
  step,       \* the next call of the request, or "answered"
  profile,    \* the profile it read
  page,       \* what the browser shows
  turn,       \* how often that changed
  snap,       \* the last snapshot read: of which page, after how many turns
  res,        \* applyResult
  pressed,    \* the controls that were pressed, where
  typed,      \* the fields that were typed into, where
  submitted   \* what had been typed when a press submitted

browser == <<page, turn>>
acts    == <<pressed, typed, submitted>>
vars    == <<step, profile, browser, snap, res, acts>>

Steps == {"ask", "initialize", "navigate", "look", "press", "look again", "fill", "answered"}
Notes == {"none", "not opened", "unreadable", "not filled", "no fields"}

Blank  == <<>>
Shown  == Pages \cup {Blank}
Places == [turn : 0..MaxTurns, page : Shown, at : Nat]
Shots  == [turn : 0..MaxTurns, page : Shown]

Results == [code : {"none", "rejected", "bad gateway", "ok"}, clicked : SUBSET Places,
            filled : SUBSET Nat, remaining : SUBSET Nat, note : Notes]

NoProfile == [words |-> 0, address |-> <<>>, has |-> {}]

TypeOK ==
  /\ step \in Steps /\ (step = "answered" <=> res.code # "none")
  /\ profile \in Profiles \cup {NoProfile}
  /\ page \in Shown /\ turn \in 0..MaxTurns
  /\ snap \in Shots
  /\ res \in Results
  /\ pressed \subseteq Places /\ typed \subseteq Places
  /\ submitted \subseteq SUBSET Places

Init ==
  /\ step = "ask" /\ profile = NoProfile
  /\ page = Blank /\ turn = 0
  /\ snap = [turn |-> 0, page |-> Blank]
  /\ res = [code |-> "none", clicked |-> {}, filled |-> {}, remaining |-> {}, note |-> "none"]
  /\ pressed = {} /\ typed = {} /\ submitted = {}

------------------------------------------------------------------------------
(* What the code makes of a snapshot.                                      *)

\* parseSnapshot, without the roles that are never touched.
TextFields(p) == {i \in DOMAIN p : p[i].legible /\ p[i].role \in TextRoles}

ApplyWords == {"apply", "apply now", "apply for", "apply to this", "submit application", "start application"}

\* Mutant: controls are looked for whatever fields the page has.
ApplyControlAnywhere(p) ==
  {i \in DOMAIN p : p[i].legible /\ p[i].role \in {"link", "button"} /\ p[i].name \cap ApplyWords # {}}

\* The Apply-like controls of a page that has nothing to fill in.
ApplyControls(p) ==
  {i \in DOMAIN p : /\ p[i].legible /\ p[i].role \in {"link", "button"}
                    /\ p[i].name \cap ApplyWords # {}
                    /\ TextFields(p) = {}}

\* findApplyControl: the first of them.
IsApplyControl(i, p) == i \in ApplyControls(p) /\ \A j \in ApplyControls(p) : i <= j

Submits(e) == "submit application" \in e.name

NeverFill == {"sponsor", "visa", "authoriz", "work permit", "eligible to work", "legally", "veteran",
  "disab", "gender", "race", "ethnic", "hispanic", "age", "salary", "compensation", "expected pay",
  "desired", "how did you hear", "referr", "reference", "citizen", "clearance", "felon", "crimin",
  "consent", "agree", "certif", "confirm", "acknowledg", "cover letter", "why ", "describe",
  "do you ", "have you ", "are you "}

\* splitName and splitAddress: which parts a name of so many words has, and an
\* address of parts of so many words: street, city, then state and zip.
First(p)     == p.words > 0
Last(p)      == p.words > 1
Words(p, i)  == IF i \in DOMAIN p.address THEN p.address[i] ELSE 0
Street(p)    == Words(p, 1) > 0
City(p)      == Words(p, 2) > 0
StateOf(p)   == Words(p, 3) > 0
Zip(p)       == Words(p, 3) > 1

\* matchValue's cases, in their order, and whether the profile has the value;
\* "only" stands for a name that is the word and nothing else.
Cases(p) == <<
  [asks |-> {"first name", "given name", "first"},                 given |-> First(p)],
  [asks |-> {"last name", "surname", "family name"},               given |-> Last(p)],
  [asks |-> {"full name", "legal name", "your name", "only name"}, given |-> First(p)],
  [asks |-> {"e-mail", "email"},                                   given |-> "email" \in p.has],
  [asks |-> {"phone", "telephone", "mobile", "cell"},              given |-> "phone" \in p.has],
  [asks |-> {"linkedin"},                                          given |-> "linkedin" \in p.has],
  [asks |-> {"github"},                                            given |-> "github" \in p.has],
  [asks |-> {"portfolio", "website", "personal site", "url"},      given |-> "github" \in p.has],
  [asks |-> {"street", "address line", "only address"},            given |-> Street(p)],
  [asks |-> {"city", "town"},                                      given |-> City(p)],
  [asks |-> {"zip", "postal"},                                     given |-> Zip(p)],
  [asks |-> {"state", "province", "region"},                       given |-> StateOf(p)],
  [asks |-> {"pronoun"},                                           given |-> "pronouns" \in p.has],
  [asks |-> {"location", "based", "where are you"},                given |-> "domicile" \in p.has]>>

Asked(name, p) ==
  {k \in DOMAIN Cases(p) : /\ name \cap Cases(p)[k].asks # {}
                           /\ ~("state" \in Cases(p)[k].asks /\ "united" \in name)}

\* Mutant: a name that asks for something known is not looked at any further.
MatchesFirst(name, p) ==
  \E k \in Asked(name, p) : Cases(p)[k].given /\ \A j \in Asked(name, p) : k <= j

\* The first case that applies decides; a value the profile lacks fills nothing.
Matches(name, p) ==
  /\ name # {} /\ name \cap NeverFill = {}
  /\ \E k \in Asked(name, p) : Cases(p)[k].given /\ \A j \in Asked(name, p) : k <= j

Fills(p, prof) == {i \in TextFields(p) : Matches(p[i].name, prof)}

------------------------------------------------------------------------------
(* The request.                                                            *)

\* What rpc comes back with: "error" stands for a timeout, a status, an empty or
\* undecodable stream, an error of the protocol or of the tool.
Replies == {"result", "accepted", "error"}

Answer(code, note) ==
  /\ step' = "answered"
  /\ res' = [res EXCEPT !.code = code, !.note = note]

\* applyJob turns a request down for want of a database, a row or a url; a
\* configuration that cannot be read is an empty profile.
ApplyJob ==
  /\ step = "ask"
  /\ \/ Answer("rejected", "none") /\ UNCHANGED profile
     \/ step' = "initialize" /\ profile' \in Profiles \cup {NoProfile} /\ UNCHANGED res
  /\ UNCHANGED <<browser, snap, acts>>

\* An answer of 202 has no body; the handshake does not look at it.
Initialize ==
  /\ step = "initialize"
  /\ \E reply \in Replies :
       IF reply = "error" THEN Answer("bad gateway", "none") ELSE step' = "navigate" /\ UNCHANGED res
  /\ UNCHANGED <<profile, browser, snap, acts>>

\* A tool's answer of 202 has no result to decode: an error.
Navigate ==
  /\ step = "navigate" /\ turn < MaxTurns
  /\ \E reply \in Replies, done \in BOOLEAN :
       /\ reply = "result" => done
       /\ IF done THEN page' \in Pages /\ turn' = turn + 1 ELSE UNCHANGED browser
       /\ IF reply = "result" THEN step' = "look" /\ UNCHANGED res ELSE Answer("ok", "not opened")
  /\ UNCHANGED <<profile, snap, acts>>

Snapshot ==
  /\ step = "look"
  /\ \/ /\ snap' = [turn |-> turn, page |-> page]
        /\ step' = IF ApplyControls(page) # {} THEN "press" ELSE "fill"
        /\ UNCHANGED res
     \/ Answer("ok", "unreadable") /\ UNCHANGED snap
  /\ UNCHANGED <<profile, browser, acts>>

Here(i) == [turn |-> turn, page |-> page, at |-> i]

\* After an error the flow goes on with the snapshot it has.
Click ==
  /\ step = "press"
  /\ \E i \in DOMAIN snap.page, reply \in Replies, done \in BOOLEAN :
       /\ IsApplyControl(i, snap.page)
       /\ reply = "result" => done
       /\ done => snap.turn = turn
       /\ pressed'   = IF done THEN pressed \cup {Here(i)} ELSE pressed
       /\ submitted' = IF done /\ Submits(page[i]) THEN submitted \cup {typed} ELSE submitted
       /\ step' = IF reply = "result" THEN "look again" ELSE "fill"
  /\ UNCHANGED <<profile, browser, snap, res, typed>>

\* WaitTime's outcome is ignored; a snapshot that fails leaves the old one, and
\* the press unreported.
SnapshotAgain ==
  /\ step = "look again"
  /\ \/ /\ snap' = [turn |-> turn, page |-> page]
        /\ \E i \in DOMAIN snap.page :
             /\ IsApplyControl(i, snap.page)
             /\ res' = [res EXCEPT !.clicked = {[turn |-> snap.turn, page |-> snap.page, at |-> i]}]
     \/ UNCHANGED <<snap, res>>
  /\ step' = "fill"
  /\ UNCHANGED <<profile, browser, acts>>

\* Mutant: the report is written only where something was filled.
ReportForgotten(note) ==
  /\ step' = "answered"
  /\ res' = IF Fills(snap.page, profile) = {} THEN res ELSE [res EXCEPT !.code = "ok", !.note = note]

Report(note) ==
  /\ step' = "answered"
  /\ res' = [res EXCEPT !.code = "ok", !.note = note, !.filled = Fills(snap.page, profile),
                        !.remaining = TextFields(snap.page) \ Fills(snap.page, profile)]

\* The fields are typed into in their order, as far as the call gets.
TypeUpTo(k) == typed' = typed \cup {Here(i) : i \in {j \in Fills(snap.page, profile) : j <= k}}

\* Mutant: the error of FillForm is dropped.
FillUnchecked ==
  /\ step = "fill"
  /\ \/ UNCHANGED typed
     \/ snap.turn = turn /\ \E k \in DOMAIN page : TypeUpTo(k)
  /\ Report(IF TextFields(snap.page) = {} THEN "no fields" ELSE "none")
  /\ UNCHANGED <<profile, browser, snap, pressed, submitted>>

\* Mutant: the next page of the form is filled in as well.
FillPageByPage ==
  /\ step = "fill"
  /\ snap.turn = turn /\ TypeUpTo(Len(page))
  /\ step' = "look"
  /\ UNCHANGED <<profile, browser, snap, res, pressed, submitted>>

\* No call is made when there is nothing to fill.
FillForm ==
  /\ step = "fill"
  /\ \/ /\ Fills(snap.page, profile) = {}
        /\ UNCHANGED typed
        /\ Report(IF TextFields(snap.page) = {} THEN "no fields" ELSE "none")
     \/ /\ Fills(snap.page, profile) # {} /\ snap.turn = turn
        /\ TypeUpTo(Len(page))
        /\ Report("none")
     \/ /\ Fills(snap.page, profile) # {}
        /\ \/ UNCHANGED typed
           \/ snap.turn = turn /\ \E k \in DOMAIN page : TypeUpTo(k)
        /\ Report("not filled")
  /\ UNCHANGED <<profile, browser, snap, pressed, submitted>>

\* A script, a redirect or the person at the desktop brings up another page.
PageTurns ==
  /\ step \notin {"ask", "initialize", "navigate", "answered"}
  /\ turn < MaxTurns
  /\ page' \in Pages /\ turn' = turn + 1
  /\ UNCHANGED <<step, profile, snap, res, acts>>

------------------------------------------------------------------------------
Request == ApplyJob \/ Initialize \/ Navigate \/ Snapshot \/ Click \/ SnapshotAgain \/ FillForm

Next == Request \/ PageTurns

Spec == Init /\ [][Next]_vars

\* Every call ends, at the latest with the client's timeout.
FairSpec == Spec /\ WF_vars(Request)

------------------------------------------------------------------------------
\* The flow presses one control at most, on a page it has nothing to fill in on,
\* and whatever a press submits has nothing in it that the flow typed.
NothingTypedIsSubmitted ==
  /\ \A a, b \in pressed : a = b
  /\ \A a \in pressed : TextFields(a.page) = {}
  /\ submitted \subseteq {{}}

\* Whatever page has come up meanwhile, only text fields are typed into, and none
\* that asks for a declaration, a demographic or an opinion.
TypedIsSafe ==
  \A t \in typed : t.page[t.at].role \in TextRoles /\ t.page[t.at].name \cap NeverFill = {}

\* A report without a note tells what was done: the fields it calls filled were
\* typed into, on the page of one snapshot, all others of that page are called
\* remaining, and a control it names was pressed.  An error is the answer of a
\* request that did not touch the browser.
ReportIsTrue ==
  /\ (res.code = "ok" /\ res.note = "none") =>
       /\ typed = {[turn |-> snap.turn, page |-> snap.page, at |-> i] : i \in res.filled}
       /\ res.filled \cup res.remaining = TextFields(snap.page)
  /\ res.clicked \subseteq pressed
  /\ res.code \in {"rejected", "bad gateway"} => turn = 0 /\ pressed = {} /\ typed = {}

\* Every request is answered.
EveryRequestAnswered == <>(step = "answered")

\* apply.go:203, 205, client.go:3: the flow never submits.
NeverSubmits == submitted = {}
==============================================================================
