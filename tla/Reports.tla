------------------------------- MODULE Reports -------------------------------
(***************************************************************************)
(* Two texts that the system reads back: a model's answer to a rating      *)
(* request, which ends with a machine summary, and a career-ops tracker.   *)
(***************************************************************************)
EXTENDS Integers, Sequences, FiniteSets, SequencesExt, FiniteSetsExt

------------------------------------------------------------------------------
(* evalOne.  An answer is a sequence of chunks: the sentinel "marker", the  *)
(* fence "json" that opens a block of JSON, a "fence", and others, of which *)
(* those in DOMAIN decode are JSON of a summary.  Scores are in tenths.     *)

Nowhere == 0
LastAt(chunk, text)  == Max({Nowhere} \cup {i \in DOMAIN text : text[i] = chunk})
FirstAt(chunk, text) == IF \E i \in DOMAIN text : text[i] = chunk
                        THEN Min({i \in DOMAIN text : text[i] = chunk}) ELSE Nowhere
Before(i, text) == SubSeq(text, 1, i - 1)
After(i, text)  == SubSeq(text, i + 1, Len(text))

NoBlock == <<"no", "block">>

\* Mutant: the first block of JSON.
FirstJSONFence(text) ==
  LET rest == After(FirstAt("json", text), text)
      end  == FirstAt("fence", rest)
  IN  IF FirstAt("json", text) = Nowhere \/ end = Nowhere THEN NoBlock ELSE Before(end, rest)

\* The block that the last opening fence opens, if anything closes it.
LastJSONFence(text) ==
  LET rest == After(LastAt("json", text), text)
      end  == FirstAt("fence", rest)
  IN  IF LastAt("json", text) = Nowhere \/ end = Nowhere THEN NoBlock ELSE Before(end, rest)

\* The report ends at the last marker, or without one at the last opening fence.
SplitAGReport(text) ==
  LET marker == LastAt("marker", text)
  IN  [report  |-> IF marker # Nowhere THEN Before(marker, text) ELSE Before(LastAt("json", text), text),
       summary |-> LastJSONFence(IF marker # Nowhere THEN After(marker, text) ELSE text)]

Acceptable(s) ==
  s.score \in 0..50 /\ (s.hardStops => s.decision = "hard_stop" /\ s.score <= 10)

CallFailed == <<"call", "failed">>

Decodes(block, decode) == Len(block) = 1 /\ block[1] \in DOMAIN decode

Passes(answer, decode) ==
  /\ answer # CallFailed
  /\ LET block == SplitAGReport(answer).summary
     IN  block # NoBlock /\ Decodes(block, decode) /\ Acceptable(decode[block[1]])

NoRating == [rated |-> FALSE]

\* The first of three attempts that passes; the others are not made, or discarded.
EvalOne(answers, decode) ==
  LET good == {i \in 1..3 : Passes(answers[i], decode)}
  IN  IF good = {} THEN NoRating
      ELSE LET split == SplitAGReport(answers[Min(good)])
           IN  [rated |-> TRUE, score |-> decode[split.summary[1]].score,
                summary |-> split.summary[1], report |-> split.report]

\* What the contract asks of an answer: a report, the marker and one block.  The
\* marker may be forgotten, unless the report quotes it.
Contracted(report, summary, marked) ==
  report \o (IF marked \/ "marker" \in Range(report) THEN <<"marker">> ELSE <<>>)
         \o <<"json", summary, "fence">>

\* Property of evalOne and splitAGReport.
\* Whatever a report quotes, of the posting or of the contract itself, markers and
\* blocks of JSON included, the summary behind it is the one that counts, with that
\* whole report; a hard stop never rates above 1.0 or undecided; and one attempt
\* that keeps the contract is enough for a rating.
RatingIsTheLastBlocks(reports, summaries, marked, decode) ==
  LET answers == [i \in 1..3 |-> IF summaries[i] = "failed" THEN CallFailed
                                 ELSE Contracted(reports[i], summaries[i], marked)]
      kept    == {i \in 1..3 : summaries[i] \in DOMAIN decode /\ Acceptable(decode[summaries[i]])}
      rating  == EvalOne(answers, decode)
  IN  /\ rating.rated <=> kept # {}
      /\ rating.rated =>
           /\ rating.summary = summaries[Min(kept)] /\ rating.report = reports[Min(kept)]
           /\ rating.score \in 0..50
           /\ decode[rating.summary].hardStops =>
                rating.score <= 10 /\ decode[rating.summary].decision = "hard_stop"

------------------------------------------------------------------------------
(* ParseTracker.  A document is a sequence of lines: a row, that is a       *)
(* sequence of cells, or Prose.  `scores' says which cells are numbers (a   *)
(* "/5" behind them is dropped), `dates' which ones are dates.              *)

Prose == <<>>
IsRow(line) == line # Prose

KnownStatus == {"evaluated", "applied", "responded", "interview", "offer", "hired",
                "rejected", "discarded", "skip"}

NormStatus(cell) == IF cell \in KnownStatus THEN cell ELSE "evaluated"

NoScore == -1
ParseScore(cell, scores) == IF cell \in DOMAIN scores THEN scores[cell] ELSE NoScore

Has(row, name) == name \in Range(row)

\* Where a column is; the last one if it is there twice.
ColIndex(header, name) == LastAt(name, header)

CellAt(row, i) == IF i \in DOMAIN row THEN row[i] ELSE ""

IsSeparator(row) == Range(row) \subseteq {"", "---"}

IsHeader(line) == IsRow(line) /\ Has(line, "company") /\ Has(line, "status") /\ Has(line, "role")

\* Mutant: every row has a date where the header has one.
ReadRowDated(row, header, dates, scores) ==
  LET Named(name) == CellAt(row, ColIndex(header, name))
  IN  [num |-> Named("#"), score |-> ParseScore(Named("score"), scores),
       status |-> NormStatus(Named("status")), company |-> Named("company"), role |-> Named("role"),
       date |-> IF Named("date") \in dates THEN Named("date") ELSE "none"]

\* A row that has no date where the header has one is of the legacy layout: the
\* company is there, and the role where the company would be.
ReadRow(row, header, dates, scores) ==
  LET Named(name) == CellAt(row, ColIndex(header, name))
      legacy      == Has(header, "date") /\ Named("date") \notin dates
  IN  [num |-> Named("#"), score |-> ParseScore(Named("score"), scores),
       status |-> NormStatus(Named("status")),
       company |-> Named(IF legacy THEN "date" ELSE "company"),
       role |-> Named(IF legacy THEN "company" ELSE "role"),
       date |-> IF Has(header, "date") /\ ~legacy THEN Named("date") ELSE "none"]

\* The place in T that has k - 1 others before it.
Kth(k, T) == CHOOSE i \in T : Cardinality({j \in T : j <= i}) = k

\* The rows from the first header to the end of its table.
ParseTracker(lines, dates, scores) ==
  LET headers == {i \in DOMAIN lines : IsHeader(lines[i])}
      first   == Min(headers)
      ends    == {i \in DOMAIN lines : i > first /\ ~IsRow(lines[i])}
      last    == IF ends = {} THEN Len(lines) ELSE Min(ends) - 1
      Read(i) == ReadRow(lines[i], lines[first], dates, scores)
      kept    == {i \in (first + 1)..last :
                    ~IsSeparator(lines[i]) /\ (Read(i).company # "" \/ Read(i).role # "")}
  IN  IF headers = {} THEN <<>> ELSE [k \in 1..Cardinality(kept) |-> Read(Kth(k, kept))]

\* The three layouts that trackers are kept in, and a role written in one.
Header(layout) ==
  IF layout = "undated" THEN <<"#", "company", "role", "score", "status">>
  ELSE <<"#", "date", "company", "role", "score", "status">>

Written(role, layout) ==
  IF layout = "undated" THEN <<role.num, role.company, role.role, role.scoreCell, role.status>>
  ELSE IF role.date = "none" THEN <<role.num, role.company, role.role, "state", role.scoreCell, role.status>>
  ELSE <<role.num, role.date, role.company, role.role, role.scoreCell, role.status>>

\* Property of importer.ParseTracker.
\* A tracker that mixes dated and legacy rows, behind other tables and text and in
\* front of more, is read as the roles it was written from, in order, and nothing else.
\* A dated row has its date here: with the cell left blank it is read as a legacy
\* one, of no company and with the company's name for its role.
TrackerReadsBack(before, roles, layout, after, dates, scores) ==
  LET lines == before \o <<Header(layout), [i \in 1..Len(Header(layout)) |-> "---"]>>
                      \o [i \in DOMAIN roles |-> Written(roles[i], layout)]
                      \o (IF after = <<>> THEN <<>> ELSE <<Prose>> \o after)
  IN  ParseTracker(lines, dates, scores)
        = [i \in DOMAIN roles |->
             [num |-> roles[i].num, company |-> roles[i].company, role |-> roles[i].role,
              score |-> ParseScore(roles[i].scoreCell, scores), status |-> NormStatus(roles[i].status),
              date |-> IF layout = "undated" THEN "none" ELSE roles[i].date]]
==============================================================================
