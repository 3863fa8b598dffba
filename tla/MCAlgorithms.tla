---------------------------- MODULE MCAlgorithms ----------------------------
(***************************************************************************)
(* The pure functions over bounded inputs: every state is one input, and    *)
(* every invariant is about the inputs of its own function.                 *)
(***************************************************************************)
EXTENDS Intake, Reports, Enrichment

VARIABLE input

SeqsUpTo(S, n) == UNION {[1..k -> S] : k \in 0..n}

\* Urls: one host, and none; a default port, another scheme's, and none; a page
\* and the root, with a slash or not; two parameters at most, of a tracking and
\* two other keys.
Params == {[key |-> "ref", capital |-> c, value |-> 1] : c \in BOOLEAN}
          \cup {[key |-> "q", capital |-> c, value |-> v] : c \in BOOLEAN, v \in 1..2}

Hosted ==
  [host : {"h"}, scheme : {"http", "https"}, port : {"", "80", "443"}, segments : {<<>>},
   slashes : 0..1, query : {<<>>}, capitals : BOOLEAN, fragment : BOOLEAN]
  \cup [host : {"h"}, scheme : {"https"}, port : {""}, segments : {<<"p">>},
        slashes : 0..1, query : SeqsUpTo(Params, 2), capitals : {FALSE}, fragment : {FALSE}]
Hostless ==
  [host : {""}, scheme : {""}, port : {""}, segments : {<<"p">>},
   slashes : 0..1, query : {<<>>}, capitals : {FALSE}, fragment : {FALSE}]

UrlInputs == [of : {"NormalizeURL"}, u : Hosted \cup Hostless]

\* Names of companies of up to three tokens, and of roles of up to two.
Tokens == [word : {"acme", "inc"}, before : BOOLEAN, after : BOOLEAN]
          \cup [word : {""}, before : {FALSE}, after : {FALSE}]
KeyInputs == [of : {"DedupKey"}, company : SeqsUpTo(Tokens, 3), role : {<<>>}]
             \cup [of : {"DedupKey"}, company : SeqsUpTo(Tokens, 1), role : SeqsUpTo(Tokens, 2)]

\* Texts of up to four words of three, over two positions, with every hash.
Words == {"x", "y", "z"}
HashInputs == [of : {"SimHash"}, text : SeqsUpTo(Words, 4), hash : [Words -> SUBSET (1..2)], word : Words]

\* Postings on both sides of every threshold.
TrustInputs == [of : {"TrustScore"}, apply : BOOLEAN, salary : BOOLEAN, company : BOOLEAN,
                location : BOOLEAN, len : {0, 119, 120, 399, 400}, days : {-1, 0, 7, 8, 45, 46}]

\* Reports of up to two chunks that quote anything, and summaries of every kind.
Summary(score, decision, hardStops) == [score |-> score, decision |-> decision, hardStops |-> hardStops]
Decoded == [good |-> Summary(33, "apply", FALSE), stop |-> Summary(10, "hard_stop", TRUE),
            soft |-> Summary(11, "hard_stop", TRUE), undecided |-> Summary(5, "apply", TRUE),
            wild |-> Summary(51, "apply", FALSE)]
Chunks == {"marker", "json", "fence", "text", "good"}
EvalInputs ==
  [of : {"evalOne"}, marked : BOOLEAN, report : SeqsUpTo(Chunks, 2), other : {<<>>, <<"marker", "json">>},
   summaries : [1..3 -> {"good", "stop", "soft", "undecided", "wild", "failed", "garbage"}]]

\* Up to two roles of every kind, in every layout, with other tables around.
Dates == {"2024-01-31"}
Cells == "3.3/5" :> 33 @@ "4" :> 40
Roles == [num : {"1"}, date : Dates \cup {"none"}, company : {"acme", ""}, role : {"dev"},
          scoreCell : {"3.3/5", "n/a"}, status : {"applied", "", "new"}]
TrackerInputs ==
  [of : {"ParseTracker"}, before : {<<>>, <<Prose, <<"role", "status">>, <<"1", "2">>, Prose>>},
   roles : SeqsUpTo(Roles, 2), layout : {"dated", "undated"},
   after : {<<>>, <<Prose>>, << <<"company", "role", "status">>, <<"x", "y", "z">> >>}]

\* Two hosts, one of them below the other, a third, and one that cannot be parsed.
Sites == {Missing, <<"unparsed">>, <<"acme">>, <<"jobs", "acme">>, <<"other">>}
Pages == [readable : BOOLEAN, founded : {Missing, <<"1999">>}, website : Sites,
          industry : {Missing, <<"gambling">>}]
Hits == SeqsUpTo([founded : {Missing, <<"2001">>}, website : Sites], 2)
Docs == {<<>>, << [sameAs |-> FALSE, ats |-> <<"lever">>], [sameAs |-> TRUE, ats |-> <<"ashby">>] >>,
         << [sameAs |-> FALSE, ats |-> Missing] >>}
CompanyInputs == [of : {"Assemble"}, page : Pages, hits : Hits, listed : BOOLEAN, docs : Docs]

Init ==
  \/ input \in UrlInputs
  \/ input \in KeyInputs
  \/ input \in HashInputs
  \/ input \in TrustInputs
  \/ input \in EvalInputs
  \/ input \in TrackerInputs
  \/ input \in CompanyInputs

Next == UNCHANGED input

Spec == Init /\ [][Next]_input

------------------------------------------------------------------------------
Is(name) == input.of = name

\* No two urls are taken for one, or one for two (engine.NormalizeURL).
UrlsAreIdentified == Is("NormalizeURL") => \A v \in Hosted \cup Hostless : UrlsIdentified(input.u, v)

\* Companies and roles go by one key for what is only written differently (engine.DedupKey).
KeysAreIdentified ==
  Is("DedupKey") => KeysIdentified(input.company, input.role, SeqsUpTo(Tokens, 2))

\* A fingerprint is what most of the words say, in any order (engine.SimHash).
FingerprintsAreMajorities == Is("SimHash") => FingerprintIsMajority(input.text, input.hash, 2, input.word)

\* No posting is trusted less for being better (engine.TrustScore).
TrustNeverFalls == Is("TrustScore") => \A q \in TrustInputs : TrustIsMonotone(input, q)

\* A rating is the last block's of the first acceptable answer (evalOne, splitAGReport).
RatingsAreTheLastBlocks ==
  Is("evalOne") =>
    RatingIsTheLastBlocks(<<input.report, input.other, input.report>>, input.summaries, input.marked, Decoded)

\* A tracker is read as the roles it was written from (importer.ParseTracker).
TrackersReadBack ==
  Is("ParseTracker") =>
    TrackerReadsBack(input.before, input.roles, input.layout, input.after, Dates, Cells)

\* The most authoritative source is believed (enrich.Assemble).
BestSourcesWin == Is("Assemble") => BestSourceWins(input.page, input.hits, input.listed, input.docs)

\* A profile is of one company (enrich.Assemble, Wikidata.Enrich).
ProfilesAreOfOneCompany ==
  Is("Assemble") => FactsAreOfOneCompany(input.page, input.hits, input.listed, input.docs)
==============================================================================
