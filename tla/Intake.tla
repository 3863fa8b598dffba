------------------------------- MODULE Intake -------------------------------
(***************************************************************************)
(* What ingest computes of a posting before it touches the database: the   *)
(* url and the key that later sightings are recognised by, the fingerprint *)
(* and the trust score.  Texts are what the code tells apart of them:      *)
(* words, whether they have capitals, and the punctuation next to them.    *)
(***************************************************************************)
EXTENDS Integers, Sequences, FiniteSets, SequencesExt

------------------------------------------------------------------------------
(* NormalizeURL.  A url has capitals in its scheme or host or not, segments *)
(* with at most one slash after the last one, and parameters in their order.*)

TrackingParams == {"utm_source", "utm_medium", "utm_campaign", "utm_term", "utm_content",
                   "gh_src", "ref", "source", "src"}

DefaultPort(scheme) == IF scheme = "http" THEN "80" ELSE IF scheme = "https" THEN "443" ELSE ""

IsRoot(u) == u.segments = <<>> /\ u.slashes = 1

\* URL.Query: a key keeps its capitals, and its values their order.
ValuesOf(query, key) ==
  LET mine == SelectSeq(query, LAMBDA q : <<q.key, q.capital>> = key)
  IN  [i \in DOMAIN mine |-> mine[i].value]

KeptKeys(query) ==
  {<<q.key, q.capital>> : q \in {p \in Range(query) : p.key \notin TrackingParams}}

\* Values.Encode sorts by key: which key came first is lost.
ParamsOf(u) == [key \in KeptKeys(u.query) |-> ValuesOf(u.query, key)]

\* Mutant: any port that is some scheme's default is dropped.
NormalizeURLAnyPort(u) ==
  IF u.host = "" THEN u
  ELSE [scheme |-> u.scheme, host |-> u.host,
        port |-> IF u.port \in {"80", "443"} THEN "" ELSE u.port,
        segments |-> u.segments,
        slashes |-> IF IsRoot(u) \/ u.slashes = 0 THEN u.slashes ELSE u.slashes - 1,
        query |-> ParamsOf(u)]

\* What has no host is left alone.
NormalizeURL(u) ==
  IF u.host = "" THEN u
  ELSE [scheme |-> u.scheme, host |-> u.host,
        port |-> IF u.port = DefaultPort(u.scheme) THEN "" ELSE u.port,
        segments |-> u.segments,
        slashes |-> IF IsRoot(u) \/ u.slashes = 0 THEN u.slashes ELSE u.slashes - 1,
        query |-> ParamsOf(u)]

\* The page that a browser opens, but that the root's slash counts: the port it
\* connects to, and the parameters that are not there for tracking, key by key.
SamePage(u, v) ==
  IF u.host = "" \/ v.host = "" THEN u = v ELSE
  /\ u.scheme = v.scheme /\ u.host = v.host /\ u.segments = v.segments
  /\ LET PortOf(x) == IF x.port = "" THEN DefaultPort(x.scheme) ELSE x.port
     IN  PortOf(u) = PortOf(v)
  /\ u.segments = <<>> => u.slashes = v.slashes
  /\ KeptKeys(u.query) = KeptKeys(v.query)
  /\ \A key \in KeptKeys(u.query) : ValuesOf(u.query, key) = ValuesOf(v.query, key)

\* Property of engine.NormalizeURL, by which IngestPosting recognises a posting.
\* Two urls become one exactly when, but for capitals, a default port, a
\* fragment, tracking, the order of the parameters and a page's trailing slash,
\* they are the same: no role is folded into another's, and no sighting of it is
\* missed.  The root's slash counts, here as in the code: a host with it and one
\* without it are two pages, although a browser opens one.
UrlsIdentified(u, v) == NormalizeURL(u) = NormalizeURL(v) <=> SamePage(u, v)

------------------------------------------------------------------------------
(* DedupKey.  A text is a sequence of tokens between spaces: a word, or "",*)
(* with punctuation before and after it or not; capitals do not matter.    *)

LegalSuffixes == {"inc", "llc", "l.l.c", "ltd", "limited", "corp", "corporation", "co", "gmbh", "plc", "ag"}

IsWord(token) == token.word # ""

WordsOf(s) == {i \in DOMAIN s : IsWord(s[i])}

FirstWord(s) == CHOOSE i \in WordsOf(s) : \A j \in WordsOf(s) : i <= j

LastWord(s) == CHOOSE i \in WordsOf(s) : \A j \in WordsOf(s) : j <= i

\* TrimRight and TrimFunc: what is left up to the last word, and from the first.
TrimTail(s) ==
  IF WordsOf(s) = {} THEN <<>>
  ELSE [i \in 1..LastWord(s) |-> [s[i] EXCEPT !.after = @ /\ i # LastWord(s)]]

TrimHead(s) ==
  IF WordsOf(s) = {} THEN <<>>
  ELSE [i \in 1..(Len(s) - FirstWord(s) + 1) |-> [s[FirstWord(s) + i - 1] EXCEPT !.before = @ /\ i # 1]]

\* Mutant: what is left is not trimmed.
NormalizeCompanyUntrimmed(s) ==
  IF Len(s) > 1 /\ s[Len(s)].word \in LegalSuffixes THEN SubSeq(s, 1, Len(s) - 1) ELSE s

\* One legal suffix goes, if something is left.
NormalizeCompany(s) ==
  TrimTail(IF Len(s) > 1 /\ s[Len(s)].word \in LegalSuffixes THEN SubSeq(s, 1, Len(s) - 1) ELSE s)

NormalizeRole(s) == TrimHead(TrimTail(s))

\* Keys are only ever compared whole.  Texts with the separator in them are left out.
DedupKey(company, role) == <<NormalizeCompany(company), NormalizeRole(role)>>

\* The words of a company's name: all but a legal suffix that is its last token,
\* and not its only one.
Named(s) == {i \in WordsOf(s) : i = 1 \/ i # Len(s) \/ s[i].word \notin LegalSuffixes}

\* The name: what there is up to the last of its words, but for the punctuation
\* right behind that.
NameOf(s) ==
  {<<i, s[i].word, s[i].before, ((\A k \in Named(s) : k <= i) \/ s[i].after)>> :
     i \in {n \in DOMAIN s : \E k \in Named(s) : n <= k}}

\* The words and what stands between them.
Inside(s) ==
  {<<i - FirstWord(s), s[i].word, (i = FirstWord(s) \/ s[i].before), (i = LastWord(s) \/ s[i].after)>> :
     i \in {n \in DOMAIN s : \E k, l \in WordsOf(s) : k <= n /\ n <= l}}

\* Property of engine.DedupKey, by which a near-duplicate is looked for.
\* Two companies have one key exactly when their names differ in the punctuation
\* behind them and in one legal suffix at most, and two roles exactly when they
\* differ in the punctuation around them at most; a company that has a name keeps
\* one, and a legal suffix more makes no other.  A suffix with punctuation
\* behind it that stands alone ("Acme Inc -") is not the last token: it is a word
\* of the name, and the company another than "Acme".
KeysIdentified(company, role, others) ==
  /\ Named(company) # {} => NormalizeCompany(company) # <<>>
  /\ \A other \in others : DedupKey(company, role) = DedupKey(other, role) <=> NameOf(company) = NameOf(other)
  /\ \A suffix \in LegalSuffixes :
       (company # <<>> /\ company[Len(company)].word \notin LegalSuffixes) =>
         DedupKey(Append(company, [word |-> suffix, before |-> FALSE, after |-> TRUE]), role)
           = DedupKey(company, role)
  /\ \A other \in others : DedupKey(company, role) = DedupKey(company, other) <=> Inside(role) = Inside(other)

------------------------------------------------------------------------------
(* SimHash, over positions 1..W and a hash that gives each token the set of *)
(* positions it has a bit in.                                               *)

\* Mutant: a token counts once.
VoteOfDistinct(text, hash, i) ==
  Cardinality({t \in Range(text) : i \in hash[t]}) - Cardinality({t \in Range(text) : i \notin hash[t]})

Weight(text, t) == Cardinality({k \in DOMAIN text : text[k] = t})

\* The sum of the weights of some tokens: one of weight w has the votes 1 to w.
Votes(text, tokens) == Cardinality({v \in tokens \X DOMAIN text : v[2] <= Weight(text, v[1])})

\* Frequencies are tallied first, then every distinct token votes with its own.
Vote(text, hash, i) ==
  Votes(text, {t \in Range(text) : i \in hash[t]}) - Votes(text, {t \in Range(text) : i \notin hash[t]})

SimHash(text, hash, width) == {i \in 1..width : Vote(text, hash, i) > 0}

Hamming(a, b) == Cardinality((a \ b) \cup (b \ a))

\* Property of engine.SimHash, whose distance decides what is a near-duplicate.
\* The fingerprint is the strict majority of the occurrences, in whatever order;
\* one more word moves it in the positions that were decided by one vote at most.
FingerprintIsMajority(text, hash, width, word) ==
  LET more  == Append(text, word)
      close == {i \in 1..width :
                  LET set == Cardinality({k \in DOMAIN text : i \in hash[text[k]]})
                  IN  2 * set - Len(text) \in {0, 1}}
  IN  /\ SimHash(text, hash, width)
           = {i \in 1..width : 2 * Cardinality({k \in DOMAIN text : i \in hash[text[k]]}) > Len(text)}
      /\ Hamming(SimHash(text, hash, width), SimHash(more, hash, width)) <= Cardinality(close)

------------------------------------------------------------------------------
(* TrustScore.                                                             *)

Bonus(has, points) == IF has THEN points ELSE 0

DepthPoints(len) == IF len >= 400 THEN 10 ELSE IF len < 120 THEN -10 ELSE 0

\* Mutant: an unknown age, -1, is fresh.
AgeUnknownIsFresh(days) == IF days <= 7 THEN 10 ELSE IF days > 45 THEN -15 ELSE 0

AgePoints(days) ==
  IF days < 0 THEN 0 ELSE IF days <= 7 THEN 10 ELSE IF days > 45 THEN -15 ELSE 0

Clamp(n) == IF n < 0 THEN 0 ELSE IF n > 100 THEN 100 ELSE n

TrustScore(p) ==
  Clamp(50 + Bonus(p.apply, 15) + Bonus(p.salary, 10) + Bonus(p.company, 10) + Bonus(p.location, 5)
           + DepthPoints(p.len) + AgePoints(p.days))

TrustFlags(p) ==
  {f \in {"missing_apply_url", "no_salary", "missing_company", "missing_location", "thin_description", "stale"} :
     \/ f = "missing_apply_url" /\ ~p.apply
     \/ f = "no_salary" /\ ~p.salary
     \/ f = "missing_company" /\ ~p.company
     \/ f = "missing_location" /\ ~p.location
     \/ f = "thin_description" /\ p.len < 120
     \/ f = "stale" /\ p.days > 45}

\* Property of engine.TrustScore, that postings are listed by.
\* A posting that is no worse in any respect never scores less nor has a flag the
\* other lacks; an age that is not known is neither fresh nor stale.
TrustIsMonotone(p, q) ==
  LET Age(x) == IF x.days < 0 THEN 20 ELSE x.days
  IN  (/\ (p.apply => q.apply) /\ (p.salary => q.salary)
       /\ (p.company => q.company) /\ (p.location => q.location)
       /\ p.len <= q.len /\ Age(q) <= Age(p))
      => TrustScore(p) <= TrustScore(q) /\ TrustFlags(q) \subseteq TrustFlags(p)
==============================================================================
