-------------------------- MODULE AlgorithmProofs --------------------------
(***************************************************************************)
(* What the run of module MCAlgorithms checks of the pure functions on     *)
(* bounded inputs, for every input: trust scores, urls, keys,              *)
(* fingerprints, ratings, profiles and trackers.  Each section states its  *)
(* inputs, the lemmas on the function's parts, the theorem, and, at the    *)
(* end, that the run's invariant follows.                                  *)
(***************************************************************************)
EXTENDS MCAlgorithms, NumberFacts, SequenceTheorems, FunctionTheorems

------------------------------------------------------------------------------
(* Trust scores.                                                           *)

Signals == [apply : BOOLEAN, salary : BOOLEAN, company : BOOLEAN, location : BOOLEAN,
            len : Nat, days : {-1} \cup Nat]

\* A signal that is there is worth no less than one that is not.
LEMMA BonusGrows ==
  ASSUME NEW p \in BOOLEAN, NEW q \in BOOLEAN, p => q, NEW n \in Nat
  PROVE  /\ Bonus(p, n) \in Int /\ Bonus(q, n) \in Int
         /\ Bonus(p, n) <= Bonus(q, n)
  BY DEF Bonus

\* A longer description is worth no less.
LEMMA DepthGrows ==
  ASSUME NEW m \in Nat, NEW n \in Nat, m <= n
  PROVE  DepthPoints(m) \in Int /\ DepthPoints(n) \in Int /\ DepthPoints(m) <= DepthPoints(n)
  BY DEF DepthPoints

\* What an age that is not known is compared as.
AgeOf(d) == IF d < 0 THEN 20 ELSE d

\* A younger posting is worth no less, one of unknown age as much as one of twenty days.
LEMMA AgeFalls ==
  ASSUME NEW d \in {-1} \cup Nat, NEW e \in {-1} \cup Nat, AgeOf(e) <= AgeOf(d)
  PROVE  AgePoints(d) \in Int /\ AgePoints(e) \in Int /\ AgePoints(d) <= AgePoints(e)
  BY DEF AgePoints, AgeOf

\* Clamping keeps the order.
LEMMA ClampGrows ==
  ASSUME NEW m \in Int, NEW n \in Int, m <= n
  PROVE  Clamp(m) <= Clamp(n)
  BY DEF Clamp

\* engine.TrustScore: for every two postings, the one that is no worse in any respect
\* scores no less and has no flag that the other lacks.
THEOREM TrustScoreIsMonotone == \A p, q \in Signals : TrustIsMonotone(p, q)
<1> SUFFICES ASSUME NEW p \in Signals, NEW q \in Signals,
                    p.apply => q.apply, p.salary => q.salary,
                    p.company => q.company, p.location => q.location,
                    p.len <= q.len, AgeOf(q.days) <= AgeOf(p.days)
             PROVE  TrustScore(p) <= TrustScore(q) /\ TrustFlags(q) \subseteq TrustFlags(p)
  BY DEF TrustIsMonotone, AgeOf
<1> /\ p.apply \in BOOLEAN /\ p.salary \in BOOLEAN /\ p.company \in BOOLEAN /\ p.location \in BOOLEAN
    /\ q.apply \in BOOLEAN /\ q.salary \in BOOLEAN /\ q.company \in BOOLEAN /\ q.location \in BOOLEAN
    /\ p.len \in Nat /\ q.len \in Nat /\ p.days \in {-1} \cup Nat /\ q.days \in {-1} \cup Nat
  BY DEF Signals
<1>1. TrustScore(p) <= TrustScore(q)
  <2>1. Bonus(p.apply, 15) \in Int /\ Bonus(q.apply, 15) \in Int /\ Bonus(p.apply, 15) <= Bonus(q.apply, 15)
    BY BonusGrows
  <2>2. Bonus(p.salary, 10) \in Int /\ Bonus(q.salary, 10) \in Int /\ Bonus(p.salary, 10) <= Bonus(q.salary, 10)
    BY BonusGrows
  <2>3. Bonus(p.company, 10) \in Int /\ Bonus(q.company, 10) \in Int /\ Bonus(p.company, 10) <= Bonus(q.company, 10)
    BY BonusGrows
  <2>4. Bonus(p.location, 5) \in Int /\ Bonus(q.location, 5) \in Int /\ Bonus(p.location, 5) <= Bonus(q.location, 5)
    BY BonusGrows
  <2>5. DepthPoints(p.len) \in Int /\ DepthPoints(q.len) \in Int /\ DepthPoints(p.len) <= DepthPoints(q.len)
    BY DepthGrows
  <2>6. AgePoints(p.days) \in Int /\ AgePoints(q.days) \in Int /\ AgePoints(p.days) <= AgePoints(q.days)
    BY AgeFalls
  <2> DEFINE Sum(x) == 50 + Bonus(x.apply, 15) + Bonus(x.salary, 10) + Bonus(x.company, 10)
                          + Bonus(x.location, 5) + DepthPoints(x.len) + AgePoints(x.days)
  <2>7. Sum(p) \in Int /\ Sum(q) \in Int /\ Sum(p) <= Sum(q)
    BY <2>1, <2>2, <2>3, <2>4, <2>5, <2>6
  <2>8. TrustScore(p) = Clamp(Sum(p)) /\ TrustScore(q) = Clamp(Sum(q))
    BY DEF TrustScore
  <2> HIDE DEF Sum
  <2> QED
    BY <2>7, <2>8, ClampGrows
<1>2. TrustFlags(q) \subseteq TrustFlags(p)
  <2>1. q.len < 120 => p.len < 120
    OBVIOUS
  <2>2. q.days > 45 => p.days > 45
    BY DEF AgeOf
  <2> QED
    BY <2>1, <2>2 DEF TrustFlags
<1> QED
  BY <1>1, <1>2

------------------------------------------------------------------------------
(* Urls.                                                                   *)

\* For one scheme, ports are left the same exactly when the same port is connected to.
LEMMA PortsIdentified ==
  ASSUME NEW scheme, NEW p, NEW q
  PROVE  LET Kept(x)   == IF x = DefaultPort(scheme) THEN "" ELSE x
             PortOf(x) == IF x = "" THEN DefaultPort(scheme) ELSE x
         IN  Kept(p) = Kept(q) <=> PortOf(p) = PortOf(q)
  BY DEF DefaultPort

\* engine.NormalizeURL: for every two urls, of any hosts, ports, paths and parameters, their
\* normal forms are one exactly when they are of the same page.
THEOREM UrlsAreOfPages ==
  ASSUME NEW u, NEW v, u.slashes \in 0..1, v.slashes \in 0..1
  PROVE  UrlsIdentified(u, v)
<1> DEFINE Kept(x) == IF x.port = DefaultPort(x.scheme) THEN "" ELSE x.port
           Slashes(x) == IF IsRoot(x) \/ x.slashes = 0 THEN x.slashes ELSE x.slashes - 1
           PortOf(x) == IF x.port = "" THEN DefaultPort(x.scheme) ELSE x.port
<1>1. CASE u.host = "" /\ v.host = ""
  BY <1>1 DEF UrlsIdentified, NormalizeURL, SamePage
<1>2. ASSUME NEW x, NEW y, x.host = "", y.host # "" PROVE NormalizeURL(x) # NormalizeURL(y) /\ x # y
  <2>1. NormalizeURL(x).host = "" /\ NormalizeURL(y).host # ""
    BY <1>2 DEF NormalizeURL
  <2> QED
    BY <1>2, <2>1
<1>3. CASE (u.host = "") # (v.host = "")
  BY <1>2, <1>3 DEF UrlsIdentified, SamePage
<1>4. CASE u.host # "" /\ v.host # ""
  <2>1. ASSUME NEW x, x.host # ""
        PROVE  NormalizeURL(x) = [scheme |-> x.scheme, host |-> x.host, port |-> Kept(x),
                                  segments |-> x.segments, slashes |-> Slashes(x), query |-> ParamsOf(x)]
    BY <2>1 DEF NormalizeURL
  <2> HIDE DEF Kept, Slashes
  <2>2. NormalizeURL(u) = NormalizeURL(v) <=>
          /\ u.scheme = v.scheme /\ u.host = v.host /\ Kept(u) = Kept(v) /\ u.segments = v.segments
          /\ Slashes(u) = Slashes(v) /\ ParamsOf(u) = ParamsOf(v)
    <3>1. /\ NormalizeURL(u) = [scheme |-> u.scheme, host |-> u.host, port |-> Kept(u),
                               segments |-> u.segments, slashes |-> Slashes(u), query |-> ParamsOf(u)]
          /\ NormalizeURL(v) = [scheme |-> v.scheme, host |-> v.host, port |-> Kept(v),
                               segments |-> v.segments, slashes |-> Slashes(v), query |-> ParamsOf(v)]
      BY <1>4, <2>1
    <3>2. \A a1, a2, a3, a4, a5, a6, b1, b2, b3, b4, b5, b6 :
            [scheme |-> a1, host |-> a2, port |-> a3, segments |-> a4, slashes |-> a5, query |-> a6]
              = [scheme |-> b1, host |-> b2, port |-> b3, segments |-> b4, slashes |-> b5, query |-> b6]
            <=> a1 = b1 /\ a2 = b2 /\ a3 = b3 /\ a4 = b4 /\ a5 = b5 /\ a6 = b6
      OBVIOUS
    <3> QED
      BY <3>1, <3>2
  <2>3. u.scheme = v.scheme => (Kept(u) = Kept(v) <=> PortOf(u) = PortOf(v))
    BY PortsIdentified DEF Kept
  <2>4. u.segments = v.segments => (Slashes(u) = Slashes(v) <=> (u.segments = <<>> => u.slashes = v.slashes))
    BY DEF Slashes, IsRoot
  <2>5. ParamsOf(u) = ParamsOf(v) <=>
          /\ KeptKeys(u.query) = KeptKeys(v.query)
          /\ \A key \in KeptKeys(u.query) : ValuesOf(u.query, key) = ValuesOf(v.query, key)
    BY DEF ParamsOf
  <2> QED
    BY <1>4, <2>2, <2>3, <2>4, <2>5 DEF UrlsIdentified, SamePage, PortOf
<1> QED
  BY <1>1, <1>3, <1>4

------------------------------------------------------------------------------
(* Keys.                                                                   *)

\* The tokens of a text, of any words.
TokenOf(Word) == [word : Word, before : BOOLEAN, after : BOOLEAN]

\* A text with words has a first one and a last one.
LEMMA FirstAndLast ==
  ASSUME NEW Word, NEW s \in Seq(TokenOf(Word)), WordsOf(s) # {}
  PROVE  \E j \in WordsOf(s), n \in WordsOf(s) : \A k \in WordsOf(s) : j <= k /\ k <= n
<1>1. Len(s) \in Nat /\ WordsOf(s) \in SUBSET (0..Len(s)) /\ WordsOf(s) \in SUBSET Nat
  BY LenProperties DEF WordsOf
<1>2. PICK j \in WordsOf(s) : \A k \in WordsOf(s) : j <= k
  BY <1>1, LeastNumber
<1>3. PICK n \in WordsOf(s) : \A k \in WordsOf(s) : k <= n
  BY <1>1, GreatestNumber
<1> QED
  BY <1>2, <1>3

\* A first word is the first word, and a last one the last.
LEMMA EndsAre ==
  ASSUME NEW Word, NEW s \in Seq(TokenOf(Word)), NEW j \in WordsOf(s)
  PROVE  /\ (\A k \in WordsOf(s) : j <= k) => FirstWord(s) = j
         /\ (\A k \in WordsOf(s) : k <= j) => LastWord(s) = j
<1>1. WordsOf(s) \in SUBSET Nat
  BY LenProperties DEF WordsOf
<1>2. ASSUME \A k \in WordsOf(s) : j <= k PROVE FirstWord(s) = j
  <2>1. \E i \in WordsOf(s) : \A k \in WordsOf(s) : i <= k
    BY <1>2
  <2>2. FirstWord(s) \in WordsOf(s) /\ \A k \in WordsOf(s) : FirstWord(s) <= k
    BY <2>1 DEF FirstWord
  <2> QED
    BY <1>1, <1>2, <2>2
<1>3. ASSUME \A k \in WordsOf(s) : k <= j PROVE LastWord(s) = j
  <2>1. \E i \in WordsOf(s) : \A k \in WordsOf(s) : k <= i
    BY <1>3
  <2>2. LastWord(s) \in WordsOf(s) /\ \A k \in WordsOf(s) : k <= LastWord(s)
    BY <2>1 DEF LastWord
  <2> QED
    BY <1>1, <1>3, <2>2
<1> QED
  BY <1>2, <1>3

\* What the trailing punctuation's loss leaves (strings.TrimRight, TrimFunc): the tokens
\* up to the last word, with nothing behind it, and the same words.
LEMMA TailTrimmed ==
  ASSUME NEW Word, NEW s \in Seq(TokenOf(Word)), NEW n \in WordsOf(s), \A k \in WordsOf(s) : k <= n
  PROVE  /\ TrimTail(s) \in Seq(TokenOf(Word)) /\ Len(TrimTail(s)) = n /\ n \in 1..Len(s)
         /\ \A i \in 1..n : /\ TrimTail(s)[i].word = s[i].word
                            /\ TrimTail(s)[i].before = s[i].before
                            /\ TrimTail(s)[i].after = (s[i].after /\ i # n)
         /\ WordsOf(TrimTail(s)) = WordsOf(s)
<1> DEFINE t == [i \in 1..n |-> [s[i] EXCEPT !.after = @ /\ i # n]]
<1>1. n \in 1..Len(s) /\ Len(s) \in Nat /\ DOMAIN s = 1..Len(s) /\ WordsOf(s) \in SUBSET Nat
  BY LenProperties DEF WordsOf
<1>2. LastWord(s) = n
  BY EndsAre
<1>3. TrimTail(s) = t
  BY <1>2 DEF TrimTail
<1>4. ASSUME NEW i \in 1..n
      PROVE  /\ t[i] \in TokenOf(Word) /\ t[i].word = s[i].word
             /\ t[i].before = s[i].before /\ t[i].after = (s[i].after /\ i # n)
  <2>1. s[i] \in TokenOf(Word)
    BY <1>1, ElementOfSeq
  <2> QED
    BY <2>1 DEF TokenOf
<1>5. t \in Seq(TokenOf(Word)) /\ Len(t) = n /\ DOMAIN t = 1..n
  <2>1. t \in [1..n -> TokenOf(Word)]
    BY <1>4
  <2>2. n \in Nat
    BY <1>1
  <2> HIDE DEF t
  <2>3. t \in Seq(TokenOf(Word))
    BY <2>1, <2>2, SeqDef
  <2> QED
    BY <2>1, <2>2, <2>3, LenProperties
<1> HIDE DEF t
<1>6. WordsOf(t) = WordsOf(s)
  <2>1. \A i \in 1..n : t[i].word = s[i].word /\ i \in DOMAIN s /\ i \in DOMAIN t
    BY <1>1, <1>4, <1>5
  <2>2. ASSUME NEW i \in WordsOf(s) PROVE i \in 1..n
    BY <1>1 DEF WordsOf
  <2>3. ASSUME NEW i \in WordsOf(t) PROVE i \in 1..n
    BY <1>5 DEF WordsOf
  <2>4. ASSUME NEW i \in 1..n PROVE i \in WordsOf(t) <=> i \in WordsOf(s)
    BY <2>1 DEF WordsOf, IsWord
  <2> QED
    BY <2>2, <2>3, <2>4
<1> QED
  BY <1>1, <1>3, <1>4, <1>5, <1>6

\* What the leading punctuation's loss leaves: the tokens from the first word on, with
\* nothing before it.
LEMMA HeadTrimmed ==
  ASSUME NEW Word, NEW s \in Seq(TokenOf(Word)), NEW j \in WordsOf(s), \A k \in WordsOf(s) : j <= k
  PROVE  /\ TrimHead(s) \in Seq(TokenOf(Word)) /\ Len(TrimHead(s)) = Len(s) - j + 1 /\ j \in 1..Len(s)
         /\ \A i \in 1..(Len(s) - j + 1) :
              /\ TrimHead(s)[i].word = s[j + i - 1].word
              /\ TrimHead(s)[i].before = (s[j + i - 1].before /\ i # 1)
              /\ TrimHead(s)[i].after = s[j + i - 1].after
<1> DEFINE m == Len(s) - j + 1
           t == [i \in 1..m |-> [s[j + i - 1] EXCEPT !.before = @ /\ i # 1]]
<1>1. j \in 1..Len(s) /\ Len(s) \in Nat /\ WordsOf(s) \in SUBSET Nat /\ m \in Nat
  BY LenProperties DEF WordsOf
<1>2. FirstWord(s) = j
  BY EndsAre
<1>3. TrimHead(s) = t
  BY <1>2 DEF TrimHead
<1>4. ASSUME NEW i \in 1..m
      PROVE  /\ t[i] \in TokenOf(Word) /\ t[i].word = s[j + i - 1].word
             /\ t[i].before = (s[j + i - 1].before /\ i # 1) /\ t[i].after = s[j + i - 1].after
  <2>1. j + i - 1 \in 1..Len(s)
    BY <1>1
  <2>2. s[j + i - 1] \in TokenOf(Word)
    BY <2>1, ElementOfSeq
  <2> QED
    BY <2>2 DEF TokenOf
<1>5. t \in Seq(TokenOf(Word)) /\ Len(t) = m
  <2>1. t \in [1..m -> TokenOf(Word)]
    BY <1>4
  <2> HIDE DEF t, m
  <2>2. t \in Seq(TokenOf(Word))
    BY <1>1, <2>1, SeqDef
  <2> QED
    BY <1>1, <2>1, <2>2, LenProperties
<1> HIDE DEF t
<1> QED
  BY <1>1, <1>3, <1>4, <1>5

\* The tail first, then the head, as normalizeRole trims.
LEMMA TrimmedOnce ==
  ASSUME NEW Word, NEW s \in Seq(TokenOf(Word)), NEW t \in Seq(TokenOf(Word)), t = TrimTail(s),
         NEW j \in WordsOf(s), NEW n \in WordsOf(s), \A k \in WordsOf(s) : j <= k /\ k <= n
  PROVE  /\ TrimHead(t) \in Seq(TokenOf(Word)) /\ Len(TrimHead(t)) = n - j + 1
         /\ j \in 1..n /\ n \in 1..Len(s)
         /\ \A i \in 1..(n - j + 1) :
              /\ TrimHead(t)[i].word = s[j + i - 1].word
              /\ TrimHead(t)[i].before = (s[j + i - 1].before /\ i # 1)
              /\ TrimHead(t)[i].after = (s[j + i - 1].after /\ i # n - j + 1)
<1>1. /\ Len(t) = n /\ n \in 1..Len(s)
      /\ \A i \in 1..n : /\ t[i].word = s[i].word /\ t[i].before = s[i].before
                         /\ t[i].after = (s[i].after /\ i # n)
      /\ WordsOf(t) = WordsOf(s)
  BY TailTrimmed
<1>2. j \in WordsOf(t) /\ \A k \in WordsOf(t) : j <= k
  BY <1>1
<1>3. /\ TrimHead(t) \in Seq(TokenOf(Word)) /\ Len(TrimHead(t)) = n - j + 1 /\ j \in 1..n
      /\ \A i \in 1..(n - j + 1) :
           /\ TrimHead(t)[i].word = t[j + i - 1].word
           /\ TrimHead(t)[i].before = (t[j + i - 1].before /\ i # 1)
           /\ TrimHead(t)[i].after = t[j + i - 1].after
  <2>1. /\ TrimHead(t) \in Seq(TokenOf(Word)) /\ Len(TrimHead(t)) = Len(t) - j + 1 /\ j \in 1..Len(t)
        /\ \A i \in 1..(Len(t) - j + 1) :
             /\ TrimHead(t)[i].word = t[j + i - 1].word
             /\ TrimHead(t)[i].before = (t[j + i - 1].before /\ i # 1)
             /\ TrimHead(t)[i].after = t[j + i - 1].after
    BY ONLY t \in Seq(TokenOf(Word)), <1>2, HeadTrimmed
  <2> QED
    BY <1>1, <2>1
<1>4. ASSUME NEW i \in 1..(n - j + 1) PROVE j + i - 1 \in 1..n /\ (j + i - 1 = n <=> i = n - j + 1)
  BY <1>1, <1>3, LenProperties
<1>5. ASSUME NEW i \in 1..(n - j + 1)
      PROVE  /\ TrimHead(t)[i].word = s[j + i - 1].word
             /\ TrimHead(t)[i].before = (s[j + i - 1].before /\ i # 1)
             /\ TrimHead(t)[i].after = (s[j + i - 1].after /\ i # n - j + 1)
  <2>1. PICK k \in 1..n : k = j + i - 1 /\ (k = n <=> i = n - j + 1)
    BY <1>4
  <2>2. t[k].word = s[k].word /\ t[k].before = s[k].before /\ t[k].after = (s[k].after /\ k # n)
    BY <1>1
  <2>3. /\ TrimHead(t)[i].word = t[k].word /\ TrimHead(t)[i].before = (t[k].before /\ i # 1)
        /\ TrimHead(t)[i].after = t[k].after
    BY <1>3, <2>1
  <2> QED
    BY <2>1, <2>2, <2>3
<1> QED
  BY <1>1, <1>3, <1>5

\* What a normalized role says of its words and what stands between them.
Code(r) == {<<k - 1, r[k].word, (k = 1 \/ r[k].before), (k = Len(r) \/ r[k].after)>> : k \in 1..Len(r)}

\* A normalized role begins and ends with a bare word, and says of the words and what
\* stands between them exactly what the text said.
LEMMA RoleNormalized ==
  ASSUME NEW Word, NEW s \in Seq(TokenOf(Word))
  PROVE  LET r == NormalizeRole(s)
         IN  /\ r \in Seq(TokenOf(Word))
             /\ r # <<>> => ~r[1].before /\ ~r[Len(r)].after
             /\ Inside(s) = Code(r)
<1>1. CASE WordsOf(s) = {}
  <2>1. TrimTail(s) = <<>>
    BY <1>1 DEF TrimTail
  <2>2. WordsOf(<<>>) = {}
    BY DEF WordsOf
  <2>3. NormalizeRole(s) = <<>>
    BY <2>1, <2>2 DEF NormalizeRole, TrimHead
  <2>4. Inside(s) = {}
    BY <1>1 DEF Inside
  <2>5. <<>> \in Seq(TokenOf(Word)) /\ Len(<<>>) = 0
    BY EmptySeq
  <2>6. Code(<<>>) = {}
    BY <2>5 DEF Code
  <2> QED
    BY <2>3, <2>4, <2>5, <2>6
<1>2. CASE WordsOf(s) # {}
  <2>1. PICK j \in WordsOf(s), n \in WordsOf(s) : \A k \in WordsOf(s) : j <= k /\ k <= n
    BY <1>2, FirstAndLast
  <2>2. PICK t \in Seq(TokenOf(Word)) : t = TrimTail(s)
    <3>1. \A k \in WordsOf(s) : k <= n
      BY <2>1
    <3> QED
      BY <3>1, TailTrimmed
  <2>3. /\ TrimHead(t) \in Seq(TokenOf(Word)) /\ Len(TrimHead(t)) = n - j + 1
        /\ j \in 1..n /\ n \in 1..Len(s)
        /\ \A i \in 1..(n - j + 1) :
             /\ TrimHead(t)[i].word = s[j + i - 1].word
             /\ TrimHead(t)[i].before = (s[j + i - 1].before /\ i # 1)
             /\ TrimHead(t)[i].after = (s[j + i - 1].after /\ i # n - j + 1)
    BY ONLY s \in Seq(TokenOf(Word)), j \in WordsOf(s), n \in WordsOf(s), <2>1, <2>2, TrimmedOnce
  <2>4. PICK m \in Nat \ {0} : m = n - j + 1
    BY <2>3, LenProperties
  <2>5. PICK r \in Seq(TokenOf(Word)) : r = NormalizeRole(s) /\ r = TrimHead(t)
    BY <2>2, <2>3 DEF NormalizeRole
  <2>6. /\ Len(r) = m /\ j \in Nat /\ n \in Nat /\ DOMAIN s = 1..Len(s) /\ Len(s) \in Nat
        /\ j \in DOMAIN s /\ n \in DOMAIN s
    BY <2>3, <2>4, <2>5, LenProperties
  <2>7. ASSUME NEW i \in j..n, NEW k \in 1..m, i = j + k - 1
        PROVE  /\ r[k].word = s[i].word
               /\ r[k].before = (s[i].before /\ k # 1)
               /\ r[k].after = (s[i].after /\ k # m)
               /\ i - j = k - 1 /\ (i = j <=> k = 1) /\ (i = n <=> k = m)
    <3>1. r[k].word = s[i].word /\ r[k].before = (s[i].before /\ k # 1) /\ r[k].after = (s[i].after /\ k # m)
      BY <2>3, <2>4, <2>5, <2>7
    <3>2. i - j = k - 1 /\ (i = j <=> k = 1) /\ (i = n <=> k = m)
      BY <2>4, <2>6, <2>7
    <3> QED
      BY <3>1, <3>2
  <2>8. FirstWord(s) = j /\ LastWord(s) = n
    BY <2>1, EndsAre
  <2>9. {a \in DOMAIN s : \E k, l \in WordsOf(s) : k <= a /\ a <= l} = j..n
    <3>1. \A k \in WordsOf(s) : k \in Nat
      BY <2>6 DEF WordsOf
    <3>2. ASSUME NEW a \in DOMAIN s, NEW k \in WordsOf(s), NEW l \in WordsOf(s), k <= a, a <= l
          PROVE  a \in j..n
      <4>1. j <= k /\ l <= n /\ k \in Nat /\ l \in Nat /\ a \in Nat
        BY <2>1, <2>6, <3>1
      <4> QED
        BY <2>6, <3>2, <4>1
    <3>3. ASSUME NEW a \in j..n PROVE a \in DOMAIN s /\ j <= a /\ a <= n
      BY <2>6
    <3> QED
      BY <3>2, <3>3
  <2>10. Inside(s) = Code(r)
    <3>1. Inside(s) = {<<i - j, s[i].word, (i = j \/ s[i].before), (i = n \/ s[i].after)>> : i \in j..n}
      BY <2>8, <2>9 DEF Inside
    <3>2. Code(r) = {<<k - 1, r[k].word, (k = 1 \/ r[k].before), (k = m \/ r[k].after)>> : k \in 1..m}
      BY <2>6 DEF Code
    <3>3. ASSUME NEW i \in j..n, NEW k \in 1..m, i = j + k - 1
          PROVE  <<i - j, s[i].word, (i = j \/ s[i].before), (i = n \/ s[i].after)>>
                   = <<k - 1, r[k].word, (k = 1 \/ r[k].before), (k = m \/ r[k].after)>>
      <4>1. /\ i - j = k - 1 /\ s[i].word = r[k].word
            /\ (i = j \/ s[i].before) = (k = 1 \/ r[k].before)
            /\ (i = n \/ s[i].after) = (k = m \/ r[k].after)
        BY <2>7, <3>3
      <4> QED
        BY <4>1
    <3>4. \A i \in j..n : \E k \in 1..m : i = j + k - 1
      <4>1. \A i \in j..n : i - j + 1 \in 1..m /\ i = j + (i - j + 1) - 1
        BY <2>4, <2>6
      <4> QED
        BY <4>1
    <3>5. \A k \in 1..m : \E i \in j..n : i = j + k - 1
      BY <2>4, <2>6
    <3>6. ASSUME NEW x \in Inside(s) PROVE x \in Code(r)
      <4>1. PICK i \in j..n : x = <<i - j, s[i].word, (i = j \/ s[i].before), (i = n \/ s[i].after)>>
        BY <3>1
      <4>2. PICK k \in 1..m : i = j + k - 1
        BY <3>4
      <4>3. x = <<k - 1, r[k].word, (k = 1 \/ r[k].before), (k = m \/ r[k].after)>>
        BY <3>3, <4>1, <4>2
      <4> QED
        BY <3>2, <4>3
    <3>7. ASSUME NEW x \in Code(r) PROVE x \in Inside(s)
      <4>1. PICK k \in 1..m : x = <<k - 1, r[k].word, (k = 1 \/ r[k].before), (k = m \/ r[k].after)>>
        BY <3>2
      <4>2. PICK i \in j..n : i = j + k - 1
        BY <3>5
      <4>3. x = <<i - j, s[i].word, (i = j \/ s[i].before), (i = n \/ s[i].after)>>
        BY <3>3, <4>1, <4>2
      <4> QED
        BY <3>1, <4>3
    <3> QED
      BY <3>6, <3>7
  <2>11. ~r[1].before /\ ~r[m].after
    <3>1. 1 \in 1..m /\ m \in 1..m /\ j \in j..n /\ n \in j..n /\ j = j + 1 - 1 /\ n = j + m - 1
      BY <2>3, <2>4, <2>6
    <3> QED
      BY <2>7, <3>1
  <2> QED
    BY <2>5, <2>6, <2>10, <2>11
<1> QED
  BY <1>1, <1>2

\* Two texts without punctuation around them that say the same are the same.
LEMMA CodeIsOfOne ==
  ASSUME NEW Word, NEW q \in Seq(TokenOf(Word)), NEW r \in Seq(TokenOf(Word)),
         q # <<>> => ~q[1].before /\ ~q[Len(q)].after,
         r # <<>> => ~r[1].before /\ ~r[Len(r)].after,
         Code(q) = Code(r)
  PROVE  q = r
<1>1. Len(q) \in Nat /\ Len(r) \in Nat
  BY LenProperties
<1>2. ASSUME NEW x \in Seq(TokenOf(Word)), NEW y \in Seq(TokenOf(Word)), Code(x) = Code(y), NEW k \in 1..Len(x)
      PROVE  /\ k \in 1..Len(y)
             /\ x[k].word = y[k].word
             /\ (k = 1 \/ x[k].before) = (k = 1 \/ y[k].before)
             /\ (k = Len(x) \/ x[k].after) = (k = Len(y) \/ y[k].after)
  <2>1. <<k - 1, x[k].word, (k = 1 \/ x[k].before), (k = Len(x) \/ x[k].after)>> \in Code(y)
    BY <1>2 DEF Code
  <2>2. PICK l \in 1..Len(y) :
          <<k - 1, x[k].word, (k = 1 \/ x[k].before), (k = Len(x) \/ x[k].after)>>
            = <<l - 1, y[l].word, (l = 1 \/ y[l].before), (l = Len(y) \/ y[l].after)>>
    BY <2>1 DEF Code
  <2>3. k = l
    BY <2>2, LenProperties
  <2> QED
    BY <2>2, <2>3
<1>3. Len(q) = Len(r)
  <2>1. \A k \in 1..Len(q) : k \in 1..Len(r)
    BY <1>2
  <2>2. \A k \in 1..Len(r) : k \in 1..Len(q)
    BY <1>2
  <2>3. Len(q) # 0 => Len(q) \in 1..Len(r)
    BY <1>1, <2>1
  <2>4. Len(r) # 0 => Len(r) \in 1..Len(q)
    BY <1>1, <2>2
  <2> QED
    BY <1>1, <2>3, <2>4
<1>4. ASSUME NEW k \in 1..Len(q) PROVE q[k] = r[k]
  <2>1. q[k] \in TokenOf(Word) /\ r[k] \in TokenOf(Word)
    BY <1>3, ElementOfSeq
  <2>2. /\ q[k].word = r[k].word
        /\ (k = 1 \/ q[k].before) = (k = 1 \/ r[k].before)
        /\ (k = Len(q) \/ q[k].after) = (k = Len(r) \/ r[k].after)
    BY <1>2
  <2>3. q # <<>> /\ r # <<>>
    BY <1>1, <1>3, EmptySeq
  <2>4. q[k].before = r[k].before /\ q[k].after = r[k].after
    BY <1>3, <2>1, <2>2, <2>3 DEF TokenOf
  <2> QED
    BY <2>1, <2>2, <2>4 DEF TokenOf
<1> QED
  BY <1>3, <1>4, SeqEqual

\* What NormalizeCompany trims: the name without its legal suffix.
WithoutSuffix(s) ==
  IF Len(s) > 1 /\ s[Len(s)].word \in LegalSuffixes THEN SubSeq(s, 1, Len(s) - 1) ELSE s

\* What is left without the suffix are the tokens before it, and the words of the name.
LEMMA SuffixGone ==
  ASSUME NEW Word, NEW s \in Seq(TokenOf(Word))
  PROVE  /\ WithoutSuffix(s) \in Seq(TokenOf(Word))
         /\ DOMAIN WithoutSuffix(s) \subseteq DOMAIN s
         /\ \A k \in DOMAIN WithoutSuffix(s) : WithoutSuffix(s)[k] = s[k]
         /\ WordsOf(WithoutSuffix(s)) = Named(s)
<1>1. Len(s) \in Nat /\ DOMAIN s = 1..Len(s) /\ \A k \in 1..Len(s) : s[k] \in TokenOf(Word)
  BY LenProperties, ElementOfSeq
<1>2. CASE Len(s) > 1 /\ s[Len(s)].word \in LegalSuffixes
  <2>0. PICK hi \in Int : hi = Len(s) - 1
    <3>1. Len(s) \in Nat
      BY <1>1
    <3> QED
      BY ONLY <3>1
  <2>1. hi = Len(s) - 1 /\ hi \in Nat
    BY <1>1, <1>2, <2>0
  <2>2. PICK t : t = WithoutSuffix(s) /\ t = SubSeq(s, 1, hi)
    BY <1>2, <2>1 DEF WithoutSuffix
  <2>3. t \in Seq(TokenOf(Word)) /\ Len(t) = hi /\ \A k \in 1..hi : t[k] = s[k]
    <3>1. \A k \in 1..hi : s[k] \in TokenOf(Word)
      BY <1>1, <2>1
    <3> QED
      BY <1>1, <1>2, <2>1, <2>2, <3>1, SubSeqProperties
  <2>4. DOMAIN t = 1..hi /\ 1..Len(s) = 1..hi \cup {Len(s)} /\ Len(s) \notin 1..hi
    BY <1>1, <2>1, <2>3, LenProperties
  <2>5. WordsOf(t) = Named(s)
    <3>1. WordsOf(s) = {k \in 1..Len(s) : IsWord(s[k])} /\ WordsOf(t) = {k \in 1..hi : IsWord(s[k])}
      BY <1>1, <2>3, <2>4 DEF WordsOf
    <3>2. Len(s) # 1
      BY <1>1, <1>2
    <3> QED
      BY <1>2, <2>4, <3>1, <3>2 DEF Named
  <2> QED
    BY <1>1, <2>2, <2>3, <2>4, <2>5
<1>3. CASE ~(Len(s) > 1 /\ s[Len(s)].word \in LegalSuffixes)
  <2>1. WithoutSuffix(s) = s
    BY <1>3 DEF WithoutSuffix
  <2>2. \A i \in WordsOf(s) : i = 1 \/ i # Len(s) \/ s[i].word \notin LegalSuffixes
    BY <1>1, <1>3 DEF WordsOf
  <2> QED
    BY <2>1, <2>2 DEF Named
<1> QED
  BY <1>2, <1>3

\* What a normalized company says of its tokens.
CompanyCode(r) == {<<k, r[k].word, r[k].before, (k = Len(r) \/ r[k].after)>> : k \in 1..Len(r)}

\* A normalized company has nothing behind it, and says of the name exactly what the
\* text said; it is empty when there is no name.
LEMMA CompanyNormalized ==
  ASSUME NEW Word, NEW s \in Seq(TokenOf(Word))
  PROVE  LET r == NormalizeCompany(s)
         IN  /\ r \in Seq(TokenOf(Word))
             /\ r # <<>> => ~r[Len(r)].after
             /\ NameOf(s) = CompanyCode(r)
             /\ Named(s) # {} => r # <<>>
<1>1. PICK t \in Seq(TokenOf(Word)) :
        /\ t = WithoutSuffix(s) /\ DOMAIN t \subseteq DOMAIN s
        /\ \A k \in DOMAIN t : t[k] = s[k]
        /\ WordsOf(t) = Named(s)
  BY SuffixGone
<1>2. NormalizeCompany(s) = TrimTail(t)
  BY <1>1 DEF NormalizeCompany, WithoutSuffix
<1>3. CASE Named(s) = {}
  <2>1. TrimTail(t) = <<>> /\ NameOf(s) = {}
    BY <1>1, <1>3 DEF TrimTail, NameOf
  <2>2. <<>> \in Seq(TokenOf(Word)) /\ Len(<<>>) = 0
    BY EmptySeq
  <2>3. CompanyCode(<<>>) = {}
    BY <2>2 DEF CompanyCode
  <2> QED
    BY <1>2, <1>3, <2>1, <2>2, <2>3
<1>4. CASE Named(s) # {}
  <2>1. PICK n \in WordsOf(t) : \A k \in WordsOf(t) : k <= n
    BY <1>1, <1>4, FirstAndLast
  <2>2. PICK r \in Seq(TokenOf(Word)) : r = TrimTail(t) /\ Len(r) = n
    BY <2>1, TailTrimmed
  <2>3. /\ n \in 1..Len(t)
        /\ \A i \in 1..n : /\ r[i].word = t[i].word /\ r[i].before = t[i].before
                           /\ r[i].after = (t[i].after /\ i # n)
    BY <2>1, <2>2, TailTrimmed
  <2>4. Len(t) \in Nat /\ DOMAIN t = 1..Len(t) /\ DOMAIN s \subseteq Nat /\ n \in Nat
    BY <2>3, LenProperties
  <2>5. \A i \in 1..n : i \in DOMAIN t /\ i \in DOMAIN s /\ t[i] = s[i]
    BY <1>1, <2>3, <2>4
  <2>6. {a \in DOMAIN s : \E k \in Named(s) : a <= k} = 1..n
    <3>1. \A k \in Named(s) : k \in Nat /\ k <= n
      BY <1>1, <2>1, <2>4 DEF WordsOf
    <3>2. n \in Named(s)
      BY <1>1, <2>1
    <3>3. ASSUME NEW a \in DOMAIN s, NEW k \in Named(s), a <= k PROVE a \in 1..n
      <4>1. a \in 1..Len(s)
        BY LenProperties
      <4> QED
        BY <2>4, <3>1, <3>3, <4>1, LenProperties
    <3>4. \A a \in 1..n : a \in DOMAIN s /\ a <= n
      BY <2>5
    <3> QED
      BY <3>2, <3>3, <3>4
  <2>7. ASSUME NEW i \in 1..n
        PROVE  <<i, s[i].word, s[i].before, ((\A k \in Named(s) : k <= i) \/ s[i].after)>>
                 = <<i, r[i].word, r[i].before, (i = n \/ r[i].after)>>
    <3>1. (\A k \in Named(s) : k <= i) <=> i = n
      <4>1. n \in Named(s) /\ \A k \in Named(s) : k <= n
        BY <1>1, <2>1
      <4> QED
        BY <2>4, <4>1
    <3>2. s[i].word = r[i].word /\ s[i].before = r[i].before /\ r[i].after = (s[i].after /\ i # n)
      BY <2>3, <2>5
    <3>3. ((\A k \in Named(s) : k <= i) \/ s[i].after) = (i = n \/ r[i].after)
      BY <3>1, <3>2
    <3> QED
      BY <3>2, <3>3
  <2>8. NameOf(s) = CompanyCode(r)
    <3>1. NameOf(s) = {<<i, s[i].word, s[i].before, ((\A k \in Named(s) : k <= i) \/ s[i].after)>> : i \in 1..n}
      BY <2>6 DEF NameOf
    <3>2. CompanyCode(r) = {<<i, r[i].word, r[i].before, (i = n \/ r[i].after)>> : i \in 1..n}
      BY <2>2 DEF CompanyCode
    <3>3. ASSUME NEW x \in NameOf(s) PROVE x \in CompanyCode(r)
      <4>1. PICK i \in 1..n : x = <<i, s[i].word, s[i].before, ((\A k \in Named(s) : k <= i) \/ s[i].after)>>
        BY <3>1
      <4>2. x = <<i, r[i].word, r[i].before, (i = n \/ r[i].after)>>
        BY <2>7, <4>1
      <4> QED
        BY <3>2, <4>2
    <3>4. ASSUME NEW x \in CompanyCode(r) PROVE x \in NameOf(s)
      <4>1. PICK i \in 1..n : x = <<i, r[i].word, r[i].before, (i = n \/ r[i].after)>>
        BY <3>2
      <4>2. x = <<i, s[i].word, s[i].before, ((\A k \in Named(s) : k <= i) \/ s[i].after)>>
        BY <2>7, <4>1
      <4> QED
        BY <3>1, <4>2
    <3> QED
      BY <3>3, <3>4
  <2>9. r # <<>> /\ ~r[Len(r)].after
    <3>1. n \in 1..n /\ n # 0
      BY <2>3, <2>4
    <3>2. Len(<<>>) = 0
      BY EmptySeq
    <3>3. r # <<>>
      BY <2>2, <3>1, <3>2
    <3> QED
      BY <2>2, <2>3, <3>1, <3>3
  <2> QED
    BY <1>2, <2>2, <2>8, <2>9
<1> QED
  BY <1>3, <1>4

\* Two texts with nothing behind them that say the same are the same.
LEMMA CompanyCodeIsOfOne ==
  ASSUME NEW Word, NEW q \in Seq(TokenOf(Word)), NEW r \in Seq(TokenOf(Word)),
         q # <<>> => ~q[Len(q)].after, r # <<>> => ~r[Len(r)].after,
         CompanyCode(q) = CompanyCode(r)
  PROVE  q = r
<1>1. Len(q) \in Nat /\ Len(r) \in Nat
  BY LenProperties
<1>2. ASSUME NEW x \in Seq(TokenOf(Word)), NEW y \in Seq(TokenOf(Word)), CompanyCode(x) = CompanyCode(y),
             NEW k \in 1..Len(x)
      PROVE  /\ k \in 1..Len(y)
             /\ x[k].word = y[k].word /\ x[k].before = y[k].before
             /\ (k = Len(x) \/ x[k].after) = (k = Len(y) \/ y[k].after)
  <2>1. <<k, x[k].word, x[k].before, (k = Len(x) \/ x[k].after)>> \in CompanyCode(y)
    BY <1>2 DEF CompanyCode
  <2>2. PICK l \in 1..Len(y) :
          <<k, x[k].word, x[k].before, (k = Len(x) \/ x[k].after)>>
            = <<l, y[l].word, y[l].before, (l = Len(y) \/ y[l].after)>>
    BY <2>1 DEF CompanyCode
  <2> QED
    BY <2>2
<1>3. Len(q) = Len(r)
  <2>1. Len(q) # 0 => Len(q) \in 1..Len(r)
    BY <1>1, <1>2
  <2>2. Len(r) # 0 => Len(r) \in 1..Len(q)
    BY <1>1, <1>2
  <2> QED
    BY <1>1, <2>1, <2>2
<1>4. ASSUME NEW k \in 1..Len(q) PROVE q[k] = r[k]
  <2>1. q[k] \in TokenOf(Word) /\ r[k] \in TokenOf(Word)
    BY <1>3, ElementOfSeq
  <2>2. /\ q[k].word = r[k].word /\ q[k].before = r[k].before
        /\ (k = Len(q) \/ q[k].after) = (k = Len(r) \/ r[k].after)
    BY <1>2
  <2>3. q # <<>> /\ r # <<>>
    BY <1>1, <1>3, EmptySeq
  <2>4. q[k].after = r[k].after
    BY <1>3, <2>1, <2>2, <2>3 DEF TokenOf
  <2> QED
    BY <2>1, <2>2, <2>4 DEF TokenOf
<1> QED
  BY <1>3, <1>4, SeqEqual

\* engine.DedupKey: two companies, of any words, have one key exactly when they differ
\* in the punctuation behind their names and one legal suffix at most, and two roles
\* exactly when they differ around the words at most; a company that has a name keeps
\* one.
THEOREM KeysAreOfNames ==
  ASSUME NEW Word, NEW company \in Seq(TokenOf(Word)), NEW role \in Seq(TokenOf(Word)),
         LegalSuffixes \subseteq Word, NEW others \in SUBSET Seq(TokenOf(Word))
  PROVE  KeysIdentified(company, role, others)
<1>1. ASSUME NEW other \in others
      PROVE  DedupKey(company, role) = DedupKey(company, other) <=> Inside(role) = Inside(other)
  <2>1. DedupKey(company, role) = DedupKey(company, other) <=> NormalizeRole(role) = NormalizeRole(other)
    BY DEF DedupKey
  <2>2. other \in Seq(TokenOf(Word))
    OBVIOUS
  <2>3. NormalizeRole(role) = NormalizeRole(other) => Inside(role) = Inside(other)
    BY <2>2, RoleNormalized
  <2>4. Inside(role) = Inside(other) => NormalizeRole(role) = NormalizeRole(other)
    BY <2>2, RoleNormalized, CodeIsOfOne
  <2> QED
    BY <2>1, <2>3, <2>4
<1>2. ASSUME NEW other \in others
      PROVE  DedupKey(company, role) = DedupKey(other, role) <=> NameOf(company) = NameOf(other)
  <2>1. DedupKey(company, role) = DedupKey(other, role) <=> NormalizeCompany(company) = NormalizeCompany(other)
    BY DEF DedupKey
  <2>2. other \in Seq(TokenOf(Word))
    OBVIOUS
  <2>3. NormalizeCompany(company) = NormalizeCompany(other) => NameOf(company) = NameOf(other)
    BY <2>2, CompanyNormalized
  <2>4. NameOf(company) = NameOf(other) => NormalizeCompany(company) = NormalizeCompany(other)
    BY <2>2, CompanyNormalized, CompanyCodeIsOfOne
  <2> QED
    BY <2>1, <2>3, <2>4
<1>4. Named(company) # {} => NormalizeCompany(company) # <<>>
  BY CompanyNormalized
<1>3. ASSUME NEW suffix \in LegalSuffixes, company # <<>>, company[Len(company)].word \notin LegalSuffixes
      PROVE  DedupKey(Append(company, [word |-> suffix, before |-> FALSE, after |-> TRUE]), role)
               = DedupKey(company, role)
  <2> DEFINE token == [word |-> suffix, before |-> FALSE, after |-> TRUE]
             named == Append(company, token)
  <2>1. token \in TokenOf(Word)
    BY DEF TokenOf
  <2>2. Len(company) \in Nat \ {0}
    BY <1>3, EmptySeq
  <2>3. /\ named \in Seq(TokenOf(Word)) /\ Len(named) = Len(company) + 1
        /\ \A k \in 1..Len(company) : named[k] = company[k]
        /\ named[Len(company) + 1] = token
    <3> HIDE DEF token
    <3> QED
      BY <2>1, AppendProperties
  <2> HIDE DEF named
  <2>4. SubSeq(named, 1, Len(company)) = company
    <3>1. /\ SubSeq(named, 1, Len(company)) \in Seq(TokenOf(Word))
          /\ Len(SubSeq(named, 1, Len(company))) = Len(company)
          /\ \A k \in 1..Len(company) : SubSeq(named, 1, Len(company))[k] = named[k]
      <4>1. \A k \in 1..Len(company) : named[k] \in TokenOf(Word)
        BY <2>3, ElementOfSeq
      <4> QED
        BY <2>2, <4>1, SubSeqProperties
    <3> QED
      BY <2>3, <3>1, SeqEqual
  <2>5. NormalizeCompany(named) = TrimTail(company)
    <3>1. Len(named) > 1 /\ named[Len(named)].word \in LegalSuffixes /\ Len(named) - 1 = Len(company)
      BY <2>2, <2>3
    <3> QED
      BY <2>4, <3>1 DEF NormalizeCompany
  <2>6. NormalizeCompany(company) = TrimTail(company)
    BY <1>3 DEF NormalizeCompany
  <2> QED
    BY <2>5, <2>6 DEF DedupKey, named
<1> QED
  BY <1>1, <1>2, <1>3, <1>4 DEF KeysIdentified

------------------------------------------------------------------------------
(* Fingerprints.                                                            *)

\* The votes that tokens have, and the places they have them from.
PairsOf(text, tokens)  == {v \in tokens \X DOMAIN text : v[2] <= Weight(text, v[1])}
PlacesOf(text, tokens) == {k \in DOMAIN text : text[k] \in tokens}

\* A text has as many places as words, and finitely many distinct words.
LEMMA PlacesAreFinite ==
  ASSUME NEW Word, NEW text \in Seq(Word)
  PROVE  /\ IsFiniteSet(DOMAIN text) /\ Cardinality(DOMAIN text) = Len(text) /\ Len(text) \in Nat
         /\ \A P \in SUBSET DOMAIN text :
              IsFiniteSet(P) /\ Cardinality(P) \in Nat /\ Cardinality(P) <= Len(text)
         /\ IsFiniteSet(Range(text))
<1>1. Len(text) \in Nat /\ DOMAIN text = 1..Len(text)
  BY LenProperties
<1>2. PICK n \in Nat : n = Len(text)
  BY <1>1
<1>3. IsFiniteSet(1..n) /\ Cardinality(1..n) = n
  <2>1. IsFiniteSet(1..n) /\ Cardinality(1..n) = IF 1 > n THEN 0 ELSE n - 1 + 1
    BY ONLY 1 \in Int, n \in Int, FS_Interval
  <2> QED
    BY <2>1
<1>4. ASSUME NEW P \in SUBSET DOMAIN text
      PROVE  IsFiniteSet(P) /\ Cardinality(P) \in Nat /\ Cardinality(P) <= n
  <2>1. P \in SUBSET (1..n)
    BY <1>1, <1>2
  <2> QED
    BY <1>3, <2>1, FS_Subset, FS_CardinalityType
<1>5. IsFiniteSet(Range(text))
  <2>1. text \in Surjection(DOMAIN text, Range(text))
    <3>1. text = [k \in DOMAIN text |-> text[k]]
      BY ElementOfSeq, SeqDef
    <3> QED
      BY <3>1 DEF Range, Surjection
  <2> QED
    BY <1>1, <1>2, <1>3, <2>1, FS_Surjection
<1> QED
  BY <1>1, <1>2, <1>3, <1>4, <1>5

\* One token has as many votes as places.
LEMMA VotesOfOne ==
  ASSUME NEW Word, NEW text \in Seq(Word), NEW t
  PROVE  /\ IsFiniteSet(PairsOf(text, {t}))
         /\ Cardinality(PairsOf(text, {t})) = Cardinality(PlacesOf(text, {t}))
<1>1. PICK w \in Nat : w = Weight(text, t) /\ w <= Len(text)
  <2>1. {k \in DOMAIN text : text[k] = t} \in SUBSET DOMAIN text
    OBVIOUS
  <2> QED
    BY <2>1, PlacesAreFinite DEF Weight
<1>2. PlacesOf(text, {t}) = {k \in DOMAIN text : text[k] = t}
  BY DEF PlacesOf
<1>3. PICK V : V = PairsOf(text, {t})
  OBVIOUS
<1>4. V = {<<t, n>> : n \in 1..w}
  <2>1. Len(text) \in Nat /\ DOMAIN text = 1..Len(text)
    BY LenProperties
  <2>2. ASSUME NEW n \in 1..w PROVE <<t, n>> \in V
    <3>1. n \in DOMAIN text
      BY <1>1, <2>1
    <3> QED
      BY <1>1, <1>3, <3>1 DEF PairsOf
  <2>3. ASSUME NEW v \in V PROVE \E n \in 1..w : v = <<t, n>>
    <3>1. PICK n \in DOMAIN text : v = <<t, n>> /\ n <= w
      BY <1>1, <1>3 DEF PairsOf
    <3> QED
      BY <2>1, <3>1
  <2> QED
    BY <2>2, <2>3
<1>5. PICK f : f = [n \in 1..w |-> <<t, n>>]
  OBVIOUS
<1>6. f \in Bijection(1..w, V)
  <2>1. f \in [1..w -> V]
    BY <1>4, <1>5
  <2>2. \A n, m \in 1..w : f[n] = f[m] => n = m
    BY <1>5
  <2>3. \A v \in V : \E n \in 1..w : f[n] = v
    BY <1>4, <1>5
  <2> QED
    BY <2>1, <2>2, <2>3 DEF Bijection, Injection, Surjection, IsInjective
<1>7. IsFiniteSet(1..w) /\ Cardinality(1..w) = w
  <2>1. IsFiniteSet(1..w) /\ Cardinality(1..w) = IF 1 > w THEN 0 ELSE w - 1 + 1
    BY ONLY 1 \in Int, w \in Int, FS_Interval
  <2> QED
    BY <2>1
<1>8. IsFiniteSet(V) /\ Cardinality(V) = w
  BY <1>6, <1>7, FS_Bijection DEF ExistsBijection
<1> QED
  BY <1>1, <1>2, <1>3, <1>8 DEF Weight

\* Tokens have as many votes as places: those of one token more, one token at a time.
LEMMA VotesAreOccurrences ==
  ASSUME NEW Word, NEW text \in Seq(Word), NEW tokens \in SUBSET Range(text)
  PROVE  Votes(text, tokens) = Cardinality(PlacesOf(text, tokens))
<1> DEFINE Right(T) == /\ IsFiniteSet(PairsOf(text, T))
                       /\ Cardinality(PairsOf(text, T)) = Cardinality(PlacesOf(text, T))
           Size(T, n) == IsFiniteSet(T) /\ Cardinality(T) = n
           N == {n \in Nat : \A T \in SUBSET Range(text) : Size(T, n) => Right(T)}
<1>1. 0 \in N
  <2> SUFFICES ASSUME NEW T \in SUBSET Range(text), Size(T, 0) PROVE Right(T)
    OBVIOUS
  <2>1. T = {}
    BY FS_EmptySet
  <2>2. PairsOf(text, T) = {} /\ PlacesOf(text, T) = {}
    BY <2>1 DEF PairsOf, PlacesOf
  <2> QED
    BY <2>2, FS_EmptySet
<1>2. ASSUME NEW n \in N PROVE n + 1 \in N
  <2> SUFFICES ASSUME NEW T \in SUBSET Range(text), Size(T, n + 1) PROVE Right(T)
    OBVIOUS
  <2>1. n \in Nat
    OBVIOUS
  <2>2. T # {}
    BY <2>1, FS_EmptySet
  <2>3. PICK t \in T : TRUE
    BY <2>2
  <2>4. PICK U \in SUBSET Range(text) : U = T \ {t}
    OBVIOUS
  <2>5. Size(U, n)
    <3>1. IsFiniteSet(T) /\ Cardinality(T) = n + 1
      OBVIOUS
    <3>2. IsFiniteSet(T \ {t}) /\ Cardinality(T \ {t}) = Cardinality(T) - 1
      BY ONLY <3>1, t \in T, FS_RemoveElement
    <3> QED
      BY <2>1, <2>4, <3>1, <3>2
  <2>6. Right(U)
    BY <2>5
  <2>7. PICK P, Q, R, S : /\ P = PairsOf(text, U) /\ Q = PairsOf(text, {t})
                          /\ R = PlacesOf(text, U) /\ S = PlacesOf(text, {t})
    OBVIOUS
  <2>8. /\ IsFiniteSet(P) /\ IsFiniteSet(Q) /\ IsFiniteSet(R) /\ IsFiniteSet(S)
        /\ Cardinality(P) = Cardinality(R) /\ Cardinality(Q) = Cardinality(S)
    <3>1. R \in SUBSET DOMAIN text /\ S \in SUBSET DOMAIN text
      BY <2>7 DEF PlacesOf
    <3>2. IsFiniteSet(Q) /\ Cardinality(Q) = Cardinality(S)
      BY <2>7, VotesOfOne
    <3> QED
      BY <2>6, <2>7, <3>1, <3>2, PlacesAreFinite
  <2>9. PairsOf(text, T) = P \cup Q /\ PlacesOf(text, T) = R \cup S
    BY <2>3, <2>4, <2>7 DEF PairsOf, PlacesOf
  <2>10. P \cap Q = {} /\ R \cap S = {}
    BY <2>4, <2>7 DEF PairsOf, PlacesOf
  <2>11. /\ IsFiniteSet(P \cup Q)
         /\ Cardinality(P \cup Q) = Cardinality(P) + Cardinality(Q) - Cardinality(P \cap Q)
         /\ Cardinality(R \cup S) = Cardinality(R) + Cardinality(S) - Cardinality(R \cap S)
    BY ONLY <2>8, FS_Union
  <2> QED
    BY <2>8, <2>9, <2>10, <2>11
<1>3. N = Nat
  <2> HIDE DEF Right, Size
  <2>1. N \in SUBSET Nat
    OBVIOUS
  <2> HIDE DEF N
  <2> QED
    BY <1>1, <1>2, <2>1, Induction
<1>4. IsFiniteSet(tokens) /\ Cardinality(tokens) \in Nat
  BY PlacesAreFinite, FS_Subset, FS_CardinalityType
<1>5. Right(tokens)
  <2> HIDE DEF Right
  <2> QED
    BY <1>3, <1>4
<1> QED
  BY <1>5 DEF Votes, PairsOf

\* engine.SimHash: for every text and every hash, the fingerprint is the strict majority
\* of the occurrences, and one more word moves it where one vote decided, at most.
THEOREM FingerprintsAreOfMajorities ==
  ASSUME NEW Word, NEW text \in Seq(Word), NEW word \in Word, NEW hash, NEW width \in Nat
  PROVE  FingerprintIsMajority(text, hash, width, word)
<1> DEFINE For(x, i) == {k \in DOMAIN x : i \in hash[x[k]]}
           Majority(x) == {i \in 1..width : 2 * Cardinality(For(x, i)) > Len(x)}
           more  == Append(text, word)
           close == {i \in 1..width : 2 * Cardinality(For(text, i)) - Len(text) \in {0, 1}}
<1>1. ASSUME NEW x \in Seq(Word), NEW i
      PROVE  /\ Cardinality(For(x, i)) \in Nat
             /\ Vote(x, hash, i) = 2 * Cardinality(For(x, i)) - Len(x)
  <2>1. PICK F \in SUBSET Range(x), A \in SUBSET Range(x) :
          F = {t \in Range(x) : i \in hash[t]} /\ A = {t \in Range(x) : i \notin hash[t]}
    OBVIOUS
  <2>2. Votes(x, F) = Cardinality(PlacesOf(x, F)) /\ Votes(x, A) = Cardinality(PlacesOf(x, A))
    BY VotesAreOccurrences
  <2>3. PICK P \in SUBSET DOMAIN x, Q \in SUBSET DOMAIN x : P = PlacesOf(x, F) /\ Q = PlacesOf(x, A)
    BY DEF PlacesOf
  <2>4. P = For(x, i)
    BY <2>1, <2>3 DEF PlacesOf, Range
  <2>5. P \cup Q = DOMAIN x /\ P \cap Q = {}
    BY <2>1, <2>3 DEF PlacesOf, Range
  <2>6. IsFiniteSet(P) /\ IsFiniteSet(Q) /\ Cardinality(P) \in Nat /\ Cardinality(Q) \in Nat
    BY PlacesAreFinite
  <2>7. Cardinality(P \cup Q) = Cardinality(P) + Cardinality(Q) - Cardinality(P \cap Q)
    BY ONLY <2>6, FS_Union
  <2>8. Cardinality(P \cup Q) = Len(x) /\ Cardinality(P \cap Q) = 0
    BY <2>5, FS_EmptySet, PlacesAreFinite
  <2>9. Vote(x, hash, i) = Cardinality(P) - Cardinality(Q)
    BY <2>1, <2>2, <2>3 DEF Vote
  <2> HIDE DEF For
  <2> QED
    BY <2>4, <2>6, <2>7, <2>8, <2>9
<1>2. ASSUME NEW x \in Seq(Word) PROVE SimHash(x, hash, width) = Majority(x)
  <2>1. PICK n \in Nat : n = Len(x)
    BY LenProperties
  <2>2. ASSUME NEW i \in 1..width PROVE Vote(x, hash, i) > 0 <=> 2 * Cardinality(For(x, i)) > Len(x)
    <3>1. Cardinality(For(x, i)) \in Nat /\ Vote(x, hash, i) = 2 * Cardinality(For(x, i)) - n
      BY <1>1, <2>1
    <3> HIDE DEF For
    <3> QED
      BY <2>1, <3>1
  <2> QED
    BY <2>2 DEF SimHash
<1>3. PICK n \in Nat : n = Len(text) /\ DOMAIN text = 1..n
  BY LenProperties
<1>4. /\ more \in Seq(Word) /\ Len(more) = n + 1 /\ DOMAIN more = 1..(n + 1)
      /\ \A k \in 1..n : more[k] = text[k]
  BY <1>3, AppendProperties, LenProperties
<1> HIDE DEF more
<1>5. ASSUME NEW i
      PROVE  \/ Cardinality(For(more, i)) = Cardinality(For(text, i))
             \/ Cardinality(For(more, i)) = Cardinality(For(text, i)) + 1
  <2>1. For(text, i) \in SUBSET DOMAIN text
    OBVIOUS
  <2>2. IsFiniteSet(For(text, i)) /\ n + 1 \notin For(text, i)
    BY <1>3, <2>1, PlacesAreFinite
  <2>3. For(more, i) = For(text, i) \/ For(more, i) = For(text, i) \cup {n + 1}
    <3>1. \A k \in 1..(n + 1) : k \in 1..n \/ k = n + 1
      BY <1>3
    <3>2. \A k \in 1..n : k \in For(more, i) <=> k \in For(text, i)
      BY <1>3, <1>4
    <3>3. \A k \in For(text, i) : k \in 1..n
      BY <1>3
    <3>4. \A k \in For(more, i) : k \in 1..(n + 1)
      BY <1>4
    <3> HIDE DEF For
    <3> QED
      BY <3>1, <3>2, <3>3, <3>4
  <2>4. Cardinality(For(text, i) \cup {n + 1}) = Cardinality(For(text, i)) + 1
    <3> HIDE DEF For
    <3> QED
      BY <2>2, FS_AddElement
  <2> QED
    BY <2>3, <2>4
<1>6. (Majority(text) \ Majority(more)) \cup (Majority(more) \ Majority(text)) \subseteq close
  <2> SUFFICES ASSUME NEW i \in 1..width, i \in Majority(text) <=> i \notin Majority(more)
               PROVE  i \in close
    OBVIOUS
  <2>1. PICK c \in Nat, d \in Nat : c = Cardinality(For(text, i)) /\ d = Cardinality(For(more, i))
    BY <1>1, <1>4
  <2>2. d = c \/ d = c + 1
    BY <1>5, <2>1
  <2>3. 2 * c > n <=> ~(2 * d > n + 1)
    BY <1>3, <1>4, <2>1
  <2>4. 2 * c - n \in {0, 1}
    BY <2>2, <2>3
  <2> QED
    BY <1>3, <2>1, <2>4
<1>7. Hamming(SimHash(text, hash, width), SimHash(more, hash, width)) <= Cardinality(close)
  <2>1. IsFiniteSet(close)
    <3>1. close \in SUBSET (1..width)
      OBVIOUS
    <3>2. IsFiniteSet(1..width)
      BY ONLY 1 \in Int, width \in Int, FS_Interval
    <3> HIDE DEF close
    <3> QED
      BY <3>1, <3>2, FS_Subset
  <2>2. SimHash(text, hash, width) = Majority(text) /\ SimHash(more, hash, width) = Majority(more)
    BY <1>2, <1>4
  <2>3. PICK D : D = (Majority(text) \ Majority(more)) \cup (Majority(more) \ Majority(text))
    OBVIOUS
  <2>4. Hamming(SimHash(text, hash, width), SimHash(more, hash, width)) = Cardinality(D)
    <3>1. (Majority(more) \ Majority(text)) \cup (Majority(text) \ Majority(more)) = D
      BY <2>3
    <3> QED
      BY <2>2, <3>1 DEF Hamming
  <2> HIDE DEF close, Majority
  <2> QED
    BY <1>6, <2>1, <2>3, <2>4, FS_Subset
<1> QED
  BY <1>2, <1>7 DEF FingerprintIsMajority, more

------------------------------------------------------------------------------
(* Ratings.                                                                *)

Delimiters == {"marker", "json", "fence"}

\* The greatest number of a set is the one that no other exceeds.
LEMMA MaxIs ==
  ASSUME NEW S \in SUBSET Int, NEW m \in S, \A n \in S : n <= m
  PROVE  Max(S) = m
<1>1. \E x \in S : \A y \in S : x >= y
  OBVIOUS
<1>2. Max(S) \in S /\ \A y \in S : Max(S) >= y
  BY <1>1 DEF Max
<1>3. m >= Max(S) /\ Max(S) >= m
  BY <1>2
<1>4. Max(S) \in Int /\ m \in Int
  BY <1>2
<1> QED
  BY <1>3, <1>4

\* The least number of a set is the one that exceeds no other.
LEMMA MinIs ==
  ASSUME NEW S \in SUBSET Int, NEW m \in S, \A n \in S : m <= n
  PROVE  Min(S) = m
<1>1. \E x \in S : \A y \in S : x <= y
  OBVIOUS
<1>2. Min(S) \in S /\ \A y \in S : Min(S) <= y
  BY <1>1 DEF Min
<1>3. m <= Min(S) /\ Min(S) <= m
  BY <1>2
<1>4. Min(S) \in Int /\ m \in Int
  BY <1>2
<1> QED
  BY <1>3, <1>4

\* A sequence of one element, by position.
LEMMA SequenceOfOne ==
  ASSUME NEW S, NEW x \in S
  PROVE  <<x>> \in Seq(S) /\ Len(<<x>>) = 1 /\ <<x>>[1] = x
<1>1. <<x>> \in [1..1 -> S]
  OBVIOUS
<1>2. <<x>> \in Seq(S)
  BY <1>1, SeqDef
<1> QED
  BY <1>2

\* A sequence of two elements, by position.
LEMMA SequenceOfTwo ==
  ASSUME NEW S, NEW x \in S, NEW y \in S
  PROVE  <<x, y>> \in Seq(S) /\ Len(<<x, y>>) = 2 /\ <<x, y>>[1] = x /\ <<x, y>>[2] = y
<1>1. <<x, y>> \in [1..2 -> S]
  OBVIOUS
<1>2. <<x, y>> \in Seq(S)
  BY <1>1, SeqDef
<1> QED
  BY <1>2

\* A sequence of three elements, by position.
LEMMA SequenceOfThree ==
  ASSUME NEW S, NEW x \in S, NEW y \in S, NEW z \in S
  PROVE  /\ <<x, y, z>> \in Seq(S) /\ Len(<<x, y, z>>) = 3
         /\ <<x, y, z>>[1] = x /\ <<x, y, z>>[2] = y /\ <<x, y, z>>[3] = z
<1>1. <<x, y, z>> \in [1..3 -> S]
  OBVIOUS
<1>2. <<x, y, z>> \in Seq(S)
  BY <1>1, SeqDef
<1> QED
  BY <1>2

\* A sequence of four elements.
LEMMA SequenceOfFour ==
  ASSUME NEW S, NEW x \in S, NEW y \in S, NEW z \in S, NEW u \in S
  PROVE  <<x, y, z, u>> \in Seq(S) /\ Len(<<x, y, z, u>>) = 4
<1>1. <<x, y, z, u>> \in [1..4 -> S]
  OBVIOUS
<1>2. <<x, y, z, u>> \in Seq(S)
  BY <1>1, SeqDef
<1> QED
  BY <1>2

\* The last chunk of a kind is where there is one with none behind it.
LEMMA LastAtIs ==
  ASSUME NEW Chunk, NEW text \in Seq(Chunk), NEW chunk, NEW m \in 1..Len(text), text[m] = chunk,
         \A i \in (m + 1)..Len(text) : text[i] # chunk
  PROVE  LastAt(chunk, text) = m
<1> DEFINE S == {Nowhere} \cup {i \in DOMAIN text : text[i] = chunk}
<1>1. Len(text) \in Nat /\ DOMAIN text = 1..Len(text)
  BY LenProperties
<1>2. S \in SUBSET Int /\ m \in S /\ \A n \in S : n <= m
  BY <1>1 DEF Nowhere
<1>3. Max(S) = m
  <2> HIDE DEF S
  <2> QED
    BY <1>2, MaxIs
<1> QED
  BY <1>3 DEF LastAt

\* A chunk that is not in the text is nowhere.
LEMMA LastAtNowhere ==
  ASSUME NEW Chunk, NEW text \in Seq(Chunk), NEW chunk, \A i \in 1..Len(text) : text[i] # chunk
  PROVE  LastAt(chunk, text) = Nowhere
<1>1. DOMAIN text = 1..Len(text)
  BY LenProperties
<1>2. {Nowhere} \cup {i \in DOMAIN text : text[i] = chunk} = {Nowhere}
  BY <1>1
<1>3. Max({Nowhere}) = Nowhere
  <2> DEFINE S == {Nowhere}
  <2>1. S \in SUBSET Int /\ Nowhere \in S /\ \A n \in S : n <= Nowhere
    BY DEF Nowhere
  <2> HIDE DEF S
  <2>2. Max(S) = Nowhere
    BY <2>1, MaxIs
  <2> QED
    BY <2>2 DEF S
<1> QED
  BY <1>2, <1>3 DEF LastAt

\* A part of a text is the text that has its chunks.
LEMMA SubSeqIs ==
  ASSUME NEW Chunk, NEW text \in Seq(Chunk), NEW part \in Seq(Chunk), NEW lo \in Nat \ {0}, NEW hi \in Nat,
         hi + 1 = lo + Len(part), hi <= Len(text),
         \A i \in 1..Len(part) : text[lo + i - 1] = part[i]
  PROVE  SubSeq(text, lo, hi) = part
<1>1. Len(part) \in Nat /\ Len(text) \in Nat
  BY LenProperties
<1>2. \A i \in lo..hi : text[i] \in Chunk
  BY <1>1, ElementOfSeq
<1>3. /\ SubSeq(text, lo, hi) \in Seq(Chunk)
      /\ Len(SubSeq(text, lo, hi)) = IF lo <= hi THEN hi - lo + 1 ELSE 0
      /\ \A i \in 1..(hi - lo + 1) : SubSeq(text, lo, hi)[i] = text[lo + i - 1]
  BY <1>2, SubSeqProperties
<1>4. Len(SubSeq(text, lo, hi)) = Len(part)
  BY <1>1, <1>3
<1>5. \A i \in 1..Len(part) : SubSeq(text, lo, hi)[i] = part[i]
  BY <1>1, <1>3
<1> QED
  BY <1>3, <1>4, <1>5, SeqEqual

\* Where the chunks of two joined texts are.
LEMMA JoinedIs ==
  ASSUME NEW Chunk, NEW s \in Seq(Chunk), NEW t \in Seq(Chunk)
  PROVE  /\ s \o t \in Seq(Chunk) /\ Len(s \o t) = Len(s) + Len(t)
         /\ \A i \in 1..Len(s) : (s \o t)[i] = s[i]
         /\ \A i \in 1..Len(t) : (s \o t)[Len(s) + i] = t[i]
<1>1. /\ s \o t \in Seq(Chunk) /\ Len(s \o t) = Len(s) + Len(t)
      /\ \A i \in 1..(Len(s) + Len(t)) : (s \o t)[i] = IF i <= Len(s) THEN s[i] ELSE t[i - Len(s)]
  BY ConcatProperties
<1>2. Len(s) \in Nat /\ Len(t) \in Nat
  BY LenProperties
<1>3. ASSUME NEW i \in 1..Len(s) PROVE (s \o t)[i] = s[i]
  BY <1>1, <1>2
<1>4. ASSUME NEW i \in 1..Len(t) PROVE (s \o t)[Len(s) + i] = t[i]
  <2>1. Len(s) + i \in 1..(Len(s) + Len(t)) /\ ~(Len(s) + i <= Len(s)) /\ (Len(s) + i) - Len(s) = i
    BY <1>2
  <2> QED
    BY <1>1, <2>1
<1> QED
  BY <1>1, <1>3, <1>4

\* A block of one chunk is read behind the last opening fence.
LEMMA LastBlock ==
  ASSUME NEW Chunk, Delimiters \subseteq Chunk, NEW text \in Seq(Chunk),
         NEW summary \in Chunk \ Delimiters, NEW n \in Nat,
         Len(text) = n + 3, text[n + 1] = "json", text[n + 2] = summary, text[n + 3] = "fence"
  PROVE  LastAt("json", text) = n + 1 /\ LastJSONFence(text) = <<summary>>
<1>1. LastAt("json", text) = n + 1
  <2>1. \A i \in (n + 2)..Len(text) : text[i] # "json"
    <3> SUFFICES ASSUME NEW i \in (n + 2)..Len(text) PROVE text[i] # "json"
      OBVIOUS
    <3>1. i = n + 2 \/ i = n + 3
      OBVIOUS
    <3> QED
      BY <3>1 DEF Delimiters
  <2> QED
    BY <2>1, LastAtIs
<1>2. summary \in Chunk /\ "fence" \in Chunk
  BY DEF Delimiters
<1> DEFINE rest == <<summary, "fence">>
<1>3. rest \in Seq(Chunk) /\ Len(rest) = 2 /\ rest[1] = summary /\ rest[2] = "fence"
  BY <1>2, SequenceOfTwo
<1>4. After(n + 1, text) = rest
  <2> HIDE DEF rest
  <2>1. PICK lo \in Nat \ {0}, hi \in Nat : lo = n + 2 /\ hi = n + 3
    OBVIOUS
  <2>2. text[lo + 1 - 1] = rest[1] /\ text[lo + 2 - 1] = rest[2]
    BY <1>3, <2>1
  <2>3. \A i \in 1..Len(rest) : text[lo + i - 1] = rest[i]
    BY <1>3, <2>2
  <2>4. SubSeq(text, lo, hi) = rest
    BY <1>3, <2>1, <2>3, SubSeqIs
  <2> QED
    BY <2>1, <2>4 DEF After
<1>5. FirstAt("fence", rest) = 2
  <2> HIDE DEF rest
  <2> DEFINE S == {i \in DOMAIN rest : rest[i] = "fence"}
  <2>1. DOMAIN rest = 1..2
    BY <1>3, LenProperties
  <2>2. S \in SUBSET Int /\ 2 \in S /\ \A i \in S : 2 <= i
    BY <1>3, <2>1 DEF Delimiters
  <2>3. Min(S) = 2
    <3> HIDE DEF S
    <3> QED
      BY <2>2, MinIs
  <2> QED
    BY <2>2, <2>3 DEF FirstAt
<1>6. Before(2, rest) = <<summary>>
  <2> DEFINE one == <<summary>>
  <2>1. one \in Seq(Chunk) /\ Len(one) = 1 /\ one[1] = summary
    BY <1>2, SequenceOfOne
  <2> HIDE DEF one, rest
  <2>2. PICK lo \in Nat \ {0} : lo = 1
    OBVIOUS
  <2>3. \A i \in 1..Len(one) : rest[lo + i - 1] = one[i]
    BY <1>3, <2>1, <2>2
  <2>4. SubSeq(rest, lo, lo) = one
    BY <1>3, <2>1, <2>2, <2>3, SubSeqIs
  <2> QED
    BY <2>2, <2>4 DEF Before, one
<1> HIDE DEF rest
<1> QED
  BY <1>1, <1>4, <1>5, <1>6 DEF LastJSONFence, Nowhere

\* The chunks before a position are the report that has them.
LEMMA WholeReport ==
  ASSUME NEW Chunk, NEW report \in Seq(Chunk), NEW text \in Seq(Chunk), NEW n \in Nat,
         Len(report) = n, n <= Len(text), \A i \in 1..n : text[i] = report[i]
  PROVE  Before(n + 1, text) = report
<1>1. PICK lo \in Nat \ {0} : lo = 1
  OBVIOUS
<1>2. \A i \in 1..Len(report) : text[lo + i - 1] = report[i]
  BY <1>1
<1>3. SubSeq(text, lo, n) = report
  BY <1>1, <1>2, SubSeqIs
<1> QED
  BY <1>1, <1>3 DEF Before

\* Some attempt is the first of those that pass.
LEMMA FirstOfThree ==
  ASSUME NEW S \in SUBSET (1..3), S # {}
  PROVE  Min(S) \in S /\ \A i \in S : Min(S) <= i
<1>1. \E x \in S : \A y \in S : x <= y
  <2>1. CASE 1 \in S
    BY <2>1
  <2>2. CASE 1 \notin S /\ 2 \in S
    BY <2>2
  <2>3. CASE 1 \notin S /\ 2 \notin S
    <3>1. \A x \in S : x = 3
      BY <2>3
    <3>2. PICK x \in S : TRUE
      OBVIOUS
    <3> QED
      BY <3>1, <3>2
  <2> QED
    BY <2>1, <2>2, <2>3
<1> QED
  BY <1>1 DEF Min

\* An answer with the marker is cut there, and one without at its last block.
LEMMA MarkedIsSplit ==
  ASSUME NEW Chunk, Delimiters \subseteq Chunk, NEW report \in Seq(Chunk), NEW text \in Seq(Chunk),
         NEW summary \in Chunk \ Delimiters, NEW n \in Nat,
         Len(report) = n, Len(text) = n + 4, \A i \in 1..n : text[i] = report[i],
         text[n + 1] = "marker", text[n + 2] = "json", text[n + 3] = summary, text[n + 4] = "fence"
  PROVE  SplitAGReport(text) = [report |-> report, summary |-> <<summary>>]
<1>1. LastAt("marker", text) = n + 1
  <2>1. \A i \in (n + 2)..Len(text) : text[i] # "marker"
    <3> SUFFICES ASSUME NEW i \in (n + 2)..Len(text) PROVE text[i] # "marker"
      OBVIOUS
    <3>1. i = n + 2 \/ i = n + 3 \/ i = n + 4
      OBVIOUS
    <3> QED
      BY <3>1 DEF Delimiters
  <2> QED
    BY <2>1, LastAtIs
<1>2. Before(n + 1, text) = report
  BY WholeReport
<1>3. LastJSONFence(After(n + 1, text)) = <<summary>>
  <2> DEFINE rest == <<"json", summary, "fence">>
  <2>1. /\ rest \in Seq(Chunk) /\ Len(rest) = 3
        /\ rest[1] = "json" /\ rest[2] = summary /\ rest[3] = "fence"
    BY SequenceOfThree DEF Delimiters
  <2> HIDE DEF rest
  <2>2. After(n + 1, text) = rest
    <3>1. PICK lo \in Nat \ {0}, hi \in Nat : lo = n + 2 /\ hi = n + 4
      OBVIOUS
    <3>2. text[lo + 1 - 1] = rest[1] /\ text[lo + 2 - 1] = rest[2] /\ text[lo + 3 - 1] = rest[3]
      BY <2>1, <3>1
    <3>3. ASSUME NEW i \in 1..Len(rest) PROVE text[lo + i - 1] = rest[i]
      <4>1. i = 1 \/ i = 2 \/ i = 3
        BY <2>1
      <4> QED
        BY <3>2, <4>1
    <3>4. SubSeq(text, lo, hi) = rest
      BY <2>1, <3>1, <3>3, SubSeqIs
    <3> QED
      BY <3>1, <3>4 DEF After
  <2>3. PICK k \in Nat : k = 0
    OBVIOUS
  <2>4. Len(rest) = k + 3 /\ rest[k + 1] = "json" /\ rest[k + 2] = summary /\ rest[k + 3] = "fence"
    BY <2>1, <2>3
  <2>5. LastJSONFence(rest) = <<summary>>
    BY <2>1, <2>4, LastBlock
  <2> QED
    BY <2>2, <2>5
<1> QED
  BY <1>1, <1>2, <1>3 DEF SplitAGReport, Nowhere

\* Without any marker, the report ends at the block that the contract asks for
\* (splitAGReport).
LEMMA UnmarkedIsSplit ==
  ASSUME NEW Chunk, Delimiters \subseteq Chunk, NEW report \in Seq(Chunk), NEW text \in Seq(Chunk),
         NEW summary \in Chunk \ Delimiters, NEW n \in Nat,
         Len(report) = n, Len(text) = n + 3, \A i \in 1..n : text[i] = report[i] /\ text[i] # "marker",
         text[n + 1] = "json", text[n + 2] = summary, text[n + 3] = "fence"
  PROVE  SplitAGReport(text) = [report |-> report, summary |-> <<summary>>]
<1>1. LastAt("marker", text) = Nowhere
  <2>1. ASSUME NEW i \in 1..Len(text) PROVE text[i] # "marker"
    <3>1. i \in 1..n \/ i = n + 1 \/ i = n + 2 \/ i = n + 3
      OBVIOUS
    <3> QED
      BY <3>1 DEF Delimiters
  <2> QED
    BY <2>1, LastAtNowhere
<1>2. LastAt("json", text) = n + 1 /\ LastJSONFence(text) = <<summary>>
  BY LastBlock
<1>3. Before(n + 1, text) = report
  BY WholeReport
<1> QED
  BY <1>1, <1>2, <1>3 DEF SplitAGReport, Nowhere

\* Whatever a report quotes, an answer that keeps the contract is taken apart into
\* what it was put together from.
LEMMA ContractIsSplit ==
  ASSUME NEW Chunk, Delimiters \subseteq Chunk, NEW report \in Seq(Chunk),
         NEW summary \in Chunk \ Delimiters, NEW marked \in BOOLEAN
  PROVE  /\ Contracted(report, summary, marked) \in Seq(Chunk)
         /\ Len(Contracted(report, summary, marked)) >= 3
         /\ SplitAGReport(Contracted(report, summary, marked)) = [report |-> report, summary |-> <<summary>>]
<1>1. PICK n \in Nat : n = Len(report) /\ DOMAIN report = 1..n
  BY LenProperties
<1> DEFINE block == <<"json", summary, "fence">>
           mark == <<"marker">>
<1>2. /\ block \in Seq(Chunk) /\ Len(block) = 3
      /\ block[1] = "json" /\ block[2] = summary /\ block[3] = "fence"
  BY SequenceOfThree DEF Delimiters
<1>3. mark \in Seq(Chunk) /\ Len(mark) = 1 /\ mark[1] = "marker"
  BY SequenceOfOne DEF Delimiters
<1>4. CASE marked \/ "marker" \in Range(report)
  <2> DEFINE head == report \o mark
             text == head \o block
  <2>1. Contracted(report, summary, marked) = text
    BY <1>4 DEF Contracted
  <2> HIDE DEF mark, block
  <2>2. /\ head \in Seq(Chunk) /\ Len(head) = Len(report) + Len(mark)
        /\ \A i \in 1..Len(report) : head[i] = report[i]
        /\ \A i \in 1..Len(mark) : head[Len(report) + i] = mark[i]
    BY <1>3, JoinedIs
  <2> HIDE DEF head
  <2>3. Len(head) = n + 1 /\ head[n + 1] = "marker" /\ \A i \in 1..n : head[i] = report[i]
    BY <1>1, <1>3, <2>2
  <2>4. PICK m \in Nat : m = n + 1
    OBVIOUS
  <2>5. /\ text \in Seq(Chunk) /\ Len(text) = Len(head) + Len(block)
        /\ \A i \in 1..Len(head) : text[i] = head[i]
        /\ \A i \in 1..Len(block) : text[Len(head) + i] = block[i]
    <3>1. head \in Seq(Chunk) /\ block \in Seq(Chunk)
      BY <1>2, <2>2
    <3> QED
      BY ONLY <3>1, JoinedIs
  <2> HIDE DEF text
  <2>6. text[m + 1] = "json" /\ text[m + 2] = summary /\ text[m + 3] = "fence"
    BY <1>2, <2>3, <2>4, <2>5
  <2>7. /\ Len(text) = n + 4 /\ \A i \in 1..n : text[i] = report[i]
        /\ text[n + 1] = "marker" /\ text[n + 2] = "json" /\ text[n + 3] = summary /\ text[n + 4] = "fence"
    BY <1>2, <2>3, <2>4, <2>5, <2>6
  <2>8. SplitAGReport(text) = [report |-> report, summary |-> <<summary>>]
<3>1. Len(report) = n /\ text \in Seq(Chunk)
      BY <1>1, <2>5
    <3> QED
      BY ONLY Delimiters \subseteq Chunk, <3>1, <2>7, MarkedIsSplit
  <2> QED
    BY <2>1, <2>5, <2>7, <2>8
<1>5. CASE ~(marked \/ "marker" \in Range(report))
  <2> DEFINE text == report \o block
  <2>1. Contracted(report, summary, marked) = text
    <3>1. report \o <<>> = report
      BY ConcatEmptySeq
    <3> QED
      BY <1>5, <3>1 DEF Contracted
  <2> HIDE DEF block
  <2>2. /\ text \in Seq(Chunk) /\ Len(text) = Len(report) + Len(block)
        /\ \A i \in 1..Len(report) : text[i] = report[i]
        /\ \A i \in 1..Len(block) : text[Len(report) + i] = block[i]
    <3>1. report \in Seq(Chunk) /\ block \in Seq(Chunk)
      BY <1>2
    <3> QED
      BY ONLY <3>1, JoinedIs
  <2> HIDE DEF text
  <2>3. \A i \in 1..n : report[i] # "marker"
    BY <1>1, <1>5 DEF Range
  <2>4. /\ \A i \in 1..n : text[i] = report[i] /\ text[i] # "marker"
        /\ text[n + 1] = "json" /\ text[n + 2] = summary /\ text[n + 3] = "fence" /\ Len(text) = n + 3
    BY <1>1, <1>2, <2>2, <2>3
  <2>5. SplitAGReport(text) = [report |-> report, summary |-> <<summary>>]
    <3>1. Len(report) = n /\ text \in Seq(Chunk)
      BY <1>1, <2>2
    <3> QED
      BY ONLY Delimiters \subseteq Chunk, <3>1, <2>4, UnmarkedIsSplit
  <2> QED
    BY <2>1, <2>2, <2>4, <2>5
<1> QED
  BY <1>4, <1>5

\* evalOne: whatever chunks the reports are made of, delimiters included, and whatever the
\* summaries decode to, a rating is that of the last block of the first acceptable answer,
\* with its whole report.
THEOREM RatingsAreLastBlocks ==
  ASSUME NEW Chunk, Delimiters \subseteq Chunk,
         NEW reports \in [1..3 -> Seq(Chunk)], NEW summaries \in [1..3 -> Chunk \ Delimiters],
         NEW marked \in BOOLEAN, NEW decode, DOMAIN decode \subseteq Chunk \ (Delimiters \cup {"failed"})
  PROVE  RatingIsTheLastBlocks(reports, summaries, marked, decode)
<1> DEFINE answers == [i \in 1..3 |-> IF summaries[i] = "failed" THEN CallFailed
                                      ELSE Contracted(reports[i], summaries[i], marked)]
           kept == {i \in 1..3 : summaries[i] \in DOMAIN decode /\ Acceptable(decode[summaries[i]])}
           good == {i \in 1..3 : Passes(answers[i], decode)}
           rating == EvalOne(answers, decode)
<1>1. ASSUME NEW i \in 1..3, summaries[i] # "failed"
      PROVE  /\ answers[i] # CallFailed
             /\ SplitAGReport(answers[i]) = [report |-> reports[i], summary |-> <<summaries[i]>>]
  <2>1. answers[i] = Contracted(reports[i], summaries[i], marked)
    BY <1>1
  <2>2. reports[i] \in Seq(Chunk) /\ summaries[i] \in Chunk \ Delimiters
    OBVIOUS
  <2>3. ~(Len(CallFailed) >= 3)
    BY DEF CallFailed
  <2> HIDE DEF answers
  <2>4. /\ Len(answers[i]) >= 3
        /\ SplitAGReport(answers[i]) = [report |-> reports[i], summary |-> <<summaries[i]>>]
    <3>1. /\ Len(Contracted(reports[i], summaries[i], marked)) >= 3
          /\ SplitAGReport(Contracted(reports[i], summaries[i], marked))
               = [report |-> reports[i], summary |-> <<summaries[i]>>]
      BY ONLY Delimiters \subseteq Chunk, <2>2, marked \in BOOLEAN, ContractIsSplit
    <3> QED
      BY <2>1, <3>1
  <2>5. answers[i] # CallFailed
    BY <2>3, <2>4, Zenon
  <2> QED
    BY <2>4, <2>5
<1>2. ASSUME NEW i \in 1..3, summaries[i] # "failed"
      PROVE  Passes(answers[i], decode) <=> summaries[i] \in DOMAIN decode /\ Acceptable(decode[summaries[i]])
  <2>1. Len(<<summaries[i]>>) = 1 /\ <<summaries[i]>>[1] = summaries[i] /\ <<summaries[i]>> # NoBlock
    BY SequenceOfOne DEF NoBlock
  <2> HIDE DEF answers
  <2> QED
    BY <1>1, <1>2, <2>1 DEF Passes, Decodes
<1>3. ASSUME NEW i \in 1..3, summaries[i] = "failed"
      PROVE  ~Passes(answers[i], decode) /\ summaries[i] \notin DOMAIN decode
  BY <1>3 DEF Passes
<1> HIDE DEF answers
<1>4. good = kept
  BY <1>2, <1>3
<1>5. rating.rated <=> good # {}
  BY DEF EvalOne, NoRating
<1>6. ASSUME good # {}
      PROVE  /\ rating.summary = summaries[Min(good)] /\ rating.report = reports[Min(good)]
             /\ Acceptable(decode[rating.summary]) /\ rating.score = decode[rating.summary].score
  <2>1. Min(good) \in good
    BY <1>6, FirstOfThree
  <2>2. PICK i \in 1..3 : i = Min(good) /\ summaries[i] \in DOMAIN decode /\ Acceptable(decode[summaries[i]])
    BY <2>1, <1>4
  <2>3. SplitAGReport(answers[i]) = [report |-> reports[i], summary |-> <<summaries[i]>>]
    BY <1>1, <1>3, <2>2
  <2>4. <<summaries[i]>>[1] = summaries[i]
    OBVIOUS
  <2>5. rating = [rated |-> TRUE, score |-> decode[summaries[i]].score,
                  summary |-> summaries[i], report |-> reports[i]]
    BY <1>6, <2>2, <2>3, <2>4 DEF EvalOne
  <2> HIDE DEF rating
  <2> QED
    BY <2>2, <2>5
<1>7. ASSUME good # {}
      PROVE  /\ rating.score \in 0..50
             /\ decode[rating.summary].hardStops =>
                  rating.score <= 10 /\ decode[rating.summary].decision = "hard_stop"
  <2> HIDE DEF rating, good
  <2> QED
    BY <1>6, <1>7 DEF Acceptable
<1> HIDE DEF good, kept, rating
<1> QED
  BY <1>4, <1>5, <1>6, <1>7 DEF RatingIsTheLastBlocks, answers, kept, rating

\* evalOne: whatever the three answers are and whatever they decode to, a rating is
\* that of an answer, none before which passes; its score is in range; and if its
\* summary names a hard stop, it is decided so and scored 1.0 at most.
THEOREM RatingsAreSound ==
  ASSUME NEW answers, NEW decode, EvalOne(answers, decode).rated
  PROVE  \E i \in 1..3 :
           /\ Passes(answers[i], decode)
           /\ \A j \in 1..(i - 1) : ~Passes(answers[j], decode)
           /\ LET rating == EvalOne(answers, decode)
              IN  /\ rating.summary = SplitAGReport(answers[i]).summary[1]
                  /\ rating.report = SplitAGReport(answers[i]).report
                  /\ rating.score = decode[rating.summary].score
                  /\ rating.score \in 0..50
                  /\ decode[rating.summary].hardStops =>
                       rating.score <= 10 /\ decode[rating.summary].decision = "hard_stop"
<1> DEFINE good == {i \in 1..3 : Passes(answers[i], decode)}
           split == SplitAGReport(answers[Min(good)])
           rating == EvalOne(answers, decode)
<1>1. good # {}
  BY DEF EvalOne, NoRating
<1>2. Min(good) \in good /\ \A i \in good : Min(good) <= i
  BY <1>1, FirstOfThree
<1>3. rating = [rated |-> TRUE, score |-> decode[split.summary[1]].score,
                summary |-> split.summary[1], report |-> split.report]
  BY <1>1 DEF EvalOne
<1>4. Min(good) \in 1..3 /\ Passes(answers[Min(good)], decode)
  BY <1>2
<1>5. Acceptable(decode[split.summary[1]])
  BY <1>4 DEF Passes
<1>6. \A j \in 1..(Min(good) - 1) : ~Passes(answers[j], decode)
  BY <1>2, <1>4
<1>7. /\ rating.score \in 0..50
      /\ decode[rating.summary].hardStops =>
           rating.score <= 10 /\ decode[rating.summary].decision = "hard_stop"
  <2>1. rating.summary = split.summary[1] /\ rating.score = decode[split.summary[1]].score
    BY <1>3
  <2> DEFINE s == decode[split.summary[1]]
  <2>2. s.score \in 0..50 /\ (s.hardStops => s.decision = "hard_stop" /\ s.score <= 10)
    BY <1>5, Zenon DEF Acceptable
  <2> HIDE DEF rating, split
  <2> QED
    BY <2>1, <2>2
<1>8. /\ rating.summary = split.summary[1] /\ rating.report = split.report
      /\ rating.score = decode[rating.summary].score
  BY <1>3
<1> HIDE DEF good, rating
<1> QED
  BY <1>4, <1>6, <1>7, <1>8 DEF rating

------------------------------------------------------------------------------
(* Profiles.                                                               *)

\* What a company's page and the search for it can hold, of any words.
CompanyPage(Word)  == [readable : BOOLEAN, founded : Seq(Word), website : Seq(Word), industry : Seq(Word)]
WikidataHits(Word) == Seq([founded : Seq(Word), website : Seq(Word)])

\* An answer has the values that are not missing, of one source.
LEMMA AnswerFields ==
  ASSUME NEW values, NEW source
  PROVE  /\ DOMAIN Answer(values, source) = {k \in DOMAIN values : values[k] # Missing}
         /\ \A k \in DOMAIN Answer(values, source) :
              /\ Answer(values, source)[k].value = values[k]
              /\ Answer(values, source)[k].source = source
  BY DEF Answer

\* What BuiltIn.Enrich answers: what its page says, if there is a page and it can be read.
LEMMA BuiltInSays ==
  ASSUME NEW Word, NEW page \in CompanyPage(Word), NEW docs
  PROVE  LET a == BuiltIn(page, docs)
             said == BuiltInURL(docs) /\ page.readable
         IN  /\ DOMAIN a \subseteq {"founded", "industry", "website"}
             /\ \A k \in DOMAIN a : a[k].source = "builtin"
             /\ "website" \in DOMAIN a <=> said /\ page.website # Missing
             /\ "website" \in DOMAIN a => a["website"].value = page.website
             /\ "industry" \in DOMAIN a <=> said /\ page.industry # Missing
             /\ "industry" \in DOMAIN a => a["industry"].value = page.industry
<1> DEFINE v == [founded |-> page.founded, industry |-> page.industry, website |-> page.website]
<1> page.readable \in BOOLEAN
  BY DEF CompanyPage
<1>1. DOMAIN v = {"founded", "industry", "website"} /\ v["website"] = page.website /\ v["industry"] = page.industry
  OBVIOUS
<1>2. CASE BuiltInURL(docs) /\ page.readable
  <2>1. BuiltIn(page, docs) = Answer(v, "builtin")
    BY <1>2 DEF BuiltIn
  <2>2. /\ DOMAIN Answer(v, "builtin") = {k \in DOMAIN v : v[k] # Missing}
        /\ \A k \in DOMAIN Answer(v, "builtin") :
             /\ Answer(v, "builtin")[k].value = v[k]
             /\ Answer(v, "builtin")[k].source = "builtin"
    <3> HIDE DEF v
    <3> QED
      BY DEF Answer
  <2> HIDE DEF v
  <2> QED
    BY <1>1, <1>2, <2>1, <2>2
<1>3. CASE ~(BuiltInURL(docs) /\ page.readable)
  <2>1. BuiltIn(page, docs) = Nothing
    BY <1>3 DEF BuiltIn
  <2>2. DOMAIN Nothing = {}
    BY DEF Nothing
  <2> QED
    BY <1>3, <2>1, <2>2
<1> QED
  BY <1>2, <1>3

\* What Wikidata.Enrich answers: nothing, or the values of one hit that suits the domain.
LEMMA WikidataSays ==
  ASSUME NEW Word, NEW hits \in WikidataHits(Word), NEW domain
  PROVE  LET a == Wikidata(hits, domain)
         IN  \/ DOMAIN a = {}
             \/ \E i \in Suits(hits, domain) :
                  /\ DOMAIN a \subseteq {"founded", "website"}
                  /\ "website" \in DOMAIN a
                  /\ \A k \in DOMAIN a : a[k].source = "wikidata" /\ a[k].value = hits[i][k]
<1> DEFINE suits == Suits(hits, domain)
           chosen == CHOOSE i \in suits : \A j \in suits : i <= j
           v == [founded |-> hits[chosen].founded, website |-> hits[chosen].website]
<1>1. CASE suits = {}
  <2>1. Wikidata(hits, domain) = Nothing
    BY <1>1 DEF Wikidata
  <2>2. DOMAIN Nothing = {}
    BY DEF Nothing
  <2> QED
    BY <2>1, <2>2
<1>2. CASE suits # {}
  <2>1. suits \in SUBSET Nat
    BY LenProperties DEF Suits, WikidataHits
  <2>2. chosen \in suits
    BY <1>2, <2>1, LeastNumber
  <2>3. Wikidata(hits, domain) = Answer(v, "wikidata")
    BY <1>2 DEF Wikidata
  <2>4. DOMAIN v = {"founded", "website"}
    OBVIOUS
  <2>5. v["founded"] = hits[chosen]["founded"] /\ v["website"] = hits[chosen]["website"]
    OBVIOUS
  <2>6. v["website"] # Missing
    BY <2>2 DEF Suits
  <2>7. /\ DOMAIN Answer(v, "wikidata") = {k \in DOMAIN v : v[k] # Missing}
        /\ \A k \in DOMAIN Answer(v, "wikidata") :
             /\ Answer(v, "wikidata")[k].value = v[k]
             /\ Answer(v, "wikidata")[k].source = "wikidata"
    <3> HIDE DEF v
    <3> QED
      BY DEF Answer
  <2> HIDE DEF v, suits, chosen
  <2>8. /\ DOMAIN Answer(v, "wikidata") \subseteq {"founded", "website"}
        /\ "website" \in DOMAIN Answer(v, "wikidata")
    BY <2>4, <2>6, <2>7
  <2>9. \A k \in DOMAIN Answer(v, "wikidata") : Answer(v, "wikidata")[k].value = hits[chosen][k]
    BY <2>4, <2>5, <2>7
  <2> QED
    BY <2>2, <2>3, <2>7, <2>8, <2>9 DEF suits
<1> QED
  BY <1>1, <1>2

\* What EDGAR.Enrich answers: a stage at most.
LEMMA EDGARSays ==
  ASSUME NEW listed \in BOOLEAN
  PROVE  /\ DOMAIN EDGAR(listed) \subseteq {"stage"}
         /\ \A k \in DOMAIN EDGAR(listed) : EDGAR(listed)[k].source = "sec_edgar"
<1> DEFINE v == [stage |-> <<"public">>]
<1>1. DOMAIN v = {"stage"}
  OBVIOUS
<1>2. EDGAR(listed) = Answer(v, "sec_edgar") \/ EDGAR(listed) = Nothing
  BY DEF EDGAR
<1>3. DOMAIN Nothing = {}
  BY DEF Nothing
<1>4. /\ DOMAIN Answer(v, "sec_edgar") = {k \in DOMAIN v : v[k] # Missing}
      /\ \A k \in DOMAIN Answer(v, "sec_edgar") : Answer(v, "sec_edgar")[k].source = "sec_edgar"
  <2> HIDE DEF v
  <2> QED
    BY DEF Answer
<1> HIDE DEF v
<1> QED
  BY <1>1, <1>2, <1>3, <1>4

\* What the derivation from postings answers: a hiring system at most.
LEMMA ATSSays ==
  ASSUME NEW docs
  PROVE  /\ DOMAIN ATS(docs) \subseteq {"ats"}
         /\ \A k \in DOMAIN ATS(docs) : ATS(docs)[k].source = "hh_derived"
<1> DEFINE named == {i \in DOMAIN docs : docs[i].ats # Missing}
           v == [ats |-> docs[CHOOSE i \in named : \A j \in named : i <= j].ats]
<1>1. DOMAIN v = {"ats"}
  OBVIOUS
<1>2. ATS(docs) = Answer(v, "hh_derived") \/ ATS(docs) = Nothing
  BY DEF ATS
<1>3. DOMAIN Nothing = {}
  BY DEF Nothing
<1>4. /\ DOMAIN Answer(v, "hh_derived") = {k \in DOMAIN v : v[k] # Missing}
      /\ \A k \in DOMAIN Answer(v, "hh_derived") : Answer(v, "hh_derived")[k].source = "hh_derived"
  <2> HIDE DEF v
  <2> QED
    BY DEF Answer
<1> HIDE DEF v
<1> QED
  BY <1>1, <1>2, <1>3, <1>4

\* A merge field by field, and the domain it leaves (enrich.Assemble).
LEMMA MergeFields ==
  ASSUME NEW prof, NEW answer
  PROVE  LET fields == Merge(prof, answer).fields
         IN  /\ DOMAIN fields = DOMAIN prof.fields \cup DOMAIN answer
             /\ \A k \in DOMAIN fields :
                  fields[k] = IF k \in DOMAIN answer /\ (k \in DOMAIN prof.fields =>
                                   Authority(answer[k].source) > Authority(prof.fields[k].source))
                              THEN answer[k] ELSE prof.fields[k]
             /\ Merge(prof, answer).domain
                  = IF "website" \in DOMAIN answer /\ prof.domain = NoHost
                    THEN HostOf(answer["website"].value) ELSE prof.domain
  BY DEF Merge, Better

\* Each source, its answer put in over those before it.
LEMMA Assembled ==
  ASSUME NEW Word, NEW page \in CompanyPage(Word), NEW hits \in WikidataHits(Word), NEW listed \in BOOLEAN, NEW docs,
         NEW b, NEW w, NEW e, NEW a,
         b = BuiltIn(page, docs), w = Wikidata(hits, Merge(Profile0, b).domain),
         e = EDGAR(listed), a = ATS(docs)
  PROVE  LET prof == Assemble(page, hits, listed, docs)
         IN  /\ DOMAIN prof.fields = DOMAIN b \cup DOMAIN w \cup DOMAIN e \cup DOMAIN a
             /\ \A k \in DOMAIN a : prof.fields[k] = a[k]
             /\ \A k \in DOMAIN e : prof.fields[k] = e[k]
             /\ \A k \in DOMAIN w : prof.fields[k] = w[k]
             /\ \A k \in DOMAIN b \ DOMAIN w : prof.fields[k] = b[k]
             /\ Merge(Profile0, b).domain
                  = IF "website" \in DOMAIN b THEN HostOf(b["website"].value) ELSE NoHost
             /\ prof.domain = IF "website" \in DOMAIN b /\ HostOf(b["website"].value) # NoHost
                              THEN HostOf(b["website"].value)
                              ELSE IF "website" \in DOMAIN w THEN HostOf(w["website"].value) ELSE NoHost
<1> DEFINE p1 == Merge(Profile0, b)
           p2 == Merge(p1, w)
           p3 == Merge(p2, e)
           p4 == Merge(p3, a)
<1>1. Assemble(page, hits, listed, docs) = p4
  BY DEF Assemble
<1>2. DOMAIN Profile0.fields = {} /\ Profile0.domain = NoHost
  BY DEF Profile0
<1>3. /\ DOMAIN b \subseteq {"founded", "industry", "website"}
      /\ \A k \in DOMAIN b : Authority(b[k].source) = 2
  BY BuiltInSays DEF Authority
<1>4. /\ DOMAIN w \subseteq {"founded", "website"}
      /\ \A k \in DOMAIN w : Authority(w[k].source) = 3
  BY WikidataSays DEF Authority
<1>5. DOMAIN e \subseteq {"stage"} /\ DOMAIN a \subseteq {"ats"}
  BY EDGARSays, ATSSays
<1>6. /\ DOMAIN p1.fields = DOMAIN b /\ \A k \in DOMAIN b : p1.fields[k] = b[k]
      /\ p1.domain = IF "website" \in DOMAIN b THEN HostOf(b["website"].value) ELSE NoHost
  <2>1. /\ DOMAIN p1.fields = DOMAIN Profile0.fields \cup DOMAIN b
        /\ \A k \in DOMAIN p1.fields :
             p1.fields[k] = IF k \in DOMAIN b /\ (k \in DOMAIN Profile0.fields =>
                                 Authority(b[k].source) > Authority(Profile0.fields[k].source))
                            THEN b[k] ELSE Profile0.fields[k]
        /\ p1.domain = IF "website" \in DOMAIN b /\ Profile0.domain = NoHost
                       THEN HostOf(b["website"].value) ELSE Profile0.domain
    BY MergeFields
  <2> HIDE DEF p1
  <2> QED
    BY <1>2, <2>1
<1>7. /\ DOMAIN p2.fields = DOMAIN b \cup DOMAIN w
      /\ \A k \in DOMAIN w : p2.fields[k] = w[k]
      /\ \A k \in DOMAIN b \ DOMAIN w : p2.fields[k] = b[k]
      /\ p2.domain = IF "website" \in DOMAIN w /\ p1.domain = NoHost
                     THEN HostOf(w["website"].value) ELSE p1.domain
  <2> HIDE DEF p1
  <2>1. \A k \in DOMAIN w : k \in DOMAIN p1.fields => Authority(w[k].source) > Authority(p1.fields[k].source)
    BY <1>3, <1>4, <1>6
  <2> HIDE DEF p2
  <2> QED
    BY <1>6, <2>1, MergeFields DEF p2
<1>8. /\ DOMAIN p3.fields = DOMAIN p2.fields \cup DOMAIN e
      /\ \A k \in DOMAIN e : p3.fields[k] = e[k]
      /\ \A k \in DOMAIN p2.fields : p3.fields[k] = p2.fields[k]
      /\ p3.domain = p2.domain
  <2> HIDE DEF p1, p2, p3
  <2>1. DOMAIN p2.fields \cap DOMAIN e = {} /\ "website" \notin DOMAIN e
    BY <1>3, <1>4, <1>5, <1>7
  <2> QED
    BY <2>1, MergeFields DEF p3
<1>9. /\ DOMAIN p4.fields = DOMAIN p3.fields \cup DOMAIN a
      /\ \A k \in DOMAIN a : p4.fields[k] = a[k]
      /\ \A k \in DOMAIN p3.fields : p4.fields[k] = p3.fields[k]
      /\ p4.domain = p3.domain
  <2> HIDE DEF p1, p2, p3, p4
  <2>1. DOMAIN p3.fields \cap DOMAIN a = {} /\ "website" \notin DOMAIN a
    BY <1>3, <1>4, <1>5, <1>7, <1>8
  <2> QED
    BY <2>1, MergeFields DEF p4
<1>10. Merge(Profile0, b).domain
          = IF "website" \in DOMAIN b THEN HostOf(b["website"].value) ELSE NoHost
  BY <1>6
<1> HIDE DEF p1, p2, p3, p4
<1> QED
  BY <1>1, <1>6, <1>7, <1>8, <1>9, <1>10

\* enrich.Assemble: for every page, every answer to the search and every posting, each field
\* has the value of the most authoritative source that gave one, and nothing else is in.
THEOREM ProfilesHaveTheBest ==
  ASSUME NEW Word, NEW page \in CompanyPage(Word), NEW hits \in WikidataHits(Word), NEW listed \in BOOLEAN,
         NEW docs
  PROVE  BestSourceWins(page, hits, listed, docs)
<1> DEFINE b == BuiltIn(page, docs)
           w == Wikidata(hits, Merge(Profile0, b).domain)
           e == EDGAR(listed)
           a == ATS(docs)
           prof == Assemble(page, hits, listed, docs)
<1>1. /\ DOMAIN prof.fields = DOMAIN b \cup DOMAIN w \cup DOMAIN e \cup DOMAIN a
      /\ \A k \in DOMAIN a : prof.fields[k] = a[k]
      /\ \A k \in DOMAIN e : prof.fields[k] = e[k]
      /\ \A k \in DOMAIN w : prof.fields[k] = w[k]
      /\ \A k \in DOMAIN b \ DOMAIN w : prof.fields[k] = b[k]
  <2> HIDE DEF prof
  <2> QED
    BY Assembled DEF prof
<1>2. /\ DOMAIN b \subseteq {"founded", "industry", "website"}
      /\ \A k \in DOMAIN b : Authority(b[k].source) = 2
  BY BuiltInSays DEF Authority
<1>3. /\ DOMAIN w \subseteq {"founded", "website"}
      /\ \A k \in DOMAIN w : Authority(w[k].source) = 3
  BY WikidataSays DEF Authority
<1>4. /\ DOMAIN e \subseteq {"stage"} /\ \A k \in DOMAIN e : Authority(e[k].source) = 4
      /\ DOMAIN a \subseteq {"ats"} /\ \A k \in DOMAIN a : Authority(a[k].source) = 2
  BY EDGARSays, ATSSays DEF Authority
<1>5. DeriveFlags(prof) # {} <=> BuiltInURL(docs) /\ page.readable /\ page.industry = <<"gambling">>
  <2>1. /\ "industry" \in DOMAIN b <=> BuiltInURL(docs) /\ page.readable /\ page.industry # Missing
        /\ "industry" \in DOMAIN b => b["industry"].value = page.industry
    BY BuiltInSays
  <2>2. "industry" \in DOMAIN prof.fields <=> "industry" \in DOMAIN b
    BY <1>1, <1>3, <1>4
  <2>3. "industry" \in DOMAIN b => prof.fields["industry"].value = page.industry
    BY <1>1, <1>3, <2>1
  <2>4. <<"gambling">> # Missing
    BY DEF Missing
  <2>5. DeriveFlags(prof) # {} <=> "industry" \in DOMAIN prof.fields /\ prof.fields["industry"].value = <<"gambling">>
    BY DEF DeriveFlags
  <2>6. page.readable \in BOOLEAN
    BY DEF CompanyPage
  <2> HIDE DEF prof, b
  <2> QED
    BY <2>1, <2>2, <2>3, <2>4, <2>5, <2>6
<1> HIDE DEF b, w, e, a, prof
<1>6. ASSUME NEW k \in DOMAIN prof.fields
      PROVE  /\ \E x \in {b, w, e, a} : k \in DOMAIN x /\ prof.fields[k] = x[k]
             /\ \A x \in {b, w, e, a} : k \in DOMAIN x => Authority(x[k].source) <= Authority(prof.fields[k].source)
  BY <1>1, <1>2, <1>3, <1>4
<1>7. UNION {DOMAIN x : x \in {b, w, e, a}} = DOMAIN b \cup DOMAIN w \cup DOMAIN e \cup DOMAIN a
  OBVIOUS
<1> QED
  BY <1>1, <1>5, <1>6, <1>7 DEF BestSourceWins, b, w, e, a, prof

\* A site with a host is on its own host.
LEMMA SameHostReflexive ==
  ASSUME NEW Word, NEW site \in Seq(Word), HostOf(site) # NoHost
  PROVE  HostOf(site) = site /\ SameHost(site, site)
<1>1. HostOf(site) = site
  BY DEF HostOf, NoHost
<1>2. Reverse(site) \in Seq(Word)
  BY DEF Reverse
<1>3. IsPrefix(Reverse(site), Reverse(site))
  <2> DEFINE r == Reverse(site)
  <2> HIDE DEF r
  <2>1. Len(r) \in Nat
    BY <1>2, LenProperties DEF r
  <2> QED
    BY <2>1 DEF IsPrefix, r
<1> QED
  BY <1>1, <1>3 DEF SameHost, IsSuffix

\* enrich.Assemble: for every page, every answer to the search and every posting, what
\* Wikidata adds is of one entity, of the site that Built In named if it named one, and
\* the domain is that of the website in the profile.
THEOREM ProfilesAreOfOne ==
  ASSUME NEW Word, NEW page \in CompanyPage(Word), NEW hits \in WikidataHits(Word), NEW listed \in BOOLEAN,
         NEW docs
  PROVE  FactsAreOfOneCompany(page, hits, listed, docs)
<1> DEFINE b == BuiltIn(page, docs)
           domain == Merge(Profile0, b).domain
           w == Wikidata(hits, domain)
           e == EDGAR(listed)
           a == ATS(docs)
           prof == Assemble(page, hits, listed, docs)
           builtin == /\ BuiltInURL(docs) /\ page.readable
                      /\ page.website # Missing /\ HostOf(page.website) # NoHost
           theirs == {key \in DOMAIN prof.fields : prof.fields[key].source = "wikidata"}
<1>1. /\ DOMAIN prof.fields = DOMAIN b \cup DOMAIN w \cup DOMAIN e \cup DOMAIN a
      /\ \A k \in DOMAIN a : prof.fields[k] = a[k]
      /\ \A k \in DOMAIN e : prof.fields[k] = e[k]
      /\ \A k \in DOMAIN w : prof.fields[k] = w[k]
      /\ \A k \in DOMAIN b \ DOMAIN w : prof.fields[k] = b[k]
      /\ domain = IF "website" \in DOMAIN b THEN HostOf(b["website"].value) ELSE NoHost
      /\ prof.domain = IF "website" \in DOMAIN b /\ HostOf(b["website"].value) # NoHost
                       THEN HostOf(b["website"].value)
                       ELSE IF "website" \in DOMAIN w THEN HostOf(w["website"].value) ELSE NoHost
  <2> HIDE DEF prof
  <2> QED
    BY Assembled DEF prof
<1>2. /\ DOMAIN b \subseteq {"founded", "industry", "website"}
      /\ \A k \in DOMAIN b : b[k].source = "builtin"
      /\ "website" \in DOMAIN b <=> BuiltInURL(docs) /\ page.readable /\ page.website # Missing
      /\ "website" \in DOMAIN b => b["website"].value = page.website
  BY BuiltInSays
<1>3. \/ DOMAIN w = {}
      \/ \E i \in Suits(hits, domain) :
           /\ DOMAIN w \subseteq {"founded", "website"}
           /\ "website" \in DOMAIN w
           /\ \A k \in DOMAIN w : w[k].source = "wikidata" /\ w[k].value = hits[i][k]
  <2> HIDE DEF domain
  <2> QED
    BY WikidataSays
<1>4. /\ DOMAIN e \subseteq {"stage"} /\ \A k \in DOMAIN e : e[k].source = "sec_edgar"
      /\ DOMAIN a \subseteq {"ats"} /\ \A k \in DOMAIN a : a[k].source = "hh_derived"
  BY EDGARSays, ATSSays
<1>5. \A i \in Suits(hits, domain) : i \in DOMAIN hits /\ (domain # NoHost => SameHost(hits[i].website, domain))
  BY DEF Suits
<1>6. /\ page.website \in Seq(Word) /\ page.readable \in BOOLEAN
      /\ \A i \in DOMAIN hits : hits[i].website \in Seq(Word) /\ hits[i].website = hits[i]["website"]
  <2>1. page.website \in Seq(Word) /\ page.readable \in BOOLEAN
    BY DEF CompanyPage
  <2>2. ASSUME NEW i \in DOMAIN hits PROVE hits[i].website \in Seq(Word) /\ hits[i].website = hits[i]["website"]
    <3>1. hits[i] \in [founded : Seq(Word), website : Seq(Word)]
      BY <2>2, ElementOfSeq, LenProperties DEF WikidataHits
    <3> QED
      BY <3>1
  <2> QED
    BY <2>1, <2>2
<1>7. builtin => "website" \in DOMAIN b /\ domain = page.website /\ domain # NoHost
  BY <1>1, <1>2, <1>6, SameHostReflexive
<1>8. DOMAIN w \cap (DOMAIN e \cup DOMAIN a) = {} /\ DOMAIN b \cap (DOMAIN e \cup DOMAIN a) = {}
  BY <1>2, <1>3, <1>4
<1> HIDE DEF b, w, e, a, domain, prof, builtin
<1>9. theirs = DOMAIN w
  <2>1. \A k \in DOMAIN w : k \in theirs
    BY <1>1, <1>3
  <2>2. \A k \in theirs : k \in DOMAIN w
    BY <1>1, <1>2, <1>4
  <2> HIDE DEF theirs
  <2> QED
    BY <2>1, <2>2 DEF theirs
<1> HIDE DEF theirs
<1>10. theirs # {} =>
         \E i \in DOMAIN hits :
           /\ \A key \in theirs : prof.fields[key].value = hits[i][key]
           /\ builtin => SameHost(hits[i].website, page.website)
  BY <1>1, <1>3, <1>5, <1>7, <1>9
<1>11. CASE "website" \in DOMAIN w
  <2>1. PICK i \in Suits(hits, domain) : w["website"].value = hits[i].website
    BY <1>3, <1>5, <1>6, <1>11
  <2>2. prof.fields["website"].value = hits[i].website /\ hits[i].website \in Seq(Word)
    BY <1>1, <1>5, <1>6, <1>11, <2>1
  <2>3. domain # NoHost => prof.domain = domain /\ SameHost(hits[i].website, domain)
    BY <1>1, <1>5
  <2>4. domain = NoHost => prof.domain = HostOf(hits[i].website)
    BY <1>1, <1>11, <2>1
  <2> QED
    BY <1>11, <2>1, <2>2, <2>3, <2>4, <1>1, <1>10, SameHostReflexive
       DEF FactsAreOfOneCompany, theirs, prof, builtin
<1>12. CASE "website" \notin DOMAIN w
  <2>1. prof.domain = domain
    BY <1>1, <1>12
  <2>2. domain # NoHost => /\ "website" \in DOMAIN b /\ prof.fields["website"].value = page.website
                           /\ HostOf(page.website) = domain
    BY <1>1, <1>2, <1>12
  <2>3. domain = NoHost /\ "website" \in DOMAIN prof.fields => HostOf(prof.fields["website"].value) = NoHost
    BY <1>1, <1>2, <1>4, <1>12
  <2> QED
    BY <2>1, <2>2, <2>3, <1>6, <1>10, SameHostReflexive
       DEF FactsAreOfOneCompany, theirs, prof, builtin
<1> QED
  BY <1>11, <1>12

------------------------------------------------------------------------------
(* Trackers.                                                                *)

\* The k-th of consecutive places.
LEMMA KthOfInterval ==
  ASSUME NEW lo \in Int, NEW hi \in Int, NEW k \in Nat \ {0}, lo + k - 1 <= hi
  PROVE  Kth(k, lo..hi) = lo + k - 1
<1>1. ASSUME NEW i \in lo..hi PROVE Cardinality({j \in lo..hi : j <= i}) = i - lo + 1
  <2>1. {j \in lo..hi : j <= i} = lo..i
    OBVIOUS
  <2>2. lo \in Int /\ i \in Int /\ lo <= i
    OBVIOUS
  <2>3. Cardinality(lo..i) = i - lo + 1
    BY <2>2, FS_Interval
  <2> QED
    BY <2>1, <2>3
<1>2. lo + k - 1 \in lo..hi
  OBVIOUS
<1>3. \E i \in lo..hi : Cardinality({j \in lo..hi : j <= i}) = k
  <2>1. PICK i \in lo..hi : i = lo + k - 1
    BY <1>2
  <2>2. Cardinality({j \in lo..hi : j <= i}) = i - lo + 1
    BY <1>1
  <2>3. i - lo + 1 = k
    BY <2>1
  <2> QED
    BY <2>2, <2>3
<1>4. /\ Kth(k, lo..hi) \in lo..hi
      /\ Cardinality({j \in lo..hi : j <= Kth(k, lo..hi)}) = k
  BY <1>3 DEF Kth
<1> QED
  BY <1>1, <1>4

\* A row without a company and a role is left out.
Names(read) == read.company # "" \/ read.role # ""

\* The first table of a tracker: its header, at h, the line under it, n rows of roles
\* and, if anything is behind it, a line that is no row.
IsTable(lines, h, n, dates, scores) ==
  /\ Len(lines) >= h + n + 1
  /\ \A i \in 1..(h - 1) : ~IsHeader(lines[i])
  /\ IsHeader(lines[h])
  /\ IsRow(lines[h + 1]) /\ IsSeparator(lines[h + 1])
  /\ \A i \in (h + 2)..(h + n + 1) :
       /\ IsRow(lines[i]) /\ ~IsSeparator(lines[i])
       /\ Names(ReadRow(lines[i], lines[h], dates, scores))
  /\ Len(lines) = h + n + 1 \/ ~IsRow(lines[h + n + 2])

\* A table is read as its rows, whatever is in front of its header and behind it.
LEMMA TableIsRead ==
  ASSUME NEW Line, NEW lines \in Seq(Line), NEW dates, NEW scores, NEW h \in Nat \ {0}, NEW n \in Nat,
         IsTable(lines, h, n, dates, scores)
  PROVE  ParseTracker(lines, dates, scores)
           = [k \in 1..n |-> ReadRow(lines[h + 1 + k], lines[h], dates, scores)]
<1> DEFINE headers == {i \in DOMAIN lines : IsHeader(lines[i])}
           ends    == {i \in DOMAIN lines : i > h /\ ~IsRow(lines[i])}
           last    == IF ends = {} THEN Len(lines) ELSE Min(ends) - 1
           Read(i) == ReadRow(lines[i], lines[h], dates, scores)
           Good(i) == ~IsSeparator(lines[i]) /\ Names(Read(i))
           kept    == {i \in (h + 1)..last : Good(i)}
<1>1. Len(lines) \in Nat /\ DOMAIN lines = 1..Len(lines) /\ Len(lines) >= h + n + 1
  BY LenProperties DEF IsTable
<1>2. /\ \A i \in 1..(h - 1) : ~IsHeader(lines[i])
      /\ IsHeader(lines[h])
      /\ Len(lines) = h + n + 1 \/ ~IsRow(lines[h + n + 2])
  BY DEF IsTable
<1>3. /\ IsRow(lines[h + 1]) /\ ~Good(h + 1)
      /\ \A i \in (h + 2)..(h + n + 1) : IsRow(lines[i]) /\ Good(i)
  BY DEF IsTable
<1> HIDE DEF Good
<1>11. /\ h \in DOMAIN lines /\ DOMAIN lines \subseteq Int
       /\ (Len(lines) # h + n + 1 => h + n + 2 \in DOMAIN lines) /\ h + n + 2 > h
  <2>1. PICK L \in Nat : L = Len(lines) /\ DOMAIN lines = 1..L /\ L >= h + n + 1
    BY <1>1
  <2>2. h \in 1..L /\ 1..L \subseteq Int /\ (L # h + n + 1 => h + n + 2 \in 1..L) /\ h + n + 2 > h
    BY ONLY L \in Nat, h \in Nat \ {0}, n \in Nat, <2>1
  <2> QED
    BY <2>1, <2>2
<1>4. Min(headers) = h
  <2>1. h \in headers /\ headers \in SUBSET Int
    BY <1>2, <1>11
  <2>2. \A i \in headers : h <= i
    <3>1. \A i \in 1..Len(lines) : i < h => i \in 1..(h - 1)
      OBVIOUS
    <3>2. \A i \in 1..Len(lines) : i < h \/ h <= i
      OBVIOUS
    <3> QED
      BY <1>1, <1>2, <3>1, <3>2
  <2> HIDE DEF headers
  <2> QED
    BY <2>1, <2>2, MinIs
<1>5. last = h + n + 1
  <2>1. \A i \in (h + 1)..(h + n + 1) : IsRow(lines[i])
    <3>1. \A i \in (h + 1)..(h + n + 1) : i = h + 1 \/ i \in (h + 2)..(h + n + 1)
      OBVIOUS
    <3> QED
      BY <1>3, <3>1
  <2>2. CASE Len(lines) = h + n + 1
    <3>1. ends = {}
      BY <1>1, <2>1, <2>2
    <3> QED
      BY <2>2, <3>1
  <2>3. CASE Len(lines) # h + n + 1
    <3>1. h + n + 2 \in ends /\ ends \in SUBSET Int
      BY <1>2, <1>11, <2>3
    <3>2. \A i \in ends : h + n + 2 <= i
      BY <1>1, <2>1
    <3>3. Min(ends) = h + n + 2
      <4> HIDE DEF ends
      <4> QED
        BY <3>1, <3>2, MinIs
    <3> QED
      BY <3>1, <3>3
  <2> QED
    BY <2>2, <2>3
<1>6. kept = (h + 2)..(h + n + 1)
  <2>1. \A i \in (h + 1)..(h + n + 1) : i = h + 1 \/ i \in (h + 2)..(h + n + 1)
    OBVIOUS
  <2>2. \A i \in (h + 2)..(h + n + 1) : i \in (h + 1)..(h + n + 1)
    OBVIOUS
  <2> HIDE DEF last
  <2> QED
    BY <1>3, <1>5, <2>1, <2>2
<1>7. ParseTracker(lines, dates, scores) = [k \in 1..Cardinality(kept) |-> Read(Kth(k, kept))]
  <2>1. headers # {}
    BY <1>2, <1>11
  <2> QED
    BY <1>4, <2>1 DEF ParseTracker, Good, Names
<1> HIDE DEF kept
<1>8. PICK lo \in Int, hi \in Int : lo = h + 2 /\ hi = h + n + 1
  OBVIOUS
<1>9. Cardinality(kept) = n
  <2>1. Cardinality(lo..hi) = IF lo > hi THEN 0 ELSE hi - lo + 1
    BY FS_Interval
  <2> QED
    BY <1>6, <1>8, <2>1
<1>10. ASSUME NEW k \in 1..n PROVE Kth(k, kept) = h + 1 + k
  <2>1. k \in Nat \ {0} /\ lo + k - 1 <= hi
    BY <1>8
  <2>2. Kth(k, lo..hi) = lo + k - 1
    BY ONLY lo \in Int, hi \in Int, <2>1, KthOfInterval
  <2> QED
    BY <1>6, <1>8, <2>2
<1> QED
  BY <1>7, <1>9, <1>10

\* Where the columns of a tracker without dates are.
LEMMA UndatedColumns ==
  LET header == Header("undated")
  IN  /\ ColIndex(header, "#") = 1 /\ ColIndex(header, "company") = 2 /\ ColIndex(header, "role") = 3
      /\ ColIndex(header, "score") = 4 /\ ColIndex(header, "status") = 5
      /\ ~Has(header, "date") /\ IsHeader(header)
<1> DEFINE header == <<"#", "company", "role", "score", "status">>
<1>1. Header("undated") = header
  BY DEF Header
<1>2. ASSUME NEW name, NEW m \in 1..5, {i \in DOMAIN header : header[i] = name} = {m}
      PROVE  LastAt(name, header) = m
  <2>1. PICK S : S = {Nowhere, m}
    OBVIOUS
  <2>2. S \in SUBSET Int /\ m \in S /\ \A k \in S : k <= m
    BY <2>1 DEF Nowhere
  <2>3. Max(S) = m
    BY <2>2, MaxIs
  <2>4. {Nowhere} \cup {i \in DOMAIN header : header[i] = name} = S
    BY <1>2, <2>1
  <2> QED
    BY <2>3, <2>4 DEF LastAt
<1>3. /\ {i \in DOMAIN header : header[i] = "#"} = {1}
      /\ {i \in DOMAIN header : header[i] = "company"} = {2}
      /\ {i \in DOMAIN header : header[i] = "role"} = {3}
      /\ {i \in DOMAIN header : header[i] = "score"} = {4}
      /\ {i \in DOMAIN header : header[i] = "status"} = {5}
  OBVIOUS
<1>4. LastAt("#", header) = 1 /\ LastAt("company", header) = 2 /\ LastAt("role", header) = 3
      /\ LastAt("score", header) = 4 /\ LastAt("status", header) = 5
  <2> HIDE DEF header
  <2> QED
    BY <1>2, <1>3
<1>5. ~Has(header, "date") /\ IsHeader(header)
  BY DEF Has, IsHeader, IsRow, Prose, Range
<1> QED
  BY <1>1, <1>4, <1>5 DEF ColIndex

\* Where the columns of a tracker with dates are.
LEMMA DatedColumns ==
  LET header == Header("dated")
  IN  /\ ColIndex(header, "#") = 1 /\ ColIndex(header, "date") = 2 /\ ColIndex(header, "company") = 3
      /\ ColIndex(header, "role") = 4 /\ ColIndex(header, "score") = 5 /\ ColIndex(header, "status") = 6
      /\ Has(header, "date") /\ IsHeader(header)
<1> DEFINE header == <<"#", "date", "company", "role", "score", "status">>
<1>1. Header("dated") = header
  BY DEF Header
<1>2. ASSUME NEW name, NEW m \in 1..6, {i \in DOMAIN header : header[i] = name} = {m}
      PROVE  LastAt(name, header) = m
  <2>1. PICK S : S = {Nowhere, m}
    OBVIOUS
  <2>2. S \in SUBSET Int /\ m \in S /\ \A k \in S : k <= m
    BY <2>1 DEF Nowhere
  <2>3. Max(S) = m
    BY <2>2, MaxIs
  <2>4. {Nowhere} \cup {i \in DOMAIN header : header[i] = name} = S
    BY <1>2, <2>1
  <2> QED
    BY <2>3, <2>4 DEF LastAt
<1>3. /\ {i \in DOMAIN header : header[i] = "#"} = {1}
      /\ {i \in DOMAIN header : header[i] = "date"} = {2}
      /\ {i \in DOMAIN header : header[i] = "company"} = {3}
      /\ {i \in DOMAIN header : header[i] = "role"} = {4}
      /\ {i \in DOMAIN header : header[i] = "score"} = {5}
      /\ {i \in DOMAIN header : header[i] = "status"} = {6}
  OBVIOUS
<1>4. LastAt("#", header) = 1 /\ LastAt("date", header) = 2 /\ LastAt("company", header) = 3
      /\ LastAt("role", header) = 4 /\ LastAt("score", header) = 5 /\ LastAt("status", header) = 6
  <2> HIDE DEF header
  <2> QED
    BY <1>2, <1>3
<1>5. Has(header, "date") /\ IsHeader(header)
  BY DEF Has, IsHeader, IsRow, Prose, Range
<1> QED
  BY <1>1, <1>4, <1>5 DEF ColIndex

\* What a role is read back as.
Kept(role, layout, scores) ==
  [num |-> role.num, company |-> role.company, role |-> role.role,
   score |-> ParseScore(role.scoreCell, scores), status |-> NormStatus(role.status),
   date |-> IF layout = "undated" THEN "none" ELSE role.date]

\* A role of a tracker: its date is one or missing, its company is no date, and its
\* company or its title says something.
Role(Cell, dates) ==
  {role \in [num : Cell, date : dates \cup {"none"}, company : Cell \ dates, role : Cell,
             scoreCell : Cell, status : Cell] :
     role.company \notin {"", "---"} \/ role.role \notin {"", "---"}}

\* A row without a date is read as its role.
LEMMA UndatedRow ==
  ASSUME NEW Cell, NEW dates, NEW scores, NEW role \in Role(Cell, dates)
  PROVE  LET row == Written(role, "undated")
         IN  /\ IsRow(row) /\ ~IsSeparator(row)
             /\ ReadRow(row, Header("undated"), dates, scores) = Kept(role, "undated", scores)
<1> DEFINE row == <<role.num, role.company, role.role, role.scoreCell, role.status>>
           header == Header("undated")
<1>1. Written(role, "undated") = row
  BY DEF Written
<1>2. IsRow(row)
  BY DEF IsRow, Prose
<1>3. ~IsSeparator(row)
  <2>1. row[2] \in Range(row) /\ row[3] \in Range(row)
    BY DEF Range
  <2>2. row[2] = role.company /\ row[3] = role.role
    OBVIOUS
  <2> HIDE DEF row
  <2> QED
    BY <2>1, <2>2 DEF IsSeparator, Role
<1>4. /\ CellAt(row, 1) = role.num /\ CellAt(row, 2) = role.company /\ CellAt(row, 3) = role.role
      /\ CellAt(row, 4) = role.scoreCell /\ CellAt(row, 5) = role.status
  BY DEF CellAt
<1>5. /\ ColIndex(header, "#") = 1 /\ ColIndex(header, "company") = 2 /\ ColIndex(header, "role") = 3
      /\ ColIndex(header, "score") = 4 /\ ColIndex(header, "status") = 5 /\ ~Has(header, "date")
  BY UndatedColumns
<1> HIDE DEF row, header
<1>6. ReadRow(row, header, dates, scores) = Kept(role, "undated", scores)
  BY <1>4, <1>5 DEF ReadRow, Kept
<1> QED
  BY <1>1, <1>2, <1>3, <1>6 DEF header

\* A row in a tracker with dates is read as its role, whether it has a date or not.
LEMMA DatedRow ==
  ASSUME NEW Cell, NEW dates, NEW scores, NEW role \in Role(Cell, dates)
  PROVE  LET row == Written(role, "dated")
         IN  /\ IsRow(row) /\ ~IsSeparator(row)
             /\ ReadRow(row, Header("dated"), dates, scores) = Kept(role, "dated", scores)
<1> DEFINE header == Header("dated")
<1>1. /\ ColIndex(header, "#") = 1 /\ ColIndex(header, "date") = 2 /\ ColIndex(header, "company") = 3
      /\ ColIndex(header, "role") = 4 /\ ColIndex(header, "score") = 5 /\ ColIndex(header, "status") = 6
      /\ Has(header, "date")
  BY DatedColumns
<1> HIDE DEF header
<1>2. CASE role.date = "none"
  <2> DEFINE row == <<role.num, role.company, role.role, "state", role.scoreCell, role.status>>
  <2>1. Written(role, "dated") = row
    BY <1>2 DEF Written
  <2>2. IsRow(row)
    BY DEF IsRow, Prose
  <2>3. ~IsSeparator(row)
    <3>1. row[4] \in Range(row)
      BY DEF Range
    <3>2. row[4] = "state"
      OBVIOUS
    <3> HIDE DEF row
    <3> QED
      BY <3>1, <3>2 DEF IsSeparator
  <2>4. /\ CellAt(row, 1) = role.num /\ CellAt(row, 2) = role.company /\ CellAt(row, 3) = role.role
        /\ CellAt(row, 5) = role.scoreCell /\ CellAt(row, 6) = role.status
    BY DEF CellAt
  <2> HIDE DEF row
  <2>5. role.company \notin dates
    BY DEF Role
  <2>6. ReadRow(row, header, dates, scores) = Kept(role, "dated", scores)
    BY <1>1, <1>2, <2>4, <2>5 DEF ReadRow, Kept
  <2> QED
    BY <2>1, <2>2, <2>3, <2>6 DEF header
<1>3. CASE role.date # "none"
  <2> DEFINE row == <<role.num, role.date, role.company, role.role, role.scoreCell, role.status>>
  <2>1. Written(role, "dated") = row
    BY <1>3 DEF Written
  <2>2. IsRow(row)
    BY DEF IsRow, Prose
  <2>3. ~IsSeparator(row)
    <3>1. row[3] \in Range(row) /\ row[4] \in Range(row)
      BY DEF Range
    <3>2. row[3] = role.company /\ row[4] = role.role
      OBVIOUS
    <3> HIDE DEF row
    <3> QED
      BY <3>1, <3>2 DEF IsSeparator, Role
  <2>4. /\ CellAt(row, 1) = role.num /\ CellAt(row, 2) = role.date /\ CellAt(row, 3) = role.company
        /\ CellAt(row, 4) = role.role /\ CellAt(row, 5) = role.scoreCell /\ CellAt(row, 6) = role.status
    BY DEF CellAt
  <2> HIDE DEF row
  <2>5. role.date \in dates
    BY <1>3 DEF Role
  <2>6. ReadRow(row, header, dates, scores) = Kept(role, "dated", scores)
    BY <1>1, <2>4, <2>5 DEF ReadRow, Kept
  <2> QED
    BY <2>1, <2>2, <2>3, <2>6 DEF header
<1> QED
  BY <1>2, <1>3

\* Where the lines of four parts are.
LEMMA PartsJoined ==
  ASSUME NEW Line, NEW s \in Seq(Line), NEW t \in Seq(Line), NEW u \in Seq(Line), NEW v \in Seq(Line),
         NEW all, all = s \o t \o u \o v
  PROVE  /\ all \in Seq(Line) /\ Len(all) = Len(s) + Len(t) + Len(u) + Len(v)
         /\ \A i \in 1..Len(s) : all[i] = s[i]
         /\ \A i \in 1..Len(t) : all[Len(s) + i] = t[i]
         /\ \A i \in 1..Len(u) : all[Len(s) + Len(t) + i] = u[i]
         /\ \A i \in 1..Len(v) : all[Len(s) + Len(t) + Len(u) + i] = v[i]
<1>1. PICK a \in Nat, b \in Nat, c \in Nat, d \in Nat :
        a = Len(s) /\ b = Len(t) /\ c = Len(u) /\ d = Len(v)
  BY LenProperties
<1>2. PICK st \in Seq(Line) : st = s \o t
  <2>1. s \o t \in Seq(Line)
    BY ONLY s \in Seq(Line), t \in Seq(Line), JoinedIs
  <2> QED
    BY ONLY <2>1
<1>3. /\ Len(st) = a + b
      /\ \A i \in 1..a : st[i] = s[i]
      /\ \A i \in 1..b : st[a + i] = t[i]
  <2>1. /\ Len(s \o t) = Len(s) + Len(t)
        /\ \A i \in 1..Len(s) : (s \o t)[i] = s[i]
        /\ \A i \in 1..Len(t) : (s \o t)[Len(s) + i] = t[i]
    BY ONLY s \in Seq(Line), t \in Seq(Line), JoinedIs
  <2> QED
    BY <1>1, <1>2, <2>1
<1>4. PICK stu \in Seq(Line) : stu = st \o u
  <2>1. st \o u \in Seq(Line)
    BY ONLY st \in Seq(Line), u \in Seq(Line), JoinedIs
  <2> QED
    BY ONLY <2>1
<1>5. /\ Len(stu) = a + b + c
      /\ \A i \in 1..(a + b) : stu[i] = st[i]
      /\ \A i \in 1..c : stu[a + b + i] = u[i]
  <2>1. /\ Len(st \o u) = Len(st) + Len(u)
        /\ \A i \in 1..Len(st) : (st \o u)[i] = st[i]
        /\ \A i \in 1..Len(u) : (st \o u)[Len(st) + i] = u[i]
    BY ONLY st \in Seq(Line), u \in Seq(Line), JoinedIs
  <2> QED
    BY <1>1, <1>3, <1>4, <2>1
<1>6. PICK lines \in Seq(Line) : lines = stu \o v
  <2>1. stu \o v \in Seq(Line)
    BY ONLY stu \in Seq(Line), v \in Seq(Line), JoinedIs
  <2> QED
    BY ONLY <2>1
<1>7. /\ Len(lines) = a + b + c + d
      /\ \A i \in 1..(a + b + c) : lines[i] = stu[i]
      /\ \A i \in 1..d : lines[a + b + c + i] = v[i]
  <2>1. /\ Len(stu \o v) = Len(stu) + Len(v)
        /\ \A i \in 1..Len(stu) : (stu \o v)[i] = stu[i]
        /\ \A i \in 1..Len(v) : (stu \o v)[Len(stu) + i] = v[i]
    BY ONLY stu \in Seq(Line), v \in Seq(Line), JoinedIs
  <2> QED
    BY <1>1, <1>5, <1>6, <2>1
<1>8. ASSUME NEW i \in 1..a PROVE lines[i] = s[i]
  <2>1. i \in 1..(a + b) /\ i \in 1..(a + b + c)
    OBVIOUS
  <2> QED
    BY <1>3, <1>5, <1>7, <2>1
<1>9. ASSUME NEW i \in 1..b PROVE lines[a + i] = t[i]
  <2>1. a + i \in 1..(a + b) /\ a + i \in 1..(a + b + c)
    OBVIOUS
  <2> QED
    BY <1>3, <1>5, <1>7, <2>1
<1>10. ASSUME NEW i \in 1..c PROVE lines[a + b + i] = u[i]
  <2>1. a + b + i \in 1..(a + b + c)
    OBVIOUS
  <2> QED
    BY <1>5, <1>7, <2>1
<1> QED
  BY <1>1, <1>2, <1>4, <1>6, <1>7, <1>8, <1>9, <1>10

\* A document with a table is read as the rows of the table.
LEMMA DocumentIsRead ==
  ASSUME NEW Line, NEW before \in Seq(Line), NEW head \in Line, NEW line \in Line,
         NEW rows \in Seq(Line), NEW tail \in Seq(Line), NEW dates, NEW scores,
         \A i \in 1..Len(before) : ~IsHeader(before[i]),
         IsHeader(head), IsRow(line), IsSeparator(line),
         \A i \in 1..Len(rows) :
           /\ IsRow(rows[i]) /\ ~IsSeparator(rows[i])
           /\ Names(ReadRow(rows[i], head, dates, scores)),
         Len(tail) # 0 => ~IsRow(tail[1])
  PROVE  ParseTracker(before \o <<head, line>> \o rows \o tail, dates, scores)
           = [k \in 1..Len(rows) |-> ReadRow(rows[k], head, dates, scores)]
<1>1. PICK b \in Nat, n \in Nat, m \in Nat : b = Len(before) /\ n = Len(rows) /\ m = Len(tail)
  BY LenProperties
<1>2. PICK top \in Seq(Line) : top = <<head, line>> /\ Len(top) = 2 /\ top[1] = head /\ top[2] = line
  <2>1. /\ <<head, line>> \in Seq(Line) /\ Len(<<head, line>>) = 2
        /\ <<head, line>>[1] = head /\ <<head, line>>[2] = line
    BY ONLY head \in Line, line \in Line, SequenceOfTwo
  <2> QED
    BY ONLY <2>1
<1>3. PICK doc : doc = before \o top \o rows \o tail
  OBVIOUS
<1>4. /\ doc \in Seq(Line) /\ Len(doc) = Len(before) + Len(top) + Len(rows) + Len(tail)
      /\ \A i \in 1..Len(before) : doc[i] = before[i]
      /\ \A i \in 1..Len(top) : doc[Len(before) + i] = top[i]
      /\ \A i \in 1..Len(rows) : doc[Len(before) + Len(top) + i] = rows[i]
      /\ \A i \in 1..Len(tail) : doc[Len(before) + Len(top) + Len(rows) + i] = tail[i]
  BY ONLY before \in Seq(Line), top \in Seq(Line), rows \in Seq(Line), tail \in Seq(Line), <1>3, PartsJoined
<1>5. /\ Len(doc) = b + 2 + n + m
      /\ \A i \in 1..b : doc[i] = before[i]
      /\ \A i \in 1..2 : doc[b + i] = top[i]
      /\ \A i \in 1..n : doc[b + 2 + i] = rows[i]
      /\ \A i \in 1..m : doc[b + 2 + n + i] = tail[i]
  BY <1>1, <1>2, <1>4
<1>6. PICK h \in Nat \ {0} : h = b + 1
  OBVIOUS
<1>7. h + 1 = b + 2 /\ (\A i \in 1..n : h + 1 + i = b + 2 + i) /\ b + 2 + n + 1 = h + n + 2
  BY <1>6
<1>8. doc[h] = head /\ doc[h + 1] = line /\ \A i \in 1..n : doc[h + 1 + i] = rows[i]
  <2>1. doc[b + 1] = head /\ doc[b + 2] = line
    BY <1>2, <1>5
  <2> QED
    BY <1>5, <1>6, <1>7, <2>1
<1>9. IsTable(doc, h, n, dates, scores)
  <2>1. Len(doc) >= h + n + 1
    BY <1>5, <1>6
  <2>2. \A i \in 1..(h - 1) : ~IsHeader(doc[i])
    BY <1>1, <1>5, <1>6
  <2>3. ASSUME NEW i \in (h + 2)..(h + n + 1)
        PROVE  /\ IsRow(doc[i]) /\ ~IsSeparator(doc[i])
               /\ Names(ReadRow(doc[i], doc[h], dates, scores))
    <3>1. PICK k \in 1..n : i = h + 1 + k
      <4>1. i - h - 1 \in 1..n /\ i = h + 1 + (i - h - 1)
        OBVIOUS
      <4> QED
        BY <4>1
    <3>2. doc[i] = rows[k] /\ doc[h] = head
      BY <1>8, <3>1
    <3> QED
      BY <1>1, <3>2
  <2>4. Len(doc) = h + n + 1 \/ ~IsRow(doc[h + n + 2])
    <3>1. CASE m = 0
      BY <1>5, <1>6, <3>1
    <3>2. CASE m # 0
      <4>1. doc[b + 2 + n + 1] = tail[1]
        BY <1>5, <3>2
      <4>2. ~IsRow(tail[1])
        BY <1>1, <3>2
      <4> QED
        BY <1>7, <4>1, <4>2
    <3> QED
      BY <3>1, <3>2
  <2> QED
    BY <1>8, <2>1, <2>2, <2>3, <2>4 DEF IsTable
<1>10. ParseTracker(doc, dates, scores) = [k \in 1..n |-> ReadRow(doc[h + 1 + k], doc[h], dates, scores)]
  <2>1. doc \in Seq(Line)
    BY <1>4
  <2> QED
    BY ONLY <2>1, h \in Nat \ {0}, n \in Nat, <1>9, TableIsRead
<1> QED
  BY <1>1, <1>2, <1>3, <1>8, <1>10

\* A written role reads back as the role, in either layout.
LEMMA RowIsRead ==
  ASSUME NEW Cell, NEW dates, NEW scores, NEW role \in Role(Cell, dates),
         NEW layout, layout = "undated" \/ layout = "dated"
  PROVE  /\ IsRow(Written(role, layout)) /\ ~IsSeparator(Written(role, layout))
         /\ ReadRow(Written(role, layout), Header(layout), dates, scores) = Kept(role, layout, scores)
<1>1. CASE layout = "undated"
  BY <1>1, UndatedRow
<1>2. CASE layout = "dated"
  BY <1>2, DatedRow
<1> QED
  BY <1>1, <1>2

\* The header is a header, and the line under it separates.
LEMMA HeadIsRead ==
  ASSUME NEW layout \in {"dated", "undated"}, NEW line, line = [i \in 1..Len(Header(layout)) |-> "---"]
  PROVE  IsHeader(Header(layout)) /\ IsRow(line) /\ IsSeparator(line)
<1>1. IsHeader(Header(layout))
  BY UndatedColumns, DatedColumns
<1>2. Len(Header(layout)) = 5 \/ Len(Header(layout)) = 6
  BY DEF Header
<1>3. PICK n \in {5, 6} : line = [i \in 1..n |-> "---"]
  BY <1>2
<1>4. 1 \in 1..n /\ DOMAIN line = 1..n /\ \A i \in 1..n : line[i] = "---"
  BY <1>3
<1>5. IsRow(line)
  <2>1. 1 \notin DOMAIN Prose
    BY DEF Prose
  <2> QED
    BY <1>4, <2>1 DEF IsRow
<1>6. IsSeparator(line)
  BY <1>4 DEF IsSeparator, Range
<1> QED
  BY <1>1, <1>5, <1>6

\* importer.ParseTracker: a tracker of either layout, with dated and legacy rows mixed,
\* whatever its cells say, reads back as the roles it was written from, behind any lines
\* without a header and in front of any others.
THEOREM TrackersAreRoles ==
  ASSUME NEW Line, NEW before \in Seq(Line), NEW after \in Seq(Line),
         \A i \in 1..Len(before) : ~IsHeader(before[i]),
         NEW Cell, NEW dates, NEW scores, NEW roles \in Seq(Role(Cell, dates)),
         NEW layout \in {"dated", "undated"}
  PROVE  TrackerReadsBack(before, roles, layout, after, dates, scores)
<1>1. PICK line : line = [i \in 1..Len(Header(layout)) |-> "---"]
  OBVIOUS
<1>2. PICK rows : rows = [i \in DOMAIN roles |-> Written(roles[i], layout)]
  OBVIOUS
<1>3. PICK n \in Nat : n = Len(roles) /\ DOMAIN roles = 1..n
  BY LenProperties
<1>4. PICK Lines : /\ Line \subseteq Lines /\ Prose \in Lines /\ Header(layout) \in Lines /\ line \in Lines
                   /\ \A i \in 1..n : rows[i] \in Lines
  <2> DEFINE Lines == Line \cup {Prose, Header(layout), line} \cup {rows[i] : i \in 1..n}
  <2>1. /\ Line \subseteq Lines /\ Prose \in Lines /\ Header(layout) \in Lines /\ line \in Lines
        /\ \A i \in 1..n : rows[i] \in Lines
    OBVIOUS
  <2> QED
    BY <2>1
<1>5. before \in Seq(Lines) /\ after \in Seq(Lines)
  BY <1>4, SeqMonotonic
<1>6. rows \in Seq(Lines) /\ Len(rows) = n /\ \A i \in 1..n : rows[i] = Written(roles[i], layout)
  <2>1. rows \in [1..n -> Lines]
    BY <1>2, <1>3, <1>4
  <2>2. rows \in Seq(Lines)
    BY <2>1, SeqDef
  <2> QED
    BY <1>2, <1>3, <2>1, <2>2, LenProperties
<1>7. PICK tail \in Seq(Lines) : /\ tail = IF after = <<>> THEN <<>> ELSE <<Prose>> \o after
                                 /\ Len(tail) # 0 => ~IsRow(tail[1])
  <2>1. CASE after = <<>>
    BY <2>1, EmptySeq
  <2>2. CASE after # <<>>
    <3>1. PICK one \in Seq(Lines) : one = <<Prose>> /\ Len(one) = 1 /\ one[1] = Prose
      BY <1>4, SequenceOfOne
    <3>2. one \o after \in Seq(Lines) /\ (one \o after)[1] = Prose
      BY <1>5, <3>1, JoinedIs
    <3> QED
      BY <2>2, <3>1, <3>2 DEF IsRow
  <2> QED
    BY <2>1, <2>2
<1>8. ASSUME NEW i \in 1..n
      PROVE  /\ IsRow(rows[i]) /\ ~IsSeparator(rows[i])
             /\ ReadRow(rows[i], Header(layout), dates, scores) = Kept(roles[i], layout, scores)
             /\ Names(ReadRow(rows[i], Header(layout), dates, scores))
  <2>1. PICK role \in Role(Cell, dates) : role = roles[i]
    BY <1>3, ElementOfSeq
  <2>2. /\ IsRow(rows[i]) /\ ~IsSeparator(rows[i])
        /\ ReadRow(rows[i], Header(layout), dates, scores) = Kept(roles[i], layout, scores)
    <3>1. /\ IsRow(Written(role, layout)) /\ ~IsSeparator(Written(role, layout))
          /\ ReadRow(Written(role, layout), Header(layout), dates, scores) = Kept(role, layout, scores)
      BY ONLY role \in Role(Cell, dates), layout = "undated" \/ layout = "dated", RowIsRead
    <3> QED
      BY <1>6, <2>1, <3>1
  <2>3. Kept(role, layout, scores).company = role.company /\ Kept(role, layout, scores).role = role.role
    BY DEF Kept
  <2>4. role.company # "" \/ role.role # ""
    BY DEF Role
  <2> QED
    BY <2>1, <2>2, <2>3, <2>4 DEF Names
<1>9. IsHeader(Header(layout)) /\ IsRow(line) /\ IsSeparator(line)
  BY <1>1, HeadIsRead
<1>10. ParseTracker(before \o <<Header(layout), line>> \o rows \o tail, dates, scores)
         = [k \in 1..Len(rows) |-> ReadRow(rows[k], Header(layout), dates, scores)]
  <2>1. PICK head \in Lines, bar \in Lines, table \in Seq(Lines) : head = Header(layout) /\ bar = line /\ table = rows
    BY <1>4, <1>6
  <2>2. before \in Seq(Lines) /\ \A i \in 1..Len(before) : ~IsHeader(before[i])
    BY <1>5
  <2>3. IsHeader(head) /\ IsRow(bar) /\ IsSeparator(bar)
    BY <1>9, <2>1
  <2>4. \A i \in 1..Len(table) : /\ IsRow(table[i]) /\ ~IsSeparator(table[i])
                                 /\ Names(ReadRow(table[i], head, dates, scores))
    BY <1>6, <1>8, <2>1
  <2>5. Len(tail) # 0 => ~IsRow(tail[1])
    BY <1>7
  <2>6. ParseTracker(before \o <<head, bar>> \o table \o tail, dates, scores)
          = [k \in 1..Len(table) |-> ReadRow(table[k], head, dates, scores)]
    BY ONLY tail \in Seq(Lines), head \in Lines, bar \in Lines, table \in Seq(Lines),
            <2>2, <2>3, <2>4, <2>5, DocumentIsRead
  <2> QED
    BY <2>1, <2>6
<1>11. ParseTracker(before \o <<Header(layout), line>> \o rows \o tail, dates, scores)
         = [i \in DOMAIN roles |-> Kept(roles[i], layout, scores)]
  BY <1>3, <1>6, <1>8, <1>10
<1> QED
  BY <1>1, <1>2, <1>7, <1>11 DEF TrackerReadsBack, Kept

------------------------------------------------------------------------------
(* What the run checks, from the theorems.                                  *)

\* The input never changes.
LEMMA InputsStay == Spec => []Init
<1>1. Init /\ [Next]_input => Init'
  BY DEF Init, Next
<1> QED
  BY <1>1, PTL DEF Spec

\* An input is of the function it is for.
LEMMA InputsOf ==
  ASSUME Init
  PROVE  /\ Is("NormalizeURL") => input \in UrlInputs
         /\ Is("DedupKey") => input \in KeyInputs
         /\ Is("SimHash") => input \in HashInputs
         /\ Is("TrustScore") => input \in TrustInputs
         /\ Is("evalOne") => input \in EvalInputs
         /\ Is("ParseTracker") => input \in TrackerInputs
         /\ Is("Assemble") => input \in CompanyInputs
<1>1. input \in UrlInputs => input.of = "NormalizeURL"
  BY DEF UrlInputs
<1>2. input \in KeyInputs => input.of = "DedupKey"
  BY DEF KeyInputs
<1>3. input \in HashInputs => input.of = "SimHash"
  BY DEF HashInputs
<1>4. input \in TrustInputs => input.of = "TrustScore"
  BY DEF TrustInputs
<1>5. input \in EvalInputs => input.of = "evalOne"
  BY DEF EvalInputs
<1>6. input \in TrackerInputs => input.of = "ParseTracker"
  BY DEF TrackerInputs
<1>7. input \in CompanyInputs => input.of = "Assemble"
  BY DEF CompanyInputs
<1> QED
  BY <1>1, <1>2, <1>3, <1>4, <1>5, <1>6, <1>7 DEF Init, Is

\* A sequence of bounded length is a sequence.
LEMMA BoundedSeqs ==
  ASSUME NEW S, NEW n \in Nat
  PROVE  SeqsUpTo(S, n) \subseteq Seq(S)
  BY SeqDef DEF SeqsUpTo

\* TrustNeverFalls (engine.TrustScore), whatever the run's postings.
THEOREM TrustIsSafe == Spec => []TrustNeverFalls
<1>1. Init => TrustNeverFalls
  <2> SUFFICES ASSUME Init, Is("TrustScore"), NEW q \in TrustInputs PROVE TrustIsMonotone(input, q)
    BY DEF TrustNeverFalls
  <2>1. input \in TrustInputs
    BY InputsOf
  <2>2. ASSUME NEW p \in TrustInputs
        PROVE  /\ p.apply \in BOOLEAN /\ p.salary \in BOOLEAN /\ p.company \in BOOLEAN /\ p.location \in BOOLEAN
               /\ p.len \in Nat /\ p.days \in {-1} \cup Nat
    BY DEF TrustInputs
  <2>3. ASSUME NEW p \in TrustInputs
        PROVE  \E s \in Signals : /\ s.apply = p.apply /\ s.salary = p.salary /\ s.company = p.company
                                  /\ s.location = p.location /\ s.len = p.len /\ s.days = p.days
    <3> DEFINE s == [apply |-> p.apply, salary |-> p.salary, company |-> p.company,
                     location |-> p.location, len |-> p.len, days |-> p.days]
    <3>1. s \in Signals
      BY <2>2 DEF Signals
    <3> QED
      BY <3>1
  <2>4. PICK s \in Signals, t \in Signals :
          /\ s.apply = input.apply /\ s.salary = input.salary /\ s.company = input.company
          /\ s.location = input.location /\ s.len = input.len /\ s.days = input.days
          /\ t.apply = q.apply /\ t.salary = q.salary /\ t.company = q.company
          /\ t.location = q.location /\ t.len = q.len /\ t.days = q.days
    BY <2>1, <2>3
  <2>5. TrustIsMonotone(s, t)
    BY TrustScoreIsMonotone
  <2>6. TrustScore(s) = TrustScore(input) /\ TrustScore(t) = TrustScore(q)
    BY <2>4 DEF TrustScore
  <2>7. TrustFlags(s) = TrustFlags(input) /\ TrustFlags(t) = TrustFlags(q)
    BY <2>4 DEF TrustFlags
  <2> QED
    BY <2>4, <2>5, <2>6, <2>7 DEF TrustIsMonotone
<1> QED
  BY <1>1, InputsStay, PTL

\* RatingsAreTheLastBlocks (evalOne, splitAGReport), whatever the run's reports.
THEOREM RatingsAreSafe == Spec => []RatingsAreTheLastBlocks
<1>1. Init => RatingsAreTheLastBlocks
  <2> SUFFICES ASSUME Init, Is("evalOne")
               PROVE  RatingIsTheLastBlocks(<<input.report, input.other, input.report>>,
                                            input.summaries, input.marked, Decoded)
    BY DEF RatingsAreTheLastBlocks
  <2> DEFINE Summaries == {"good", "stop", "soft", "undecided", "wild", "failed", "garbage"}
             All == Chunks \cup Summaries
             reports == <<input.report, input.other, input.report>>
  <2>1. /\ input.report \in SeqsUpTo(Chunks, 2) /\ input.other \in {<<>>, <<"marker", "json">>}
        /\ input.summaries \in [1..3 -> Summaries] /\ input.marked \in BOOLEAN
    BY InputsOf DEF EvalInputs
  <2>2. input.report \in Seq(All)
    <3>1. input.report \in Seq(Chunks) /\ Chunks \subseteq All
      BY <2>1, BoundedSeqs
    <3> QED
      BY <3>1, SeqMonotonic
  <2>3. input.other \in Seq(All)
    <3>1. <<>> \in Seq(All)
      BY EmptySeq
    <3>2. <<"marker", "json">> \in Seq(All)
      BY SequenceOfTwo DEF Chunks
    <3> QED
      BY <2>1, <3>1, <3>2
  <2>4. reports \in [1..3 -> Seq(All)]
    <3>1. /\ reports = <<input.report, input.other, input.report>>
      OBVIOUS
    <3> HIDE DEF All
    <3> QED
      BY <2>2, <2>3
  <2>5. input.summaries \in [1..3 -> All \ Delimiters]
    <3>1. Summaries \subseteq All \ Delimiters
      BY DEF Delimiters
    <3> QED
      BY <2>1, <3>1
  <2>6. Delimiters \subseteq All
    BY DEF Delimiters, Chunks
  <2>7. DOMAIN Decoded \subseteq All \ (Delimiters \cup {"failed"})
    <3>1. DOMAIN Decoded = {"good", "stop", "soft", "undecided", "wild"}
      BY DEF Decoded
    <3> QED
      BY <3>1 DEF Delimiters
  <2> HIDE DEF All, reports
  <2>8. RatingIsTheLastBlocks(reports, input.summaries, input.marked, Decoded)
    BY ONLY <2>1, <2>4, <2>5, <2>6, <2>7, RatingsAreLastBlocks
  <2> QED
    BY <2>8 DEF reports
<1> QED
  BY <1>1, InputsStay, PTL

\* UrlsAreIdentified (engine.NormalizeURL), whatever the run's urls.
THEOREM UrlsAreSafe == Spec => []UrlsAreIdentified
<1>1. Init => UrlsAreIdentified
  <2> SUFFICES ASSUME Init, Is("NormalizeURL"), NEW v \in Hosted \cup Hostless
               PROVE  UrlsIdentified(input.u, v)
    BY DEF UrlsAreIdentified
  <2>1. input.u \in Hosted \cup Hostless
    BY InputsOf DEF UrlInputs
  <2>2. ASSUME NEW u \in Hosted \cup Hostless PROVE u.slashes \in 0..1
    BY DEF Hosted, Hostless
  <2> QED
    BY <2>1, <2>2, UrlsAreOfPages
<1> QED
  BY <1>1, InputsStay, PTL

\* KeysAreIdentified (engine.DedupKey), of the theorem at the run's tokens.
THEOREM KeysAreSafe == Spec => []KeysAreIdentified
<1>1. Init => KeysAreIdentified
  <2> SUFFICES ASSUME Init, Is("DedupKey")
               PROVE  KeysIdentified(input.company, input.role, SeqsUpTo(Tokens, 2))
    BY DEF KeysAreIdentified
  <2> DEFINE Word == {"acme", "inc", ""} \cup LegalSuffixes
  <2>1. Tokens \subseteq TokenOf(Word)
    BY DEF Tokens, TokenOf
  <2>2. input \in KeyInputs
    BY InputsOf
  <2>3. \A n \in Nat : SeqsUpTo(Tokens, n) \subseteq Seq(TokenOf(Word))
    <3> HIDE DEF Word
    <3> QED
      BY <2>1, BoundedSeqs, SeqMonotonic
  <2>4. LegalSuffixes \subseteq Word /\ <<>> \in Seq(TokenOf(Word))
    BY EmptySeq
  <2> HIDE DEF Word
  <2>5. input.company \in Seq(TokenOf(Word)) /\ input.role \in Seq(TokenOf(Word))
    BY <2>2, <2>3, <2>4 DEF KeyInputs
  <2> QED
    BY <2>3, <2>4, <2>5, KeysAreOfNames
<1> QED
  BY <1>1, InputsStay, PTL

\* FingerprintsAreMajorities (engine.SimHash), of the theorem at the run's texts.
THEOREM FingerprintsAreSafe == Spec => []FingerprintsAreMajorities
<1>1. Init => FingerprintsAreMajorities
  <2> SUFFICES ASSUME Init, Is("SimHash")
               PROVE  FingerprintIsMajority(input.text, input.hash, 2, input.word)
    BY DEF FingerprintsAreMajorities
  <2>1. input.text \in SeqsUpTo(Words, 4) /\ input.word \in Words
    BY InputsOf DEF HashInputs
  <2>2. input.text \in Seq(Words)
    BY <2>1, BoundedSeqs
  <2> QED
    BY <2>1, <2>2, FingerprintsAreOfMajorities
<1> QED
  BY <1>1, InputsStay, PTL

\* The run's trackers are of the theorem's kind.
LEMMA TrackerInputsAreTrackers ==
  ASSUME NEW x \in TrackerInputs
  PROVE  \E Line, Cell : /\ x.before \in Seq(Line) /\ x.after \in Seq(Line)
                         /\ \A i \in 1..Len(x.before) : ~IsHeader(x.before[i])
                         /\ x.roles \in Seq(Role(Cell, Dates))
                         /\ x.layout = "undated" \/ x.layout = "dated"
<1> DEFINE Line == {Prose, <<"role", "status">>, <<"1", "2">>, <<"company", "role", "status">>, <<"x", "y", "z">>}
           Cell == {"1", "acme", "", "dev", "3.3/5", "n/a", "applied", "new"}
           other == <<Prose, <<"role", "status">>, <<"1", "2">>, Prose>>
           more  == << <<"company", "role", "status">>, <<"x", "y", "z">> >>
<1>1. /\ x.before \in {<<>>, other} /\ x.after \in {<<>>, <<Prose>>, more}
      /\ x.roles \in SeqsUpTo(Roles, 2) /\ (x.layout = "undated" \/ x.layout = "dated")
  BY DEF TrackerInputs
<1>2. other \in Seq(Line) /\ Len(other) = 4 /\ \A i \in 1..4 : ~IsHeader(other[i])
  <2>1. Prose \in Line /\ <<"role", "status">> \in Line /\ <<"1", "2">> \in Line
    OBVIOUS
  <2>2. other \in Seq(Line) /\ Len(other) = 4
    <3> HIDE DEF Line
    <3> QED
      BY <2>1, SequenceOfFour
  <2>3. ~IsHeader(Prose)
    BY DEF IsHeader, IsRow
  <2>4. ~IsHeader(<<"role", "status">>) /\ ~IsHeader(<<"1", "2">>)
    BY DEF IsHeader, Has, Range
  <2>5. other[1] = Prose /\ other[2] = <<"role", "status">> /\ other[3] = <<"1", "2">> /\ other[4] = Prose
    OBVIOUS
  <2>6. \A i \in 1..4 : i = 1 \/ i = 2 \/ i = 3 \/ i = 4
    OBVIOUS
  <2> HIDE DEF other, Line
  <2> QED
    BY <2>2, <2>3, <2>4, <2>5, <2>6
<1>3. <<>> \in Seq(Line) /\ Len(<<>>) = 0
  BY EmptySeq
<1>4. <<Prose>> \in Seq(Line) /\ more \in Seq(Line)
  <2>1. Prose \in Line /\ <<"company", "role", "status">> \in Line /\ <<"x", "y", "z">> \in Line
    OBVIOUS
  <2> HIDE DEF Line
  <2> QED
    BY <2>1, SequenceOfOne, SequenceOfTwo
<1>5. Roles \subseteq Role(Cell, Dates)
  BY DEF Roles, Role, Dates
<1> HIDE DEF Line, Cell, other, more
<1>6. x.roles \in Seq(Role(Cell, Dates))
  BY <1>1, <1>5, BoundedSeqs, SeqMonotonic
<1>7. x.before \in Seq(Line) /\ \A i \in 1..Len(x.before) : ~IsHeader(x.before[i])
  <2>1. CASE x.before = <<>>
    BY <1>3, <2>1
  <2>2. CASE x.before = other
    BY <1>2, <2>2
  <2> QED
    BY <1>1, <2>1, <2>2
<1>8. x.after \in Seq(Line)
  BY <1>1, <1>3, <1>4
<1> QED
  BY <1>1, <1>6, <1>7, <1>8

\* TrackersReadBack (importer.ParseTracker), of the theorem at the run's trackers.
THEOREM TrackersAreSafe == Spec => []TrackersReadBack
<1>1. Init => TrackersReadBack
  <2> SUFFICES ASSUME Init, Is("ParseTracker")
               PROVE  TrackerReadsBack(input.before, input.roles, input.layout, input.after, Dates, Cells)
    BY DEF TrackersReadBack
  <2>1. input \in TrackerInputs
    BY InputsOf
  <2>2. PICK Line, Cell :
          /\ input.before \in Seq(Line) /\ input.after \in Seq(Line)
          /\ \A i \in 1..Len(input.before) : ~IsHeader(input.before[i])
          /\ input.roles \in Seq(Role(Cell, Dates))
          /\ input.layout = "undated" \/ input.layout = "dated"
    BY <2>1, TrackerInputsAreTrackers
  <2> QED
    BY ONLY <2>2, TrackersAreRoles
<1> QED
  BY <1>1, InputsStay, PTL

\* What the enrichers of the run find is made of words.
LEMMA CompanyInputsAreWords ==
  ASSUME NEW x \in CompanyInputs
  PROVE  LET Word == {"missing", "unparsed", "acme", "jobs", "other", "1999", "2001", "gambling"}
         IN  x.page \in CompanyPage(Word) /\ x.hits \in WikidataHits(Word) /\ x.listed \in BOOLEAN
<1> DEFINE Word == {"missing", "unparsed", "acme", "jobs", "other", "1999", "2001", "gambling"}
           Hit == [founded : {Missing, <<"2001">>}, website : Sites]
<1>1. /\ Missing \in Seq(Word) /\ <<"unparsed">> \in Seq(Word) /\ <<"acme">> \in Seq(Word)
      /\ <<"other">> \in Seq(Word) /\ <<"1999">> \in Seq(Word) /\ <<"2001">> \in Seq(Word)
      /\ <<"gambling">> \in Seq(Word)
  BY SequenceOfOne DEF Missing
<1>2. <<"jobs", "acme">> \in Seq(Word)
  BY SequenceOfTwo
<1>3. x.page \in Pages /\ x.hits \in SeqsUpTo(Hit, 2) /\ x.listed \in BOOLEAN
  BY DEF CompanyInputs, Hits
<1> HIDE DEF Word
<1>4. Sites \subseteq Seq(Word)
  BY <1>1, <1>2 DEF Sites
<1>5. x.page \in CompanyPage(Word)
  BY <1>1, <1>3, <1>4 DEF Pages, CompanyPage
<1>6. x.hits \in WikidataHits(Word)
  <2>1. x.hits \in Seq(Hit)
    <3> HIDE DEF Hit
    <3> QED
      BY <1>3, BoundedSeqs
  <2>2. Hit \subseteq [founded : Seq(Word), website : Seq(Word)]
    BY <1>1, <1>4
  <2> HIDE DEF Hit
  <2> QED
    BY <2>1, <2>2, SeqMonotonic DEF WikidataHits
<1> QED
  BY <1>3, <1>5, <1>6 DEF Word

\* The run's sources hold words.
LEMMA CompaniesAreWords ==
  ASSUME input \in CompanyInputs
  PROVE  /\ BestSourceWins(input.page, input.hits, input.listed, input.docs)
         /\ FactsAreOfOneCompany(input.page, input.hits, input.listed, input.docs)
<1>1. PICK Word : /\ input.page \in CompanyPage(Word) /\ input.hits \in WikidataHits(Word)
                  /\ input.listed \in BOOLEAN
  BY CompanyInputsAreWords
<1> QED
  BY ONLY <1>1, ProfilesHaveTheBest, ProfilesAreOfOne

\* BestSourcesWin (enrich.Assemble), whatever the run's sources hold.
THEOREM ProfilesAreBest == Spec => []BestSourcesWin
<1>1. Init => BestSourcesWin
  BY InputsOf, CompaniesAreWords DEF BestSourcesWin
<1> QED
  BY <1>1, InputsStay, PTL

\* ProfilesAreOfOneCompany (enrich.Assemble), whatever the run's sources hold.
THEOREM ProfilesAreSafe == Spec => []ProfilesAreOfOneCompany
<1>1. Init => ProfilesAreOfOneCompany
  BY InputsOf, CompaniesAreWords DEF ProfilesAreOfOneCompany
<1> QED
  BY <1>1, InputsStay, PTL
==============================================================================
