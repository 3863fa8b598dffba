----------------------------- MODULE Enrichment -----------------------------
(***************************************************************************)
(* How a company's profile is put together from four sources.  What a       *)
(* source holds is an input here (page, hits, listed, docs); one that fails *)
(* adds nothing, like one that knows nothing.  A value is a sequence of      *)
(* words; of a website, the labels of its host.  "founded" stands for the   *)
(* size and the seat too, "industry" for the description too.               *)
(***************************************************************************)
EXTENDS Integers, Sequences, FiniteSets, SequencesExt

NoHost  == <<>>
Missing == <<"missing">>

\* What a source says: the fields it has a value for, each tagged with the source.
Answer(values, source) ==
  [key \in {k \in DOMAIN values : values[k] # Missing} |-> [value |-> values[key], source |-> source]]

Nothing == <<>>

\* A website whose host cannot be parsed is a website nevertheless.
HostOf(site) == IF site = <<"unparsed">> THEN NoHost ELSE site

SameHost(site, domain) ==
  /\ HostOf(site) # NoHost /\ domain # NoHost
  /\ IsSuffix(domain, HostOf(site)) \/ IsSuffix(HostOf(site), domain)

------------------------------------------------------------------------------
(* The enrichers: what each adds.                                           *)

\* The first posting that links the company's Built In page says where it is.
BuiltInURL(docs) == \E i \in DOMAIN docs : docs[i].sameAs

BuiltIn(page, docs) ==
  IF ~BuiltInURL(docs) \/ ~page.readable THEN Nothing
  ELSE Answer([founded |-> page.founded, industry |-> page.industry, website |-> page.website], "builtin")

\* Mutant: the first hit with a website, whosever it is.
ChosenUnverified(hits, domain) ==
  {i \in DOMAIN hits : hits[i].website # Missing}

\* A hit whose site is the company's; any hit with a site while the domain is not known.
Suits(hits, domain) ==
  {i \in DOMAIN hits :
     /\ hits[i].website # Missing
     /\ domain # NoHost => SameHost(hits[i].website, domain)}

Wikidata(hits, domain) ==
  LET suits  == Suits(hits, domain)
      chosen == CHOOSE i \in suits : \A j \in suits : i <= j
  IN  IF suits = {} THEN Nothing
      ELSE Answer([founded |-> hits[chosen].founded, website |-> hits[chosen].website], "wikidata")

EDGAR(listed) == IF listed THEN Answer([stage |-> <<"public">>], "sec_edgar") ELSE Nothing

\* The first posting that names a system, and its first one.
ATS(docs) ==
  LET named == {i \in DOMAIN docs : docs[i].ats # Missing}
      first == CHOOSE i \in named : \A j \in named : i <= j
  IN  IF named = {} THEN Nothing ELSE Answer([ats |-> docs[first].ats], "hh_derived")

------------------------------------------------------------------------------
(* Assemble.                                                                *)

Authority(source) ==
  CASE source = "sec_edgar" -> 4
    [] source = "wikidata" -> 3
    [] source \in {"builtin", "hh_derived"} -> 2
    [] source = "inferred" -> 0
    [] OTHER -> 1

Profile0 == [fields |-> <<>>, domain |-> NoHost]

\* Mutant: who comes first is believed.
BetterIfNew(answer, fields) == DOMAIN answer \ DOMAIN fields

\* The fields of an answer go in where there is none, or one of a lesser source.
Better(answer, fields) ==
  {key \in DOMAIN answer :
     key \in DOMAIN fields => Authority(answer[key].source) > Authority(fields[key].source)}

\* The first website with a host is where later enrichers take the domain from.
Merge(prof, answer) ==
  [fields |-> [key \in DOMAIN prof.fields \cup DOMAIN answer |->
                 IF key \in Better(answer, prof.fields) THEN answer[key] ELSE prof.fields[key]],
   domain |-> IF "website" \in DOMAIN answer /\ prof.domain = NoHost
              THEN HostOf(answer["website"].value) ELSE prof.domain]

Assemble(page, hits, listed, docs) ==
  LET first  == Merge(Profile0, BuiltIn(page, docs))
      second == Merge(first, Wikidata(hits, first.domain))
      third  == Merge(second, EDGAR(listed))
  IN  Merge(third, ATS(docs))

DeriveFlags(prof) ==
  IF "industry" \in DOMAIN prof.fields /\ prof.fields["industry"].value = <<"gambling">>
  THEN {"casino"} ELSE {}

------------------------------------------------------------------------------
(* Properties of enrich.Assemble and its enrichers.                         *)

\* Each field has the value of the most authoritative source that gave one, whatever
\* failed besides; a company is excluded exactly when its page could be read and says so.
BestSourceWins(page, hits, listed, docs) ==
  LET prof    == Assemble(page, hits, listed, docs)
      answers == {BuiltIn(page, docs), Wikidata(hits, Merge(Profile0, BuiltIn(page, docs)).domain),
                  EDGAR(listed), ATS(docs)}
  IN  /\ DOMAIN prof.fields = UNION {DOMAIN a : a \in answers}
      /\ \A key \in DOMAIN prof.fields :
           /\ \E a \in answers : key \in DOMAIN a /\ prof.fields[key] = a[key]
           /\ \A a \in answers :
                key \in DOMAIN a => Authority(a[key].source) <= Authority(prof.fields[key].source)
      /\ DeriveFlags(prof) # {} <=> BuiltInURL(docs) /\ page.readable /\ page.industry = <<"gambling">>

\* No fact is another company's: what Wikidata adds comes from one entity, and if
\* Built In named the site, from one of that site; the domain that is saved is that
\* of the website in the profile.
FactsAreOfOneCompany(page, hits, listed, docs) ==
  LET prof    == Assemble(page, hits, listed, docs)
      theirs  == {key \in DOMAIN prof.fields : prof.fields[key].source = "wikidata"}
      builtin == /\ BuiltInURL(docs) /\ page.readable
                 /\ page.website # Missing /\ HostOf(page.website) # NoHost
  IN  /\ theirs # {} =>
           \E i \in DOMAIN hits :
             /\ \A key \in theirs : prof.fields[key].value = hits[i][key]
             /\ builtin => SameHost(hits[i].website, page.website)
      /\ prof.domain # NoHost => SameHost(prof.fields["website"].value, prof.domain)
      /\ prof.domain = NoHost => "website" \notin DOMAIN prof.fields
                                  \/ HostOf(prof.fields["website"].value) = NoHost
==============================================================================
