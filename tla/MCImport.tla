------------------------------ MODULE MCImport ------------------------------
(* Model values and data for the run of Import: two roles a and b; two     *)
(* report files about a, the longer one with a's url, and two postings.    *)
EXTENDS Import, TLC

CONSTANTS g1, g2, imp, rem, mov

TwoRaters == {g1, g2}
OneImport == {imp}
OneRemedy == {rem}
OneMover  == {mov}

Line(k, s) == [key |-> k, status |-> s]
TwoDocs    == {<<Line("a", "evaluated")>>, <<Line("b", "applied"), Line("a", "evaluated")>>}

KeyOfUrl   == 1 :> "a" @@ 2 :> "b"
KeyOfFile  == 1 :> "a" @@ 2 :> "a"
Lengths    == 1 :> 20 @@ 2 :> 10
UrlOfFile  == 1 :> 1 @@ 2 :> NoUrl

Interchangeable == Permutations(Raters)
==============================================================================
