-------------------------- MODULE CompanyQueueProofs --------------------------
(***************************************************************************)
(* What module CompanyQueue guarantees for any number of companies,        *)
(* goroutines, page views and "Re-profile all" requests.                   *)
(***************************************************************************)
EXTENDS CompanyQueue, TLAPS

\* A goroutine has a company with a row, and was asked for by the last request
\* or overtaken by it; none outlives its process.
SlotsOK ==
  /\ \A w \in Workers :
       \/ slot[w] = IdleSlot
       \/ /\ slot[w].company \in known
          /\ slot[w].asked = requests \/ slot[w].company \in overtaken
          /\ slot[w].asked \in Editions
  /\ dispatcher \in {"down", "boot"} => \A w \in Workers : slot[w] = IdleSlot

\* Until the first request, whoever works on a company holds its claim.
FirstRound ==
  requests = 0 =>
    \A w \in Workers : slot[w] # IdleSlot => slot[w].company \in claimed \ profiled

\* A company that is profiled has no claim: no save leaves one behind.
ClaimsAreOpen == claimed \cap profiled = {}

IInv ==
  /\ TypeOK
  /\ SlotsOK
  /\ FirstRound
  /\ ClaimsAreOpen
  /\ NoOrphanClaim
  /\ ProfiledApart
  /\ ReprofileReaches
  /\ OneSynthesis

USE CompaniesAssumption, ReprofilesAssumption DEF NoCompany, Nothing, Editions

\* The empty table is in the inductive invariant.
THEOREM InitIInv == Init => IInv
<1> SUFFICES ASSUME Init PROVE IInv
  OBVIOUS
<1> USE DEF Init, IdleSlot, IdleView
<1>1. TypeOK
  BY DEF TypeOK
<1>2. SlotsOK /\ FirstRound /\ ClaimsAreOpen
  BY DEF SlotsOK, FirstRound, ClaimsAreOpen
<1>3. NoOrphanClaim /\ ProfiledApart /\ ReprofileReaches /\ OneSynthesis
  BY DEF NoOrphanClaim, ProfiledApart, ReprofileReaches, OneSynthesis
<1>4. QED
  BY <1>1, <1>2, <1>3 DEF IInv

\* Idle slots and views are of the type of slots and views.
LEMMA IdleType ==
  /\ IdleSlot \in [company : Companies \cup {NoCompany}, asked : Editions \cup {Nothing}]
  /\ IdleView \in [at : {"idle", "read", "synthesizing"},
                   company : Companies \cup {NoCompany}, profile : Editions \cup {Nothing}]
  BY DEF IdleSlot, IdleView

\* A goroutine at work has a company of the table.
LEMMA Working ==
  ASSUME IInv, NEW w \in Workers, slot[w] # IdleSlot
  PROVE  slot[w].company \in known /\ slot[w].company \in Companies /\ slot[w].asked \in Editions
  BY DEF IInv, SlotsOK, TypeOK

\* Every step keeps the columns, slots and views typed.
LEMMA TypeStep == IInv /\ [Next]_vars => TypeOK'
<1> SUFFICES ASSUME IInv, [Next]_vars PROVE TypeOK'
  OBVIOUS
<1> USE IdleType DEF vars, rowVars, historyVars
<1>0. TypeOK
  BY DEF IInv
<1>1. ASSUME NEW c \in Companies, UpsertCompany(c) PROVE TypeOK'
  BY <1>0, <1>1 DEF UpsertCompany, TypeOK
<1>2. ASSUME NEW w \in Workers, NEW c \in Companies, ClaimNextUnprofiledCompany(w, c) PROVE TypeOK'
  <2>1. [company |-> c, asked |-> requests]
          \in [company : Companies \cup {NoCompany}, asked : Editions \cup {Nothing}]
    BY <1>0 DEF TypeOK
  <2>2. QED
    BY <1>0, <1>2, <2>1 DEF ClaimNextUnprofiledCompany, Unprofiled, TypeOK
<1>3. ASSUME NEW w \in Workers, NEW f \in BOOLEAN, SaveCompanyProfile(w, f) PROVE TypeOK'
  <2>1. slot[w].company \in known /\ slot[w].asked \in Editions
    BY <1>3, Working DEF SaveCompanyProfile
  <2>2. /\ known' = known /\ claimed' \subseteq claimed
        /\ profiled' \cup facts' \subseteq profiled \cup facts \cup {slot[w].company}
        /\ profile' = [profile EXCEPT ![slot[w].company] = slot[w].asked]
    BY <1>3 DEF SaveCompanyProfile
  <2>3. /\ profile' \in [Companies -> Editions \cup {Nothing}]
        /\ \A c \in known : profile'[c] = IF c = slot[w].company THEN slot[w].asked ELSE profile[c]
    BY <1>0, <2>1, <2>2 DEF TypeOK
  <2>4. slot[w].asked # Nothing
    BY <2>1, ReprofilesAssumption
  <2>5. \A c \in profiled \cup facts : c \in known /\ profile[c] # Nothing
    BY <1>0 DEF TypeOK
  <2>6. profiled' \cup facts' \subseteq {c \in known' : profile'[c] # Nothing}
    <3> SUFFICES ASSUME NEW c \in profiled' \cup facts' PROVE c \in known /\ profile'[c] # Nothing
      BY <2>2
    <3>1. c \in known /\ (c # slot[w].company => profile[c] # Nothing)
      BY <2>1, <2>2, <2>5
    <3>2. QED
      BY <2>3, <2>4, <3>1
  <2>7. QED
    BY <1>0, <1>3, <2>1, <2>2, <2>3, <2>6 DEF SaveCompanyProfile, TypeOK
<1>4. ASSUME NEW w \in Workers, ReleaseCompanyClaim(w) \/ ReleaseFails(w) PROVE TypeOK'
  <2>1. CASE ReleaseCompanyClaim(w)
    BY <1>0, <2>1 DEF ReleaseCompanyClaim, TypeOK
  <2>2. CASE ReleaseFails(w)
    <3>1. slot[w].company \in Companies
      BY <2>2, Working DEF ReleaseFails
    <3>2. QED
      BY <1>0, <2>2, <3>1 DEF ReleaseFails, TypeOK
  <2>3. QED
    BY <1>4, <2>1, <2>2
<1>5. CASE ReprofileAll
  BY <1>0, <1>5 DEF ReprofileAll, AtWork, TypeOK
<1>6. ASSUME NEW v \in Views, NEW c \in Companies, GetCompany(v, c) PROVE TypeOK'
  <2>1. [at |-> "read", company |-> c, profile |-> profile[c]]
          \in [at : {"idle", "read", "synthesizing"},
               company : Companies \cup {NoCompany}, profile : Editions \cup {Nothing}]
    BY <1>0 DEF TypeOK
  <2>2. QED
    BY <1>0, <1>6, <2>1 DEF GetCompany, TypeOK
<1>7. ASSUME NEW v \in Views, MaybeSynthesize(v) PROVE TypeOK'
  BY <1>0, <1>7 DEF MaybeSynthesize, TypeOK
<1>8. ASSUME NEW v \in Views, SetCompanySummary(v) \/ SynthesisFails(v) PROVE TypeOK'
  <2>1. CASE SetCompanySummary(v)
    <3>1. view[v].profile \in Editions \cup {Nothing}
      BY <1>0 DEF TypeOK
    <3>2. QED
      BY <1>0, <2>1, <3>1 DEF SetCompanySummary, TypeOK
  <2>2. CASE SynthesisFails(v)
    BY <1>0, <2>2 DEF SynthesisFails, TypeOK
  <2>3. QED
    BY <1>8, <2>1, <2>2
<1>9. CASE Poll \/ ClaimNone \/ Boot \/ \E on \in BOOLEAN : ProfilePause(on)
  BY <1>0, <1>9 DEF Poll, Unprofiled, ClaimNone, Boot, ProfilePause, TypeOK
<1>10. CASE Crash \/ ReclaimStaleCompanyClaims
  <2>1. CASE Crash
    BY <1>0, <2>1 DEF Crash, TypeOK
  <2>2. CASE ReclaimStaleCompanyClaims
    BY <1>0, <2>2 DEF ReclaimStaleCompanyClaims, TypeOK
  <2>3. QED
    BY <1>10, <2>1, <2>2
<1>11. CASE UNCHANGED vars
  BY <1>0, <1>11 DEF TypeOK
<1>12. QED
  BY <1>1, <1>2, <1>3, <1>4, <1>5, <1>6, <1>7, <1>8, <1>9, <1>10, <1>11 DEF Next

\* Only a claim sets a goroutine to work; every other step leaves it alone or
\* ends its work.
LEMMA SlotSteps ==
  ASSUME IInv, [Next]_vars
  PROVE  \/ \E w \in Workers, c \in Companies : ClaimNextUnprofiledCompany(w, c)
         \/ \A w \in Workers : slot'[w] = slot[w] \/ slot'[w] = IdleSlot
<1>1. TypeOK
  BY DEF IInv
<1>2. ASSUME NEW w \in Workers,
             ReleaseCompanyClaim(w) \/ ReleaseFails(w) \/ \E f \in BOOLEAN : SaveCompanyProfile(w, f)
      PROVE  \A u \in Workers : slot'[u] = slot[u] \/ slot'[u] = IdleSlot
  BY <1>1, <1>2 DEF ReleaseCompanyClaim, ReleaseFails, SaveCompanyProfile, TypeOK
<1>3. CASE Crash
  BY <1>3 DEF Crash
<1>4. QED
  BY <1>2, <1>3
     DEF Next, vars, UpsertCompany, Poll, ClaimNone, ReprofileAll, ProfilePause, GetCompany,
         MaybeSynthesize, SetCompanySummary, SynthesisFails, Boot, ReclaimStaleCompanyClaims

\* A claim gives a company of the queue to an idle goroutine.
LEMMA ClaimSets ==
  \A w \in Workers, c \in Companies : IInv /\ ClaimNextUnprofiledCompany(w, c) =>
    /\ slot[w].company = NoCompany /\ slot'[w].company = c /\ slot'[w].asked = requests
    /\ \A u \in Workers : u # w => slot'[u] = slot[u]
    /\ c \in known /\ c \notin profiled /\ c \notin claimed
    /\ claimed' = claimed \cup {c}
    /\ UNCHANGED <<known, profiled, profile, requests, overtaken, lost>>
    /\ dispatcher = "claim" /\ dispatcher' = "poll"
<1> SUFFICES ASSUME NEW w \in Workers, NEW c \in Companies, IInv, ClaimNextUnprofiledCompany(w, c)
             PROVE  /\ slot[w].company = NoCompany /\ slot'[w].company = c /\ slot'[w].asked = requests
                    /\ \A u \in Workers : u # w => slot'[u] = slot[u]
                    /\ c \in known /\ c \notin profiled /\ c \notin claimed
                    /\ claimed' = claimed \cup {c}
                    /\ UNCHANGED <<known, profiled, profile, requests, overtaken, lost>>
                    /\ dispatcher = "claim" /\ dispatcher' = "poll"
  OBVIOUS
<1>1. slot[w].company = NoCompany /\ slot'[w] = [company |-> c, asked |-> requests]
  BY DEF ClaimNextUnprofiledCompany, IInv, TypeOK, IdleSlot
<1>2. \A u \in Workers : u # w => slot'[u] = slot[u]
  BY DEF ClaimNextUnprofiledCompany, IInv, TypeOK
<1>3. QED
  BY <1>1, <1>2 DEF ClaimNextUnprofiledCompany, Unprofiled, rowVars, historyVars

\* Requests overtake whoever is at work when they come.
LEMMA SlotsStep == IInv /\ [Next]_vars => SlotsOK'
<1> SUFFICES ASSUME IInv, [Next]_vars PROVE SlotsOK'
  OBVIOUS
<1> USE DEF vars, rowVars, historyVars
<1>0. TypeOK /\ SlotsOK /\ TypeOK'
  BY TypeStep DEF IInv
<1>1. ASSUME NEW w \in Workers, NEW c \in Companies, ClaimNextUnprofiledCompany(w, c) PROVE SlotsOK'
  <2>1. requests \in Editions
    BY <1>0 DEF TypeOK
  <2>2. /\ slot'[w].company = c /\ slot'[w].asked = requests
        /\ \A u \in Workers : u # w => slot'[u] = slot[u]
        /\ c \in known /\ dispatcher' = "poll"
        /\ UNCHANGED <<known, requests, overtaken>>
    BY <1>1, ClaimSets
  <2>3. QED
    BY <1>0, <2>1, <2>2 DEF SlotsOK
<1>2. CASE ReprofileAll
  <2>1. \A w \in Workers : slot[w] # IdleSlot => slot[w].company \in overtaken'
    BY <1>2, Working DEF ReprofileAll, AtWork
  <2>2. QED
    BY <1>0, <1>2, <2>1 DEF ReprofileAll, SlotsOK
<1>3. ASSUME \A w \in Workers : slot'[w] = slot[w] \/ slot'[w] = IdleSlot,
             known \subseteq known', UNCHANGED <<requests, overtaken>>,
             \/ dispatcher' \notin {"down", "boot"}
             \/ dispatcher \in {"down", "boot"}
             \/ \A w \in Workers : slot'[w] = IdleSlot
      PROVE  SlotsOK'
  BY <1>0, <1>3 DEF SlotsOK
<1>4. CASE Crash
  BY <1>3, <1>4 DEF Crash
<1>5. ASSUME NEW w \in Workers,
             ReleaseCompanyClaim(w) \/ ReleaseFails(w) \/ \E f \in BOOLEAN : SaveCompanyProfile(w, f)
      PROVE  SlotsOK'
  <2>1. \A u \in Workers : slot'[u] = slot[u] \/ slot'[u] = IdleSlot
    BY <1>0, <1>5 DEF ReleaseCompanyClaim, ReleaseFails, SaveCompanyProfile, TypeOK
  <2>2. UNCHANGED <<known, requests, overtaken, dispatcher>>
    BY <1>5 DEF ReleaseCompanyClaim, ReleaseFails, SaveCompanyProfile
  <2>3. QED
    BY <1>3, <2>1, <2>2
<1>6. QED
  BY <1>1, <1>2, <1>3, <1>4, <1>5
     DEF Next, UpsertCompany, Poll, ClaimNone, ProfilePause, GetCompany, MaybeSynthesize,
         SetCompanySummary, SynthesisFails, Boot, ReclaimStaleCompanyClaims

\* Before the first request nobody's claim is cleared but by its owner.
LEMMA FirstRoundStep == IInv /\ [Next]_vars => FirstRound'
<1> SUFFICES ASSUME IInv, [Next]_vars, requests' = 0, NEW u \in Workers, slot'[u] # IdleSlot
             PROVE  slot'[u].company \in claimed' \ profiled'
  BY DEF FirstRound
<1> USE DEF vars, rowVars, historyVars
<1>0. TypeOK /\ SlotsOK /\ FirstRound /\ ProfiledApart
  BY DEF IInv
<1>1. ASSUME NEW w \in Workers, NEW c \in Companies, ClaimNextUnprofiledCompany(w, c)
      PROVE  slot'[u].company \in claimed' \ profiled'
  <2>1. /\ slot'[w].company = c /\ \A v \in Workers : v # w => slot'[v] = slot[v]
        /\ c \notin profiled /\ claimed' = claimed \cup {c}
        /\ UNCHANGED <<profiled, requests>>
    BY <1>1, ClaimSets
  <2>2. CASE u = w
    BY <2>1, <2>2
  <2>3. CASE u # w
    BY <1>0, <2>1, <2>3 DEF FirstRound
  <2>4. QED
    BY <2>2, <2>3
<1>2. CASE ReprofileAll
  BY <1>0, <1>2 DEF ReprofileAll, TypeOK
<1>3. ASSUME NEW w \in Workers,
             ReleaseCompanyClaim(w) \/ ReleaseFails(w) \/ \E f \in BOOLEAN : SaveCompanyProfile(w, f)
      PROVE  slot'[u].company \in claimed' \ profiled'
  <2>1. u # w /\ slot'[u] = slot[u] /\ requests = 0
    BY <1>0, <1>3 DEF ReleaseCompanyClaim, ReleaseFails, SaveCompanyProfile, TypeOK
  <2>2. slot[u].company # slot[w].company
    BY <1>0, <2>1 DEF ProfiledApart
  <2>3. slot[u].company \in claimed \ profiled
    BY <1>0, <2>1 DEF FirstRound
  <2>4. claimed \ {slot[w].company} \subseteq claimed' /\ profiled' \subseteq profiled \cup {slot[w].company}
    BY <1>3 DEF ReleaseCompanyClaim, ReleaseFails, SaveCompanyProfile
  <2>5. QED
    BY <2>1, <2>2, <2>3, <2>4
<1>4. CASE Crash
  BY <1>4 DEF Crash
<1>5. CASE ReclaimStaleCompanyClaims
  BY <1>0, <1>5 DEF ReclaimStaleCompanyClaims, SlotsOK
<1>6. ASSUME UNCHANGED <<slot, claimed, profiled, requests>>
      PROVE  slot'[u].company \in claimed' \ profiled'
  BY <1>0, <1>6 DEF FirstRound
<1>7. QED
  BY <1>1, <1>2, <1>3, <1>4, <1>5, <1>6
     DEF Next, UpsertCompany, Poll, ClaimNone, ProfilePause, GetCompany, MaybeSynthesize,
         SetCompanySummary, SynthesisFails, Boot

\* A claim is cleared with, or after, the work it was made for.
LEMMA OrphanStep == IInv /\ [Next]_vars => NoOrphanClaim'
<1> SUFFICES ASSUME IInv, [Next]_vars, dispatcher' \in {"poll", "claim"}, NEW c \in claimed', c \notin lost'
             PROVE  \E w \in Workers : slot'[w].company = c /\ c # NoCompany
  BY DEF NoOrphanClaim, AtWork
<1> USE DEF vars, rowVars, historyVars
<1>0. TypeOK /\ NoOrphanClaim /\ claimed \subseteq Companies
  BY DEF IInv, TypeOK
<1>1. ASSUME dispatcher \in {"poll", "claim"}, c \in claimed, c \notin lost,
             \A u \in Workers : slot[u].company = c => slot'[u] = slot[u]
      PROVE  \E w \in Workers : slot'[w].company = c /\ c # NoCompany
  <2>1. PICK w \in Workers : slot[w].company = c /\ c # NoCompany
    BY <1>0, <1>1 DEF NoOrphanClaim, AtWork
  <2>2. QED
    BY <1>1, <2>1
<1>2. ASSUME NEW w \in Workers, NEW d \in Companies, ClaimNextUnprofiledCompany(w, d)
      PROVE  \E u \in Workers : slot'[u].company = c /\ c # NoCompany
  <2>1. /\ slot'[w].company = d /\ \A u \in Workers : u # w => slot'[u] = slot[u]
        /\ slot[w].company = NoCompany /\ claimed' = claimed \cup {d} /\ lost' = lost
        /\ dispatcher = "claim"
    BY <1>2, ClaimSets
  <2>2. CASE c = d
    BY <2>1, <2>2
  <2>3. CASE c # d
    <3>1. c \in claimed /\ c \in Companies
      BY <1>0, <2>1, <2>3
    <3>2. QED
      BY <1>1, <2>1, <3>1
  <2>4. QED
    BY <2>2, <2>3
<1>3. ASSUME NEW w \in Workers,
             ReleaseCompanyClaim(w) \/ ReleaseFails(w) \/ \E f \in BOOLEAN : SaveCompanyProfile(w, f)
      PROVE  \E u \in Workers : slot'[u].company = c /\ c # NoCompany
  <2>1. slot[w].company # c /\ c \in claimed /\ c \notin lost /\ dispatcher' = dispatcher
    BY <1>3 DEF ReleaseCompanyClaim, ReleaseFails, SaveCompanyProfile
  <2>2. \A u \in Workers : u # w => slot'[u] = slot[u]
    BY <1>0, <1>3 DEF ReleaseCompanyClaim, ReleaseFails, SaveCompanyProfile, TypeOK
  <2>3. QED
    BY <1>1, <2>1, <2>2
<1>4. CASE ReprofileAll
  BY <1>4 DEF ReprofileAll
<1>5. CASE Crash \/ Boot \/ ReclaimStaleCompanyClaims
  BY <1>5 DEF Crash, Boot, ReclaimStaleCompanyClaims
<1>6. ASSUME UNCHANGED <<slot, claimed, lost>>, dispatcher \in {"poll", "claim"}
      PROVE  \E w \in Workers : slot'[w].company = c /\ c # NoCompany
  BY <1>1, <1>6
<1>7. QED
  BY <1>2, <1>3, <1>4, <1>5, <1>6
     DEF Next, UpsertCompany, Poll, ClaimNone, ProfilePause, GetCompany, MaybeSynthesize,
         SetCompanySummary, SynthesisFails

\* A claim is for a company of the queue, and a save clears it.
LEMMA OpenStep == IInv /\ [Next]_vars => ClaimsAreOpen'
<1> SUFFICES ASSUME IInv, [Next]_vars PROVE ClaimsAreOpen'
  OBVIOUS
<1> USE DEF vars, rowVars, ClaimsAreOpen
<1>1. ASSUME NEW w \in Workers, NEW c \in Companies, ClaimNextUnprofiledCompany(w, c)
      PROVE  ClaimsAreOpen'
  <2>1. c \notin profiled /\ claimed' = claimed \cup {c} /\ profiled' = profiled
    BY <1>1, ClaimSets
  <2> QED
    BY <2>1 DEF IInv
<1>2. CASE \E w \in Workers : \/ \E f \in BOOLEAN : SaveCompanyProfile(w, f)
                              \/ ReleaseCompanyClaim(w)
                              \/ ReleaseFails(w)
  BY <1>2 DEF SaveCompanyProfile, ReleaseCompanyClaim, ReleaseFails, IInv
<1>3. CASE ReprofileAll \/ ReclaimStaleCompanyClaims
  BY <1>3 DEF ReprofileAll, ReclaimStaleCompanyClaims, IInv
<1>4. ASSUME UNCHANGED <<claimed, profiled>> PROVE ClaimsAreOpen'
  BY <1>4 DEF IInv
<1> QED
  BY <1>1, <1>2, <1>3, <1>4
     DEF Next, UpsertCompany, Poll, ClaimNone, ProfilePause, GetCompany, MaybeSynthesize,
         SetCompanySummary, SynthesisFails, Crash, Boot

\* Goroutines that are started in the first round get a company nobody holds.
LEMMA ApartStep == IInv /\ [Next]_vars => ProfiledApart'
<1> SUFFICES ASSUME IInv, [Next]_vars, requests' = 0, NEW t \in Workers, NEW u \in Workers,
                    slot'[t].company = slot'[u].company, slot'[t] # IdleSlot
             PROVE  t = u
  BY DEF ProfiledApart
<1> USE DEF vars, rowVars, historyVars
<1>0. TypeOK /\ SlotsOK /\ FirstRound /\ ProfiledApart /\ TypeOK' /\ SlotsOK'
  BY TypeStep, SlotsStep DEF IInv
<1>1. slot'[u] # IdleSlot
  <2>1. slot'[t].company # NoCompany
    BY <1>0 DEF SlotsOK, TypeOK
  <2>2. QED
    BY <2>1 DEF IdleSlot
<1>2. requests = 0
  <2>1. CASE ReprofileAll
    BY <1>0, <2>1 DEF ReprofileAll, TypeOK
  <2>2. QED
    BY <2>1
       DEF Next, UpsertCompany, Poll, ClaimNextUnprofiledCompany, ClaimNone, SaveCompanyProfile,
           ReleaseCompanyClaim, ReleaseFails, ProfilePause, GetCompany, MaybeSynthesize,
           SetCompanySummary, SynthesisFails, Crash, Boot, ReclaimStaleCompanyClaims
<1>3. ASSUME NEW w \in Workers, NEW c \in Companies, ClaimNextUnprofiledCompany(w, c) PROVE t = u
  <2>1. /\ slot'[w].company = c /\ \A v \in Workers : v # w => slot'[v] = slot[v]
        /\ c \notin claimed
    BY <1>3, ClaimSets
  <2>2. \A v \in Workers : v # w /\ slot'[v] # IdleSlot => slot'[v].company # c
    BY <1>0, <1>2, <2>1 DEF FirstRound
  <2>3. QED
    BY <1>0, <1>1, <1>2, <2>1, <2>2 DEF ProfiledApart
<1>4. CASE \A w \in Workers : slot'[w] = slot[w] \/ slot'[w] = IdleSlot
  BY <1>0, <1>1, <1>2, <1>4 DEF ProfiledApart
<1>5. QED
  BY <1>3, <1>4, SlotSteps

\* A request empties `profiled`; afterwards only a save adds to it.
LEMMA ReachesStep == IInv /\ [Next]_vars => ReprofileReaches'
<1> SUFFICES ASSUME IInv, [Next]_vars, NEW c \in profiled'
             PROVE  profile'[c] = requests' \/ c \in overtaken'
  BY DEF ReprofileReaches
<1> USE DEF vars, rowVars, historyVars
<1>0. TypeOK /\ SlotsOK /\ ReprofileReaches
  BY DEF IInv
<1>1. ASSUME NEW w \in Workers, NEW f \in BOOLEAN, SaveCompanyProfile(w, f)
      PROVE  profile'[c] = requests' \/ c \in overtaken'
  <2>1. slot[w].asked = requests \/ slot[w].company \in overtaken
    BY <1>0, <1>1 DEF SaveCompanyProfile, SlotsOK
  <2>2. slot[w].company \in Companies /\ UNCHANGED <<requests, overtaken>>
    BY <1>1, Working DEF SaveCompanyProfile
  <2>3. profile' = [profile EXCEPT ![slot[w].company] = slot[w].asked]
    BY <1>1 DEF SaveCompanyProfile
  <2>4. CASE c = slot[w].company
    BY <1>0, <2>1, <2>2, <2>3, <2>4 DEF TypeOK
  <2>5. CASE c # slot[w].company
    <3>1. c \in profiled /\ c \in Companies
      BY <1>0, <1>1, <2>5 DEF SaveCompanyProfile, TypeOK
    <3>2. QED
      BY <1>0, <2>2, <2>3, <2>5, <3>1 DEF ReprofileReaches, TypeOK
  <2>6. QED
    BY <2>4, <2>5
<1>2. CASE ReprofileAll
  BY <1>2 DEF ReprofileAll
<1>3. ASSUME UNCHANGED <<profiled, profile, requests, overtaken>>
      PROVE  profile'[c] = requests' \/ c \in overtaken'
  BY <1>0, <1>3 DEF ReprofileReaches
<1>4. QED
  BY <1>1, <1>2, <1>3
     DEF Next, UpsertCompany, Poll, ClaimNextUnprofiledCompany, ClaimNone, ReleaseCompanyClaim,
         ReleaseFails, ProfilePause, GetCompany, MaybeSynthesize, SetCompanySummary,
         SynthesisFails, Crash, Boot, ReclaimStaleCompanyClaims

\* A view synthesizes what no other does; it stops before it turns to another.
LEMMA OneStep == IInv /\ [Next]_vars => OneSynthesis'
<1> SUFFICES ASSUME IInv, [Next]_vars PROVE OneSynthesis'
  OBVIOUS
<1> USE DEF vars, rowVars, historyVars
<1>0. TypeOK /\ OneSynthesis
  BY DEF IInv
<1>1. ASSUME \A v \in Views : view'[v] = view[v] \/ view'[v].at # "synthesizing" PROVE OneSynthesis'
  BY <1>0, <1>1 DEF OneSynthesis
<1>2. ASSUME NEW v \in Views, MaybeSynthesize(v), view[v].company \notin Synthesizing PROVE OneSynthesis'
  <2>1. /\ view'[v].company = view[v].company
        /\ \A u \in Views : u # v => view'[u] = view[u]
    BY <1>0, <1>2 DEF MaybeSynthesize, TypeOK
  <2>2. \A u \in Views : view[u].at = "synthesizing" => view[u].company # view[v].company
    BY <1>2 DEF Synthesizing
  <2>3. QED
    BY <1>0, <2>1, <2>2 DEF OneSynthesis
<1>3. ASSUME NEW v \in Views, MaybeSynthesize(v), view[v].company \in Synthesizing PROVE OneSynthesis'
  BY <1>0, <1>1, <1>3 DEF MaybeSynthesize, IdleView, TypeOK
<1>4. ASSUME NEW v \in Views, SetCompanySummary(v) \/ SynthesisFails(v) PROVE OneSynthesis'
  BY <1>0, <1>1, <1>4 DEF SetCompanySummary, SynthesisFails, IdleView, TypeOK
<1>5. ASSUME NEW v \in Views, NEW c \in Companies, GetCompany(v, c) PROVE OneSynthesis'
  BY <1>0, <1>1, <1>5 DEF GetCompany, TypeOK
<1>6. CASE Crash
  BY <1>1, <1>6 DEF Crash, IdleView
<1>7. CASE UNCHANGED view
  BY <1>1, <1>7
<1>8. QED
  BY <1>2, <1>3, <1>4, <1>5, <1>6, <1>7
     DEF Next, UpsertCompany, Poll, ClaimNextUnprofiledCompany, ClaimNone, SaveCompanyProfile,
         ReleaseCompanyClaim, ReleaseFails, ReprofileAll, ProfilePause, Boot,
         ReclaimStaleCompanyClaims

------------------------------------------------------------------------------
\* Whatever crashes, fails, is paused or asked again: the queue stays sound.
THEOREM Invariance == Spec => []IInv
<1>1. IInv /\ [Next]_vars => IInv'
  BY TypeStep, SlotsStep, FirstRoundStep, OpenStep, OrphanStep, ApartStep, ReachesStep, OneStep DEF IInv
<1>2. QED
  BY InitIInv, <1>1, PTL DEF Spec

\* Every column, goroutine and view holds a value of its type.
THEOREM TypeCorrect == Spec => []TypeOK
<1>1. IInv => TypeOK
  BY DEF IInv
<1>2. QED
  BY Invariance, <1>1, PTL

\* ReclaimStaleCompanyClaims and the releases leave no claim without a worker,
\* but those whose release failed.
THEOREM ClaimsHaveWorkers == Spec => []NoOrphanClaim
<1>1. IInv => NoOrphanClaim
  BY DEF IInv
<1>2. QED
  BY Invariance, <1>1, PTL

\* The claim of ClaimNextUnprofiledCompany keeps goroutines apart.
THEOREM WorkersApart == Spec => []ProfiledApart
<1>1. IInv => ProfiledApart
  BY DEF IInv
<1>2. QED
  BY Invariance, <1>1, PTL

\* What ReprofileAll achieves although it tells nobody.
THEOREM RequestsReach == Spec => []ReprofileReaches
<1>1. IInv => ReprofileReaches
  BY DEF IInv
<1>2. QED
  BY Invariance, <1>1, PTL

\* maybeSynthesize's map is a mutual exclusion per company.
THEOREM SynthesesExclude == Spec => []OneSynthesis
<1>1. IInv => OneSynthesis
  BY DEF IInv
<1>2. QED
  BY Invariance, <1>1, PTL

------------------------------------------------------------------------------
(* Until the first request the claims implement the work queue: every step *)
(* is one of WorkQueue or leaves the queue as it is.                       *)

\* What a goroutine works on, as the work queue sees it.
Holds == [w \in Workers |-> slot[w].company]

LEMMA HeldAreAtWork == WQ!Held = AtWork
BY DEF WQ!Held, AtWork

\* The queue is a function of four columns.
LEMMA QueueFrame ==
  ASSUME UNCHANGED <<known, claimed, profiled, slot>>
  PROVE  UNCHANGED WQ!queueVars
BY DEF WQ!queueVars, Unprofiled, Abandoned, AtWork

\* A goroutine is idle exactly when it has no company.
LEMMA IdleHasNone ==
  ASSUME IInv, NEW w \in Workers
  PROVE  slot[w] = IdleSlot <=> slot[w].company = NoCompany
<1>1. slot[w] # IdleSlot => slot[w].company # NoCompany
  BY Working
<1> QED
  BY <1>1 DEF IdleSlot

\* A new company was not in the queue.
LEMMA CompanyArrives ==
  ASSUME IInv, NEW c \in Companies, UpsertCompany(c)
  PROVE  WQ!Arrive({c})
<1>0. TypeOK /\ SlotsOK /\ c \notin known
  BY DEF IInv, UpsertCompany
<1>1. /\ known' = known \cup {c} /\ slot' = slot
      /\ claimed' = claimed /\ profiled' = profiled
  BY DEF UpsertCompany
<1>2. c \notin claimed \cup profiled \cup AtWork
  BY <1>0 DEF TypeOK, SlotsOK, AtWork, IdleSlot
<1>3. Unprofiled' = Unprofiled \cup {c} /\ Abandoned' = Abandoned /\ Holds' = Holds
  BY <1>1, <1>2 DEF Unprofiled, Abandoned, AtWork, Holds
<1>4. {c} \cap (Unprofiled \cup Abandoned \cup WQ!Held) = {}
  BY <1>0, <1>2, HeldAreAtWork DEF Unprofiled, Abandoned, TypeOK
<1> QED
  BY <1>3, <1>4 DEF WQ!Arrive, Holds

\* The company claimed is the oldest of the queue that no ingest holds.
LEMMA ClaimTakes ==
  ASSUME IInv, NEW w \in Workers, NEW c \in Companies, ClaimNextUnprofiledCompany(w, c)
  PROVE  WQ!Take(w, c)
<1>1. /\ slot[w].company = NoCompany /\ slot'[w].company = c
      /\ \A u \in Workers : u # w => slot'[u] = slot[u]
      /\ c \notin claimed /\ claimed' = claimed \cup {c}
      /\ known' = known /\ profiled' = profiled
  BY ClaimSets
<1>2. c \in Unprofiled /\ \A d \in Unprofiled : d < c => d \in ingesting
  BY DEF ClaimNextUnprofiledCompany
<1>3. Unprofiled' = Unprofiled \ {c}
  BY <1>1 DEF Unprofiled
<1>4. Holds' = [Holds EXCEPT ![w] = c]
  BY <1>1 DEF Holds
<1>5. AtWork' = AtWork \cup {c}
  BY <1>1 DEF AtWork
<1>6. Abandoned' = Abandoned
  BY <1>1, <1>5 DEF Abandoned
<1>7. Holds[w] = NoCompany
  BY <1>1 DEF Holds
<1> QED
  BY <1>2, <1>3, <1>4, <1>6, <1>7 DEF WQ!Take, Holds

\* A goroutine that ends leaves the queue: its company is profiled, or given
\* back, or its release failed.
LEMMA WorkerLeaves ==
  ASSUME IInv, requests = 0, NEW w \in Workers,
         \/ \E f \in BOOLEAN : SaveCompanyProfile(w, f)
         \/ ReleaseCompanyClaim(w)
         \/ ReleaseFails(w)
  PROVE  WQ!Leave(w)
<1> DEFINE c == slot[w].company
<1>0. TypeOK /\ FirstRound /\ ProfiledApart /\ slot[w] # IdleSlot
  BY DEF IInv, SaveCompanyProfile, ReleaseCompanyClaim, ReleaseFails
<1>1. c \in known /\ c \in claimed /\ c \notin profiled /\ c # NoCompany
  BY <1>0, Working DEF FirstRound
<1>2. /\ slot' = [slot EXCEPT ![w] = IdleSlot] /\ known' = known
  BY DEF SaveCompanyProfile, ReleaseCompanyClaim, ReleaseFails, rowVars
<1>3. slot'[w].company = NoCompany /\ \A u \in Workers : u # w => slot'[u] = slot[u]
  BY <1>0, <1>2 DEF TypeOK, IdleSlot
<1>4. Holds' = [Holds EXCEPT ![w] = NoCompany] /\ Holds[w] = c
  BY <1>3 DEF Holds
<1>5. AtWork' = AtWork \ {c} /\ c \in AtWork
  <2>1. \A u \in Workers : slot[u].company = c => u = w
    BY <1>0 DEF ProfiledApart
  <2> QED
    BY <1>1, <1>3, <2>1 DEF AtWork
<1> HIDE DEF c
<1>6. CASE \E f \in BOOLEAN : SaveCompanyProfile(w, f)
  <2>1. profiled' = profiled \cup {c} /\ claimed' = claimed \ {c}
    BY <1>6 DEF SaveCompanyProfile, c
  <2>2. Unprofiled' = Unprofiled /\ Abandoned' = Abandoned
    BY <1>1, <1>2, <1>5, <2>1 DEF Unprofiled, Abandoned
  <2> QED
    BY <1>1, <1>4, <2>2 DEF WQ!Leave, Holds
<1>7. CASE ReleaseCompanyClaim(w)
  <2>1. profiled' = profiled /\ claimed' = claimed \ {c}
    BY <1>7 DEF ReleaseCompanyClaim, c
  <2>2. Unprofiled' = Unprofiled \cup {c} /\ Abandoned' = Abandoned
    BY <1>1, <1>2, <1>5, <2>1 DEF Unprofiled, Abandoned
  <2> QED
    BY <1>1, <1>4, <2>2 DEF WQ!Leave, Holds
<1>8. CASE ReleaseFails(w)
  <2>1. profiled' = profiled /\ claimed' = claimed
    BY <1>8 DEF ReleaseFails, rowVars
  <2>2. Unprofiled' = Unprofiled /\ Abandoned' = Abandoned \cup {c}
    BY <1>1, <1>2, <1>5, <2>1 DEF Unprofiled, Abandoned
  <2> QED
    BY <1>1, <1>4, <2>2 DEF WQ!Leave, Holds
<1> QED
  BY <1>6, <1>7, <1>8

\* A crash takes the goroutines and leaves their claims in the database.
LEMMA CrashStops ==
  ASSUME IInv, requests = 0, Crash
  PROVE  WQ!Stop({})
<1>0. FirstRound /\ UNCHANGED <<known, claimed, profiled>> /\ slot' = [w \in Workers |-> IdleSlot]
  BY DEF IInv, Crash, rowVars
<1>1. AtWork' = {} /\ Holds' = [w \in Workers |-> NoCompany]
  BY <1>0 DEF AtWork, Holds, IdleSlot
<1>2. AtWork \subseteq claimed
  BY <1>0 DEF FirstRound, AtWork, IdleSlot
<1>3. Unprofiled' = Unprofiled /\ Abandoned' = Abandoned \cup (WQ!Held \ {})
  BY <1>0, <1>1, <1>2, HeldAreAtWork DEF Unprofiled, Abandoned
<1> QED
  BY <1>1, <1>3 DEF WQ!Stop, Holds

\* The reclaiming at boot finds no goroutine at work; the claims it clears are of
\* companies still to be profiled.
LEMMA ReclaimRecovers ==
  ASSUME IInv, ReclaimStaleCompanyClaims
  PROVE  WQ!Recover \/ UNCHANGED WQ!queueVars
<1>0. /\ TypeOK /\ SlotsOK /\ claimed \cap profiled = {}
      /\ UNCHANGED <<known, profiled, slot>> /\ dispatcher = "boot"
  BY DEF IInv, ClaimsAreOpen, ReclaimStaleCompanyClaims
<1>1. CASE claimed' = claimed
  BY <1>0, <1>1, QueueFrame
<1>2. CASE claimed' = {}
  <2>1. AtWork = {} /\ AtWork' = {}
    BY <1>0 DEF SlotsOK, AtWork, IdleSlot
  <2>2. Unprofiled' = Unprofiled \cup Abandoned /\ Abandoned' = {} /\ Holds' = Holds
    BY <1>0, <1>2, <2>1 DEF Unprofiled, Abandoned, TypeOK, Holds
  <2> QED
    BY <2>1, <2>2, HeldAreAtWork DEF WQ!Recover, Holds
<1> QED
  BY <1>1, <1>2 DEF ReclaimStaleCompanyClaims

\* Only a request to re-profile raises the number of requests.
LEMMA RequestsRise ==
  ASSUME IInv, [Next]_vars, requests' = 0
  PROVE  requests = 0 /\ ~ReprofileAll
<1>1. ~ReprofileAll
  BY DEF ReprofileAll, IInv, TypeOK
<1> QED
  BY <1>1
     DEF Next, vars, historyVars, UpsertCompany, Poll, ClaimNextUnprofiledCompany, ClaimNone,
         SaveCompanyProfile, ReleaseCompanyClaim, ReleaseFails, ProfilePause, GetCompany,
         MaybeSynthesize, SetCompanySummary, SynthesisFails, Crash, Boot, ReclaimStaleCompanyClaims

\* Every step before the first request is a step of the work queue, or none.
LEMMA QueueStep ==
  ASSUME IInv, [Next]_vars, requests' = 0
  PROVE  WQ!QueueNext \/ UNCHANGED WQ!queueVars
<1> USE DEF rowVars, historyVars, WQ!QueueNext
<1>0. requests = 0 /\ ~ReprofileAll
  BY RequestsRise
<1>1. CASE \E c \in Companies : UpsertCompany(c)
  BY <1>1, CompanyArrives
<1>2. CASE \E w \in Workers, c \in Companies : ClaimNextUnprofiledCompany(w, c)
  BY <1>2, ClaimTakes
<1>3. CASE \E w \in Workers : \/ \E f \in BOOLEAN : SaveCompanyProfile(w, f)
                              \/ ReleaseCompanyClaim(w)
                              \/ ReleaseFails(w)
  BY <1>0, <1>3, WorkerLeaves
<1>4. CASE Poll \/ ClaimNone \/ Boot \/ \E on \in BOOLEAN : ProfilePause(on)
  BY <1>4, QueueFrame DEF Poll, ClaimNone, Boot, ProfilePause
<1>5. CASE \E v \in Views : \/ \E c \in Companies : GetCompany(v, c)
                            \/ MaybeSynthesize(v) \/ SetCompanySummary(v) \/ SynthesisFails(v)
  BY <1>5, QueueFrame DEF GetCompany, MaybeSynthesize, SetCompanySummary, SynthesisFails
<1>6. CASE Crash
  BY <1>0, <1>6, CrashStops
<1>7. CASE ReclaimStaleCompanyClaims
  BY <1>7, ReclaimRecovers
<1>8. CASE UNCHANGED vars
  BY <1>8, QueueFrame DEF vars
<1> QED
  BY <1>0, <1>1, <1>2, <1>3, <1>4, <1>5, <1>6, <1>7, <1>8 DEF Next

\* RunProfiler, ClaimNextUnprofiledCompany, SaveCompanyProfile, ReleaseCompanyClaim
\* and ReclaimStaleCompanyClaims together are a work queue until the first
\* "Re-profile all", for any number of companies and goroutines.
THEOREM ProfilerIsWorkQueue == Spec => ServesAsWorkQueue
<1>1. Init => WQ!QueueInit
  BY DEF Init, WQ!QueueInit, Unprofiled, Abandoned, IdleSlot
<1>2. IInv /\ [Next]_vars => [requests' = 0 => WQ!QueueNext \/ UNCHANGED WQ!queueVars]_vars
  BY QueueStep
<1> QED
  BY <1>1, <1>2, Invariance, PTL DEF Spec, ServesAsWorkQueue
==============================================================================
