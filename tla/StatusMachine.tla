---------------------------- MODULE StatusMachine ----------------------------
(***************************************************************************)
(* The application-status state machine of internal/engine: the statuses a *)
(* role can have, their funnel order, and the moves a person may request.  *)
(* 'expired' is a value of the database enum only: the engine does not     *)
(* know it, so no move out of or into it is ever granted to a person.      *)
(***************************************************************************)
EXTENDS Integers

Progression == {"evaluated", "applied", "responded", "interview", "offer", "hired"}
SideStates  == {"rejected", "discarded", "skip"}

\* allStatuses: what Valid accepts.
AllStatuses == Progression \cup SideStates \cup {"inbox"}

Valid(s) == s \in AllStatuses

\* The application_status enum of the database, after migration 0010.
EnumStatuses == AllStatuses \cup {"expired"}

\* funnelRank / Rank: the side-states and every unknown status have no rank.
Rank(s) ==
  CASE s = "evaluated" -> 0
    [] s = "applied"   -> 1
    [] s = "responded" -> 2
    [] s = "interview" -> 3
    [] s = "offer"     -> 4
    [] s = "hired"     -> 5
    [] OTHER           -> -1

\* terminalStatuses / Terminal.
Terminal(s) == s \in {"hired", "rejected", "discarded", "skip"}

\* Mutant: a role applied to may go back to evaluated.
TargetsBothWays(from) ==
  CASE from = "inbox"     -> {"evaluated", "applied", "skip", "discarded"}
    [] from = "evaluated" -> {"applied", "skip", "discarded", "rejected"}
    [] from = "applied"   -> {"evaluated", "responded", "rejected", "discarded"}
    [] OTHER              -> {}

\* The adjacency table `transitions`: the targets it lists for a source.
Targets(from) ==
  CASE from = "inbox"     -> {"evaluated", "applied", "skip", "discarded"}
    [] from = "evaluated" -> {"applied", "skip", "discarded", "rejected"}
    [] from = "applied"   -> {"responded", "rejected", "discarded"}
    [] from = "responded" -> {"interview", "rejected", "discarded"}
    [] from = "interview" -> {"offer", "rejected", "discarded"}
    [] from = "offer"     -> {"hired", "rejected", "discarded"}
    [] OTHER              -> {}

CanTransition(from, to) == Valid(from) /\ Valid(to) /\ to \in Targets(from)

\* Mutant: a role applied to counts as passive.
IsPassiveOrApplied(s) == s \in {"inbox", "evaluated", "applied", "rejected", "discarded", "skip"}

\* isPassiveStatus of the store: what a vanished listing turns into 'expired'.
IsPassiveStatus(s) == s \in {"inbox", "evaluated", "rejected", "discarded", "skip"}

\* The statuses of the user's own pipeline, the complement of the passive ones.
Engaged == {"applied", "responded", "interview", "offer", "hired"}
==============================================================================
