------------------------------ MODULE WorkQueue ------------------------------
(***************************************************************************)
(* What a queue kept in a table promises the workers that share it: the    *)
(* oldest waiting item is handed out, to one worker at a time, and an item *)
(* is in the queue until its worker is done with it or it is withdrawn.    *)
(* A worker can lose an item: it is stuck, neither waiting nor worked on,  *)
(* until the workers start anew.  Modules TrackerQueue and CompanyQueue    *)
(* show that the evaluator and the profiler, each with its claim column,   *)
(* keep this promise.                                                      *)
(***************************************************************************)
EXTENDS Naturals

CONSTANTS Items, Takers, None

VARIABLES
  waiting,   \* items to be handed out, oldest (lowest) first
  held,      \* the item each taker works on
  stuck,     \* items whose taker is gone
  busy       \* items that others are about to change: an input

queueVars == <<waiting, held, stuck>>

Held == {held[t] : t \in Takers} \ {None}

QueueInit == waiting = {} /\ stuck = {} /\ held = [t \in Takers |-> None]

\* Items come, or come back, but never one that is in the queue already.
Arrive(S) ==
  /\ S # {} /\ S \cap (waiting \cup stuck \cup Held) = {}
  /\ waiting' = waiting \cup S
  /\ UNCHANGED <<held, stuck>>

\* The oldest but for those passed over because others are at them.
Take(t, i) ==
  /\ held[t] = None
  /\ i \in waiting
  /\ \A j \in waiting : j < i => j \in busy
  /\ waiting' = waiting \ {i}
  /\ held' = [held EXCEPT ![t] = i]
  /\ UNCHANGED stuck

\* The taker is done: with the item, or it gives it back, or it loses it.
Leave(t) ==
  /\ held[t] # None
  /\ held' = [held EXCEPT ![t] = None]
  /\ \/ UNCHANGED <<waiting, stuck>>
     \/ waiting' = waiting \cup {held[t]} /\ UNCHANGED stuck
     \/ stuck' = stuck \cup {held[t]} /\ UNCHANGED waiting

\* Items nobody works on are called off.
Withdraw(S) ==
  /\ S # {} /\ S \subseteq waiting \cup stuck
  /\ waiting' = waiting \ S
  /\ stuck' = stuck \ S
  /\ UNCHANGED held

\* The takers are gone, all at once, and their items stay behind; only those
\* called off meanwhile (`done`) do not.
Stop(done) ==
  /\ done \subseteq Held
  /\ held' = [t \in Takers |-> None]
  /\ stuck' = stuck \cup (Held \ done)
  /\ UNCHANGED waiting

\* The takers start anew: nothing is stuck any more.
Recover ==
  /\ Held = {}
  /\ waiting' = waiting \cup stuck
  /\ stuck' = {}
  /\ UNCHANGED held

QueueNext ==
  \/ \E S \in SUBSET Items : Arrive(S)
  \/ \E t \in Takers, i \in Items : Take(t, i)
  \/ \E t \in Takers : Leave(t)
  \/ \E S \in SUBSET Items : Withdraw(S)
  \/ \E done \in SUBSET Items : Stop(done)
  \/ Recover

QueueSpec == QueueInit /\ [][QueueNext]_queueVars
==============================================================================
