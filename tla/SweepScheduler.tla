---------------------------- MODULE SweepScheduler ----------------------------
(***************************************************************************)
(* The operator's scan cycles: RunTicker fires one when the cron schedule  *)
(* of config['sweep_cron'] is due, POST /cycle whenever somebody asks, and *)
(* the flag Operator.running is to keep the ticker from overlapping a      *)
(* cycle.  Nothing of the schedule survives the process; the config does.  *)
(*                                                                         *)
(* Time is counted in ticks of 30 seconds.  The code's sched is nil just   *)
(* if lastExpr is not a valid expression, and left out.                    *)
(***************************************************************************)
EXTENDS Integers

CONSTANTS
  Exprs,     \* cron expressions that parse
  NextTime,  \* Schedule.Next of each: when it is due next, after a time
  BadExprs,  \* cron expressions that do not parse
  Cycles,    \* bound: scan cycles at once, of the ticker or of people
  MaxClock   \* bound: ticks

NoExpr == "none"   \* no expression, or auto-sweep not enabled
NoTick == -1
Never  == 0         \* cron's zero time: the schedule (30 February) is never due

ASSUME ExprsAssumption  == NoExpr \notin Exprs \cup BadExprs /\ Exprs \cap BadExprs = {}
ASSUME ClockAssumption  == MaxClock \in Nat
ASSUME NextAssumption   ==
  \A e \in Exprs, t \in 0..MaxClock :
    NextTime[e][t] \in Nat /\ (NextTime[e][t] > t \/ NextTime[e][t] = Never)

VARIABLES
  clock,
  tick,      \* the time in the ticker's channel, which has room for one
  config,    \* sweep_cron while sweep_enabled
  lastExpr,  \* the ticker's
  next,      \* the ticker's: when lastExpr is due
  running,   \* Operator.running
  cycle,     \* the scan cycles: a goroutine of the ticker starts, then runs
  manual,    \* history: somebody asked for a cycle while one was at work
  lastFire   \* history: the tick that fired a cycle last

tickerVars == <<lastExpr, next>>
cycleVars  == <<running, cycle, manual>>
vars       == <<clock, tick, config, tickerVars, cycleVars, lastFire>>

Active == {k \in Cycles : cycle[k] # "idle"}

TypeOK ==
  /\ clock \in 0..MaxClock
  /\ tick \in 0..MaxClock \cup {NoTick}
  /\ config \in Exprs \cup BadExprs \cup {NoExpr}
  /\ lastExpr \in Exprs \cup BadExprs \cup {NoExpr}
  /\ next \in Nat
  /\ running \in BOOLEAN
  /\ cycle \in [Cycles -> {"idle", "starting", "running"}]
  /\ manual \in BOOLEAN
  /\ lastFire \in 0..MaxClock \cup {NoTick}

Init ==
  /\ clock = 0 /\ tick = NoTick
  /\ config \in Exprs \cup BadExprs \cup {NoExpr}
  /\ lastExpr = NoExpr /\ next = 0
  /\ running = FALSE
  /\ cycle = [k \in Cycles |-> "idle"]
  /\ manual = FALSE /\ lastFire = NoTick

------------------------------------------------------------------------------
\* The ticker drops a tick the loop is too slow for.  A goroutine that was
\* started is scheduled within half a minute.
Advance ==
  /\ clock < MaxClock
  /\ \A k \in Cycles : cycle[k] # "starting"
  /\ clock' = clock + 1
  /\ tick' = IF tick = NoTick THEN clock + 1 ELSE tick
  /\ UNCHANGED <<config, tickerVars, cycleVars, lastFire>>

SetConfig(e) ==
  /\ config' = e
  /\ UNCHANGED <<clock, tick, tickerVars, cycleVars, lastFire>>

------------------------------------------------------------------------------
(* One turn of RunTicker's loop.                                           *)

\* Auto-sweep is off, without a schedule, or the config cannot be read.
TickOff ==
  /\ tick # NoTick
  /\ lastExpr' = NoExpr
  /\ tick' = NoTick
  /\ UNCHANGED <<clock, config, next, cycleVars, lastFire>>

TickInvalid ==
  /\ tick # NoTick /\ config \in BadExprs
  /\ lastExpr' = config
  /\ tick' = NoTick
  /\ UNCHANGED <<clock, config, next, cycleVars, lastFire>>

\* When the expression of the config is due: computed from now if it is new.
NextDue == IF config = lastExpr THEN next ELSE NextTime[config][tick]

TickWaits ==
  /\ tick # NoTick /\ config \in Exprs /\ tick < NextDue
  /\ lastExpr' = config
  /\ next' = NextDue
  /\ tick' = NoTick
  /\ UNCHANGED <<clock, config, cycleVars, lastFire>>

TickDue ==
  /\ tick # NoTick /\ config \in Exprs /\ tick >= NextDue
  /\ lastExpr' = config
  /\ next' = NextTime[config][tick]
  /\ tick' = NoTick
  /\ UNCHANGED <<clock, config>>

\* The due time is passed over, not put off.
TickSkips ==
  /\ TickDue /\ running
  /\ UNCHANGED <<cycleVars, lastFire>>

\* Mutant: the previous cycle is not looked for.
TickFiresAnyway(k) ==
  /\ TickDue /\ cycle[k] = "idle"
  /\ cycle' = [cycle EXCEPT ![k] = "starting"]
  /\ lastFire' = tick
  /\ UNCHANGED <<running, manual>>

\* Mutant: the due time is not moved on.
TickFiresOnAndOn(k) ==
  /\ tick # NoTick /\ config \in Exprs /\ tick >= NextDue
  /\ ~running /\ cycle[k] = "idle"
  /\ lastExpr' = config /\ next' = NextDue
  /\ cycle' = [cycle EXCEPT ![k] = "starting"]
  /\ tick' = NoTick /\ lastFire' = tick
  /\ UNCHANGED <<clock, config, running, manual>>

TickFires(k) ==
  /\ TickDue /\ ~running /\ cycle[k] = "idle"
  /\ cycle' = [cycle EXCEPT ![k] = "starting"]
  /\ lastFire' = tick
  /\ UNCHANGED <<running, manual>>

------------------------------------------------------------------------------
(* RunCycle.                                                               *)

RunCycle(k) ==
  /\ cycle[k] = "starting"
  /\ cycle' = [cycle EXCEPT ![k] = "running"]
  /\ running' = TRUE
  /\ UNCHANGED <<clock, tick, config, tickerVars, manual, lastFire>>

\* POST /cycle: the flag is set, not tested.
ManualCycle(k) ==
  /\ cycle[k] = "idle"
  /\ cycle' = [cycle EXCEPT ![k] = "running"]
  /\ running' = TRUE
  /\ manual' = (manual \/ Active # {})
  /\ UNCHANGED <<clock, tick, config, tickerVars, lastFire>>

\* Mutant: no defer: a catalog that cannot be read leaves the flag set.
CycleEndsSet(k) ==
  /\ cycle[k] = "running"
  /\ cycle' = [cycle EXCEPT ![k] = "idle"]
  /\ running' \in BOOLEAN
  /\ manual' = (manual /\ Active # {k})
  /\ UNCHANGED <<clock, tick, config, tickerVars, lastFire>>

\* Its jobs are launched, or it failed: either way the flag is cleared.
CycleEnds(k) ==
  /\ cycle[k] = "running"
  /\ cycle' = [cycle EXCEPT ![k] = "idle"]
  /\ running' = FALSE
  /\ manual' = (manual /\ Active # {k})
  /\ UNCHANGED <<clock, tick, config, tickerVars, lastFire>>

\* A new process: the ticker starts from nothing, at the next tick.
Restart ==
  /\ tick' = NoTick
  /\ lastExpr' = NoExpr /\ next' = 0
  /\ running' = FALSE
  /\ cycle' = [k \in Cycles |-> "idle"]
  /\ manual' = FALSE
  /\ UNCHANGED <<clock, config, lastFire>>

Next ==
  \/ Advance
  \/ \E e \in Exprs \cup BadExprs \cup {NoExpr} : SetConfig(e)
  \/ TickOff
  \/ TickInvalid
  \/ TickWaits
  \/ TickSkips
  \/ \E k \in Cycles : TickFires(k)
  \/ \E k \in Cycles : RunCycle(k)
  \/ \E k \in Cycles : ManualCycle(k)
  \/ \E k \in Cycles : CycleEnds(k)
  \/ Restart

Spec == Init /\ [][Next]_vars

------------------------------------------------------------------------------
(* Safety.                                                                 *)

\* The flag is never left set without a cycle, which would end automatic sweeps
\* until a restart; and it tells a running cycle as long as nobody asks for one
\* while another is at work.
GuardReleased ==
  /\ running => \E k \in Cycles : cycle[k] = "running"
  /\ ~manual => \A k \in Cycles : cycle[k] = "running" => running

\* Cycles overlap only if somebody asks for one while another is at work; until
\* then the ticker never adds a second one.
OverlapNeedsManual == ~manual => \A j, k \in Active : j = k

\* No due time fires two cycles, whatever is toggled, edited, skipped, dropped
\* or restarted in between: the next due time is past the last firing (but for
\* schedules that are never due, which fire at every tick).
FiredOncePerDue ==
  lastExpr \in Exprs => next = Never \/ next > lastFire
==============================================================================
