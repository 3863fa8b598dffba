----------------------------- MODULE SweepProofs -----------------------------
(***************************************************************************)
(* What module SweepScheduler guarantees for any schedules and any number  *)
(* of cycles.                                                              *)
(***************************************************************************)
EXTENDS SweepScheduler, TLAPS

\* The ticks to come are later than those that fired.
TicksGoOn == tick <= clock /\ lastFire <= clock /\ (tick # NoTick => lastFire < tick)

\* A goroutine that is about to start is alone with its flag, unless somebody
\* asked for another cycle; it starts before the next tick.
StartsPromptly ==
  \A k \in Cycles : cycle[k] = "starting" => tick = NoTick

IInv ==
  /\ TypeOK
  /\ TicksGoOn
  /\ StartsPromptly
  /\ GuardReleased
  /\ OverlapNeedsManual
  /\ FiredOncePerDue

USE ExprsAssumption, ClockAssumption, NextAssumption DEF NoTick, Never

\* The state of a new process with any config is in the inductive invariant.
THEOREM InitIInv == Init => IInv
<1> SUFFICES ASSUME Init PROVE IInv
  OBVIOUS
<1>1. TypeOK
  <2>1. clock \in 0..MaxClock /\ next \in Nat
    BY DEF Init
  <2>2. cycle \in [Cycles -> {"idle", "starting", "running"}]
    BY DEF Init
  <2>3. QED
    BY <2>1, <2>2 DEF Init, TypeOK
<1>2. TicksGoOn /\ StartsPromptly
  BY DEF Init, TicksGoOn, StartsPromptly
<1>3. GuardReleased /\ OverlapNeedsManual
  BY DEF Init, GuardReleased, OverlapNeedsManual, Active
<1>4. FiredOncePerDue
  BY DEF Init, FiredOncePerDue
<1>5. QED
  BY <1>1, <1>2, <1>3, <1>4 DEF IInv

\* Every step keeps clock, config, ticker and cycles typed.
LEMMA TypeStep == IInv /\ [Next]_vars => TypeOK'
<1> SUFFICES ASSUME IInv, [Next]_vars PROVE TypeOK'
  OBVIOUS
<1> USE DEF vars, tickerVars, cycleVars
<1>0. TypeOK
  BY DEF IInv
<1>1. CASE Advance
  BY <1>0, <1>1 DEF Advance, TypeOK
<1>2. ASSUME NEW e \in Exprs \cup BadExprs \cup {NoExpr}, SetConfig(e) PROVE TypeOK'
  BY <1>0, <1>2 DEF SetConfig, TypeOK
<1>3. CASE TickOff \/ TickInvalid
  BY <1>0, <1>3 DEF TickOff, TickInvalid, TypeOK
<1>4. ASSUME tick # NoTick, config \in Exprs PROVE NextTime[config][tick] \in Nat
  BY <1>0, <1>4 DEF TypeOK
<1>5. CASE TickWaits
  BY <1>0, <1>4, <1>5 DEF TickWaits, NextDue, TypeOK
<1>6. CASE TickSkips
  BY <1>0, <1>4, <1>6 DEF TickSkips, TickDue, TypeOK
<1>7. ASSUME NEW k \in Cycles, TickFires(k) PROVE TypeOK'
  BY <1>0, <1>4, <1>7 DEF TickFires, TickDue, TypeOK
<1>8. ASSUME NEW k \in Cycles, RunCycle(k) \/ ManualCycle(k) \/ CycleEnds(k) PROVE TypeOK'
  BY <1>0, <1>8 DEF RunCycle, ManualCycle, CycleEnds, TypeOK
<1>9. CASE Restart
  BY <1>0, <1>9 DEF Restart, TypeOK
<1>10. CASE UNCHANGED vars
  BY <1>0, <1>10 DEF TypeOK
<1>11. QED
  BY <1>1, <1>2, <1>3, <1>5, <1>6, <1>7, <1>8, <1>9, <1>10 DEF Next

\* Ticks are consumed in order; a goroutine starts before the next arrives.
LEMMA TicksStep == IInv /\ [Next]_vars => TicksGoOn' /\ StartsPromptly'
<1> SUFFICES ASSUME IInv, [Next]_vars PROVE TicksGoOn' /\ StartsPromptly'
  OBVIOUS
<1> USE DEF vars, tickerVars, cycleVars
<1>0. TypeOK /\ TicksGoOn /\ StartsPromptly
  BY DEF IInv
<1>1. CASE Advance
  BY <1>0, <1>1 DEF Advance, TypeOK, TicksGoOn, StartsPromptly
<1>2. CASE TickOff \/ TickInvalid \/ TickWaits \/ TickSkips
  BY <1>0, <1>2 DEF TickOff, TickInvalid, TickWaits, TickSkips, TickDue, TypeOK, TicksGoOn, StartsPromptly
<1>3. ASSUME NEW k \in Cycles, TickFires(k) PROVE TicksGoOn' /\ StartsPromptly'
  BY <1>0, <1>3 DEF TickFires, TickDue, TypeOK, TicksGoOn, StartsPromptly
<1>4. ASSUME NEW k \in Cycles, RunCycle(k) \/ ManualCycle(k) \/ CycleEnds(k)
      PROVE  TicksGoOn' /\ StartsPromptly'
  BY <1>0, <1>4 DEF RunCycle, ManualCycle, CycleEnds, TypeOK, TicksGoOn, StartsPromptly
<1>5. CASE Restart
  BY <1>0, <1>5 DEF Restart, TypeOK, TicksGoOn, StartsPromptly
<1>6. ASSUME UNCHANGED <<clock, tick, cycle, lastFire>> PROVE TicksGoOn' /\ StartsPromptly'
  BY <1>0, <1>6 DEF TicksGoOn, StartsPromptly
<1>7. QED
  BY <1>1, <1>2, <1>3, <1>4, <1>5, <1>6 DEF Next, SetConfig

\* With the flag telling the truth, the ticker finds everybody idle.
LEMMA CyclesStep == IInv /\ [Next]_vars => GuardReleased' /\ OverlapNeedsManual'
<1> SUFFICES ASSUME IInv, [Next]_vars PROVE GuardReleased' /\ OverlapNeedsManual'
  OBVIOUS
<1> USE DEF vars, tickerVars, cycleVars
<1>0. TypeOK /\ StartsPromptly /\ GuardReleased /\ OverlapNeedsManual
  BY DEF IInv
<1>1. ASSUME NEW k \in Cycles, TickFires(k) PROVE GuardReleased' /\ OverlapNeedsManual'
  <2>1. ~manual => \A j \in Cycles : cycle[j] = "idle"
    BY <1>0, <1>1 DEF TickFires, TickDue, StartsPromptly, GuardReleased, TypeOK
  <2>2. /\ \A j \in Cycles : cycle'[j] = IF j = k THEN "starting" ELSE cycle[j]
        /\ ~running /\ UNCHANGED <<running, manual>>
    BY <1>0, <1>1 DEF TickFires, TypeOK
  <2>3. QED
    BY <2>1, <2>2 DEF GuardReleased, OverlapNeedsManual, Active
<1>2. ASSUME NEW k \in Cycles, RunCycle(k) PROVE GuardReleased' /\ OverlapNeedsManual'
  <2>1. /\ \A j \in Cycles : cycle'[j] = IF j = k THEN "running" ELSE cycle[j]
        /\ cycle[k] = "starting" /\ running' /\ manual' = manual
    BY <1>0, <1>2 DEF RunCycle, TypeOK
  <2>2. QED
    BY <1>0, <2>1 DEF GuardReleased, OverlapNeedsManual, Active
<1>3. ASSUME NEW k \in Cycles, ManualCycle(k) PROVE GuardReleased' /\ OverlapNeedsManual'
  <2>1. /\ \A j \in Cycles : cycle'[j] = IF j = k THEN "running" ELSE cycle[j]
        /\ running' /\ (~manual' => Active = {})
    BY <1>0, <1>3 DEF ManualCycle, TypeOK
  <2>2. QED
    BY <2>1 DEF GuardReleased, OverlapNeedsManual, Active
<1>4. ASSUME NEW k \in Cycles, CycleEnds(k) PROVE GuardReleased' /\ OverlapNeedsManual'
  <2>1. /\ \A j \in Cycles : cycle'[j] = IF j = k THEN "idle" ELSE cycle[j]
        /\ ~running' /\ (~manual' => ~manual \/ Active = {k}) /\ k \in Active
    BY <1>0, <1>4 DEF CycleEnds, TypeOK, Active
  <2>2. ~manual' => \A j \in Cycles : cycle'[j] = "idle"
    BY <1>0, <2>1 DEF OverlapNeedsManual, Active
  <2>3. QED
    BY <2>1, <2>2 DEF GuardReleased, OverlapNeedsManual, Active
<1>5. CASE Restart
  BY <1>5 DEF Restart, GuardReleased, OverlapNeedsManual, Active
<1>6. ASSUME UNCHANGED <<running, cycle, manual>> PROVE GuardReleased' /\ OverlapNeedsManual'
  BY <1>0, <1>6 DEF GuardReleased, OverlapNeedsManual, Active
<1>7. QED
  BY <1>1, <1>2, <1>3, <1>4, <1>5, <1>6
     DEF Next, Advance, SetConfig, TickOff, TickInvalid, TickWaits, TickSkips, TickDue

\* Whenever `next` is computed, it is past the tick it is computed at.
LEMMA FiredStep == IInv /\ [Next]_vars => FiredOncePerDue'
<1> SUFFICES ASSUME IInv, [Next]_vars PROVE FiredOncePerDue'
  OBVIOUS
<1> USE DEF vars, tickerVars, cycleVars
<1>0. TypeOK /\ TicksGoOn /\ FiredOncePerDue
  BY DEF IInv
<1>1. ASSUME tick # NoTick, config \in Exprs
      PROVE  NextTime[config][tick] = Never \/ NextTime[config][tick] > tick
  BY <1>0, <1>1 DEF TypeOK
<1>2. CASE TickOff \/ TickInvalid \/ Restart
  BY <1>0, <1>2 DEF TickOff, TickInvalid, Restart, FiredOncePerDue
<1>3. CASE TickWaits
  <2>1. next' = Never \/ next' > tick
    BY <1>0, <1>3 DEF TickWaits, TypeOK, NextDue
  <2>2. lastFire < tick /\ lastFire' = lastFire /\ next' \in Nat
    BY <1>0, <1>3, TypeStep DEF TickWaits, TicksGoOn, TypeOK
  <2>3. QED
    BY <1>0, <2>1, <2>2 DEF FiredOncePerDue, TypeOK
<1>4. CASE TickDue /\ lastFire' \in {lastFire, tick}
  <2>1. next' = Never \/ next' > tick
    BY <1>1, <1>4 DEF TickDue
  <2>2. lastFire < tick /\ next' \in Nat
    BY <1>0, <1>4, TypeStep DEF TickDue, TicksGoOn, TypeOK
  <2>3. QED
    BY <1>0, <1>4, <2>1, <2>2 DEF FiredOncePerDue, TypeOK
<1>5. ASSUME UNCHANGED <<lastExpr, next, lastFire>> PROVE FiredOncePerDue'
  BY <1>0, <1>5 DEF FiredOncePerDue
<1>6. QED
  BY <1>2, <1>3, <1>4, <1>5
     DEF Next, Advance, SetConfig, TickSkips, TickFires, RunCycle, ManualCycle, CycleEnds

------------------------------------------------------------------------------
\* Whatever is edited, toggled, asked for or restarted.
THEOREM Invariance == Spec => []IInv
<1>1. IInv /\ [Next]_vars => IInv'
  BY TypeStep, TicksStep, CyclesStep, FiredStep DEF IInv
<1>2. QED
  BY InitIInv, <1>1, PTL DEF Spec

\* RunCycle's deferred reset: the flag is set while a cycle runs only.
THEOREM GuardIsReleased == Spec => []GuardReleased
<1>1. IInv => GuardReleased
  BY DEF IInv
<1>2. QED
  BY Invariance, <1>1, PTL

\* RunTicker's overlap guard works until a manual cycle comes across another.
THEOREM TickerAvoidsOverlap == Spec => []OverlapNeedsManual
<1>1. IInv => OverlapNeedsManual
  BY DEF IInv
<1>2. QED
  BY Invariance, <1>1, PTL

\* RunTicker never fires twice for one due time.
THEOREM DueTimesFireOnce == Spec => []FiredOncePerDue
<1>1. IInv => FiredOncePerDue
  BY DEF IInv
<1>2. QED
  BY Invariance, <1>1, PTL
==============================================================================
