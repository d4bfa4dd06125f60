----------------------------- MODULE TimerProofs -----------------------------
(***************************************************************************)
(* Proofs about Timer for every set of CPUs, tasklets and state values.    *)
(***************************************************************************)
EXTENDS Timer, TLAPS

(* A tasklet that runs on no CPU is idle, and at most one callback of the  *)
(* injection timer runs: what NeverLost and FakeHandOver need to be        *)
(* inductive.                                                              *)
OnOrIdle       == \A t \in Tasklets : on[t] = NoCpu <=> pc[t] = "idle"
SingleCallback == \A c, d \in CPUs :
                    irq[c] \in TimerPhases /\ irq[d] \in TimerPhases => c = d
Placed == OnOrIdle /\ SingleCallback

LEMMA TypeInit == Init => TypeOK
  BY TimerAssumption DEF Init, TypeOK

LEMMA TypeNext == TypeOK /\ [Next]_vars => TypeOK'
  <1> SUFFICES ASSUME TypeOK, [Next]_vars PROVE TypeOK'
    OBVIOUS
  <1> USE DEF TypeOK, TimerPhases, FakePhases
  <1>1. ASSUME NEW v \in StateValues, Write(v) PROVE TypeOK'
    BY <1>1 DEF Write
  <1>2. ASSUME NEW t \in Tasklets, NEW c \in CPUs, Schedule(t, c) PROVE TypeOK'
    BY <1>2 DEF Schedule
  <1>3. ASSUME NEW t \in Tasklets, BeginTasklet(t) PROVE TypeOK'
    BY <1>3 DEF BeginTasklet
  <1>4. ASSUME NEW t \in Tasklets, RealKey(t) PROVE TypeOK'
    BY <1>4 DEF RealKey, TakeFake, InitFake, StartFake, Cancel, Start
  <1>5. ASSUME NEW c \in CPUs, Expire(c) \/ FakeExpire(c) PROVE TypeOK'
    BY <1>5 DEF Expire, FakeExpire
  <1>6. ASSUME NEW c \in CPUs, IrqStep(c) PROVE TypeOK'
    BY <1>6 DEF IrqStep, TimerFunction, Inject, TimerRestart, Rearm,
                FakeFunction, FakeReturn
  <1>7. CASE UNCHANGED vars
    BY <1>7 DEF vars
  <1>8. QED
    BY <1>1, <1>2, <1>3, <1>4, <1>5, <1>6, <1>7 DEF Next, TaskletStep

(* Every variable of Timer keeps to its type: state to what was written,   *)
(* tasklets and interrupt handlers to the steps of the code.               *)
THEOREM TypeCorrect == Spec => []TypeOK
  BY TypeInit, TypeNext, PTL DEF Spec

LEMMA PlacedInit == Init => Placed
  BY TimerAssumption DEF Init, Placed, OnOrIdle, SingleCallback, TimerPhases

LEMMA PlacedNext == TypeOK /\ Placed /\ [Next]_vars => Placed'
  <1> SUFFICES ASSUME TypeOK, Placed, [Next]_vars PROVE Placed'
    OBVIOUS
  <1> USE DEF TypeOK, Placed
  <1>1. OnOrIdle'
    <2> USE TimerAssumption DEF OnOrIdle
    <2>1. ASSUME NEW t \in Tasklets, BeginTasklet(t) PROVE OnOrIdle'
      BY <2>1 DEF BeginTasklet
    <2>2. ASSUME NEW t \in Tasklets, RealKey(t) PROVE OnOrIdle'
      BY <2>2 DEF RealKey, TakeFake, InitFake, StartFake, Cancel, Start, MayStep
    <2>3. CASE UNCHANGED <<on, pc>>
      BY <2>3
    <2>4. QED
      BY <2>1, <2>2, <2>3 DEF Next, TaskletStep, Write, Schedule, Expire,
         FakeExpire, IrqStep, TimerFunction, Inject, TimerRestart, Rearm,
         FakeFunction, FakeReturn, vars
  <1>2. SingleCallback'
    <2> USE DEF SingleCallback, TimerPhases
    <2>1. ASSUME NEW c \in CPUs, Expire(c) PROVE SingleCallback'
      BY <2>1 DEF Expire, TimerRunning
    <2>2. ASSUME NEW c \in CPUs, FakeExpire(c) PROVE SingleCallback'
      BY <2>2 DEF FakeExpire
    <2>3. ASSUME NEW c \in CPUs, IrqStep(c) PROVE SingleCallback'
      BY <2>3 DEF IrqStep, TimerFunction, Inject, TimerRestart, Rearm,
                  FakeFunction, FakeReturn
    <2>4. CASE UNCHANGED irq
      BY <2>4
    <2>5. QED
      BY <2>1, <2>2, <2>3, <2>4 DEF Next, TaskletStep, RealKey, Write, Schedule,
         BeginTasklet, TakeFake, InitFake, StartFake, Cancel, Start, vars
  <1>3. QED
    BY <1>1, <1>2

THEOREM PlacedCorrect == Spec => []Placed
  BY TypeCorrect, PlacedInit, PlacedNext, PTL DEF Spec

-----------------------------------------------------------------------------
LEMMA NeverLostNext ==
  TypeOK /\ Placed /\ NeverLost /\ [Next]_vars => NeverLost'
  <1> SUFFICES ASSUME TypeOK, Placed, NeverLost, [Next]_vars PROVE NeverLost'
    OBVIOUS
  <1> USE DEF TypeOK, NeverLost, TimerRunning
  <1>1. ASSUME NEW t \in Tasklets, BeginTasklet(t) PROVE NeverLost'
    <2>1. pc[t] = "idle"
      BY <1>1 DEF BeginTasklet, Placed, OnOrIdle
    <2>2. QED
      BY <1>1, <2>1 DEF BeginTasklet
  <1>2. ASSUME NEW t \in Tasklets, TakeFake(t) \/ InitFake(t) \/ StartFake(t)
        PROVE NeverLost'
    BY <1>2 DEF TakeFake, InitFake, StartFake
  <1>3. ASSUME NEW t \in Tasklets, Cancel(t) PROVE NeverLost'
    <2>1. pc'[t] = "start"
      BY <1>3 DEF Cancel
    <2>2. QED
      BY <2>1
  <1>4. ASSUME NEW t \in Tasklets, Start(t) PROVE NeverLost'
    BY <1>4 DEF Start
  <1>5. ASSUME NEW c \in CPUs, Expire(c) PROVE NeverLost'
    <2>1. irq'[c] \in TimerPhases
      BY <1>5 DEF Expire, TimerPhases
    <2>2. QED
      BY <2>1
  <1>6. ASSUME NEW c \in CPUs, FakeExpire(c) PROVE NeverLost'
    BY <1>6 DEF FakeExpire, TimerPhases
  <1>7. ASSUME NEW c \in CPUs,
               TimerFunction(c) \/ Inject(c) \/ TimerRestart(c)
        PROVE NeverLost'
    <2>1. irq'[c] \in TimerPhases
      BY <1>7 DEF TimerFunction, Inject, TimerRestart, TimerPhases
    <2>2. QED
      BY <2>1
  <1>8. ASSUME NEW c \in CPUs, Rearm(c) PROVE NeverLost'
    BY <1>8 DEF Rearm
  <1>9. ASSUME NEW c \in CPUs, FakeFunction(c) \/ FakeReturn(c) PROVE NeverLost'
    BY <1>9 DEF FakeFunction, FakeReturn, TimerPhases
  <1>10. CASE UNCHANGED <<timer_queued, irq, pc>>
    BY <1>10
  <1>11. QED
    BY <1>1, <1>2, <1>3, <1>4, <1>5, <1>6, <1>7, <1>8, <1>9, <1>10
       DEF Next, TaskletStep, RealKey, IrqStep, Write, Schedule, vars

(* The injection timer is never lost, on any number of CPUs and with any   *)
(* number of tasklets resetting it (timer.c:22-35).                        *)
THEOREM TimerNeverLost == Spec => []NeverLost
  <1>1. Init => NeverLost
    BY DEF Init, NeverLost
  <1>2. QED
    BY <1>1, TypeCorrect, PlacedCorrect, NeverLostNext, PTL DEF Spec

-----------------------------------------------------------------------------
LEMMA FakeHandOverInit == Init => FakeHandOver
  BY DEF Init, FakeHandOver, Starting, Clearing, SomeStarting, SomeClearing

LEMMA FakeHandOverNext ==
  TypeOK /\ Placed /\ FakeHandOver /\ [Next]_vars => FakeHandOver'
  <1> SUFFICES ASSUME TypeOK, Placed, FakeHandOver, [Next]_vars
               PROVE  FakeHandOver'
    OBVIOUS
  <1> USE DEF TypeOK, FakeHandOver, Starting, Clearing, SomeStarting,
              SomeClearing
  <1>1. ASSUME NEW t \in Tasklets, BeginTasklet(t) PROVE FakeHandOver'
    <2>1. pc[t] = "idle"
      BY <1>1 DEF BeginTasklet, Placed, OnOrIdle
    <2>2. \A u \in Tasklets : Starting(u)' <=> Starting(u)
      BY <1>1, <2>1 DEF BeginTasklet
    <2>3. QED
      BY <1>1, <2>2 DEF BeginTasklet
  <1>2. ASSUME NEW t \in Tasklets, TakeFake(t) PROVE FakeHandOver'
    <2>1. CASE faketimer_running = 0
      <3>1. \A u \in Tasklets : Starting(u)' <=> u = t
        BY <1>2, <2>1 DEF TakeFake
      <3>2. ~faketimer_queued' /\ ~SomeClearing' /\ faketimer_running' = 1
        BY <1>2, <2>1 DEF TakeFake
      <3>3. QED
        BY <3>1, <3>2
    <2>2. CASE faketimer_running = 1
      <3>1. \A u \in Tasklets : Starting(u)' <=> Starting(u)
        BY <1>2, <2>2 DEF TakeFake
      <3>2. QED
        BY <1>2, <2>2, <3>1 DEF TakeFake
    <2>3. QED
      BY <2>1, <2>2
  <1>3. ASSUME NEW t \in Tasklets, InitFake(t) PROVE FakeHandOver'
    <2>1. Starting(t) /\ \A u \in Tasklets : Starting(u)' <=> Starting(u)
      BY <1>3 DEF InitFake
    <2>2. QED
      BY <1>3, <2>1 DEF InitFake
  <1>4. ASSUME NEW t \in Tasklets, StartFake(t) PROVE FakeHandOver'
    <2>1. Starting(t) /\ \A u \in Tasklets : ~Starting(u)'
      BY <1>4 DEF StartFake
    <2>2. QED
      BY <1>4, <2>1 DEF StartFake
  <1>5. ASSUME NEW t \in Tasklets, Cancel(t) \/ Start(t) PROVE FakeHandOver'
    <2>1. \A u \in Tasklets : Starting(u)' <=> Starting(u)
      BY <1>5 DEF Cancel, Start
    <2>2. QED
      BY <1>5, <2>1 DEF Cancel, Start
  <1>6. ASSUME NEW c \in CPUs, FakeExpire(c) PROVE FakeHandOver'
    <2>1. \A d \in CPUs : Clearing(d)' <=> d = c
      BY <1>6 DEF FakeExpire
    <2>2. QED
      BY <1>6, <2>1 DEF FakeExpire
  <1>7. ASSUME NEW c \in CPUs, FakeFunction(c) PROVE FakeHandOver'
    <2>1. Clearing(c) /\ \A d \in CPUs : ~Clearing(d)'
      BY <1>7 DEF FakeFunction
    <2>2. QED
      BY <1>7, <2>1 DEF FakeFunction
  <1>8. ASSUME NEW c \in CPUs,
               \/ Expire(c) \/ FakeReturn(c) \/ TimerFunction(c)
               \/ Inject(c) \/ TimerRestart(c) \/ Rearm(c)
        PROVE FakeHandOver'
    <2>1. \A d \in CPUs : Clearing(d)' <=> Clearing(d)
      BY <1>8 DEF Expire, FakeReturn, TimerFunction, Inject, TimerRestart, Rearm
    <2>2. UNCHANGED <<pc, faketimer_queued, faketimer_running>>
      BY <1>8 DEF Expire, FakeReturn, TimerFunction, Inject, TimerRestart, Rearm
    <2>3. QED
      BY <2>1, <2>2
  <1>9. CASE UNCHANGED <<pc, irq, faketimer_queued, faketimer_running>>
    BY <1>9
  <1>10. QED
    BY <1>1, <1>2, <1>3, <1>4, <1>5, <1>6, <1>7, <1>8, <1>9
       DEF Next, TaskletStep, RealKey, IrqStep, Write, Schedule, vars

(* The guard word of timer_inject_irq is held by one tasklet, the queued   *)
(* fake timer or its callback, and by nobody else (timer.c:38-53).         *)
THEOREM GuardIsHandedOver == Spec => []FakeHandOver
  BY TypeCorrect, PlacedCorrect, FakeHandOverInit, FakeHandOverNext, PTL DEF Spec

(* For any CPUs and tasklets: a key whose tasklet has tried for the word   *)
(* has a fake interrupt to come, unless another CPU stands between raising *)
(* the last one and clearing the word (timer.c:38-54).                     *)
THEOREM KeysGetTheirFake == Spec => KeyHasFakeToCome
  <1> DEFINE Step == \A t \in Tasklets :
                TakeFake(t) => (SomeStarting \/ faketimer_queued)' \/ SomeClearing
  <1>1. TypeOK /\ FakeHandOver /\ [Next]_vars => [Step]_vars
    <2> SUFFICES ASSUME TypeOK, FakeHandOver, NEW t \in Tasklets, TakeFake(t),
                        ~SomeClearing
                 PROVE  (SomeStarting \/ faketimer_queued)'
      OBVIOUS
    <2>1. CASE faketimer_running = 0
      BY <2>1 DEF TypeOK, TakeFake, SomeStarting, Starting
    <2>2. CASE faketimer_running = 1
      BY <2>2 DEF TypeOK, FakeHandOver, TakeFake, SomeStarting, Starting
    <2>3. QED
      BY <2>1, <2>2 DEF TypeOK
  <1>2. QED
    BY <1>1, TypeCorrect, GuardIsHandedOver, PTL DEF Spec, KeyHasFakeToCome

-----------------------------------------------------------------------------
(* What makes two timer_resets never overlap: a single tasklet (the        *)
(* touchscreen plugin), or a single CPU.                                   *)
NoOverlap == \/ \A t, u \in Tasklets : t = u
             \/ \A c, d \in CPUs : c = d

(* Two tasklets never run on one CPU.                                      *)
Serialized == \A t, u \in Tasklets :
                on[t] \in CPUs /\ on[t] = on[u] => t = u

LEMMA SerializedNext ==
  TypeOK /\ Serialized /\ [Next]_vars => Serialized'
  <1> SUFFICES ASSUME TypeOK, Serialized, [Next]_vars PROVE Serialized'
    OBVIOUS
  <1> USE TimerAssumption DEF TypeOK, Serialized
  <1>1. ASSUME NEW t \in Tasklets, BeginTasklet(t) PROVE Serialized'
    BY <1>1 DEF BeginTasklet
  <1>2. ASSUME NEW t \in Tasklets, Start(t) PROVE Serialized'
    BY <1>2 DEF Start
  <1>3. CASE UNCHANGED on
    BY <1>3
  <1>4. QED
    BY <1>1, <1>2, <1>3
       DEF Next, TaskletStep, RealKey, IrqStep, Write, Schedule, vars,
           TakeFake, InitFake, StartFake, Cancel, Expire, FakeExpire,
           TimerFunction, Inject, TimerRestart, Rearm, FakeFunction, FakeReturn

LEMMA OneTasklet ==
  ASSUME NoOverlap, TypeOK, Placed, Serialized, NEW t \in Tasklets,
         NEW u \in Tasklets, pc[t] # "idle", pc[u] # "idle"
  PROVE  t = u
  <1>1. on[t] \in CPUs /\ on[u] \in CPUs
    BY DEF TypeOK, Placed, OnOrIdle
  <1>2. QED
    BY <1>1 DEF NoOverlap, Serialized

LEMMA SerializedCorrect == Spec => []Serialized
  <1>1. Init => Serialized
    BY TimerAssumption DEF Init, Serialized
  <1>2. QED
    BY <1>1, TypeCorrect, SerializedNext, PTL DEF Spec

(* A timer that a tasklet has cancelled stays cancelled until the tasklet  *)
(* starts it; a timer whose callback runs is not enqueued.                 *)
CancelHolds == \A t \in Tasklets :
                 pc[t] = "start" => ~timer_queued /\ ~TimerRunning
RunsDequeued == TimerRunning => ~timer_queued
Reset == CancelHolds /\ RunsDequeued

LEMMA ResetNext ==
  TypeOK /\ Placed /\ OneRestart /\ Reset /\ [Next]_vars => Reset'
  <1> SUFFICES ASSUME TypeOK, Placed, OneRestart, Reset, [Next]_vars
               PROVE  Reset'
    OBVIOUS
  <1> USE DEF TypeOK, Reset, CancelHolds, RunsDequeued, TimerRunning
  <1>1. ASSUME NEW t \in Tasklets,
               \/ BeginTasklet(t) \/ TakeFake(t)
               \/ InitFake(t) \/ StartFake(t)
        PROVE Reset'
    BY <1>1 DEF BeginTasklet, TakeFake, InitFake, StartFake
  <1>2. ASSUME NEW t \in Tasklets, Cancel(t) PROVE Reset'
    BY <1>2 DEF Cancel
  <1>3. ASSUME NEW t \in Tasklets, Start(t) PROVE Reset'
    <2>1. pc[t] = "start" /\ ~TimerRunning /\ irq' = irq
      BY <1>3 DEF Start
    <2>2. \A u \in Tasklets : pc'[u] # "start"
      BY <1>3 DEF Start, OneRestart
    <2>3. QED
      BY <2>1, <2>2
  <1>4. ASSUME NEW c \in CPUs, Expire(c) PROVE Reset'
    BY <1>4 DEF Expire
  <1>5. ASSUME NEW c \in CPUs,
               TimerFunction(c) \/ Inject(c) \/ TimerRestart(c)
        PROVE Reset'
    <2>1. TimerRunning
      BY <1>5 DEF TimerFunction, Inject, TimerRestart, TimerPhases
    <2>2. QED
      BY <1>5, <2>1 DEF TimerFunction, Inject, TimerRestart
  <1>6. ASSUME NEW c \in CPUs, Rearm(c) PROVE Reset'
    <2>1. irq[c] \in TimerPhases
      BY <1>6 DEF Rearm, TimerPhases
    <2>2. \A d \in CPUs : irq'[d] \notin TimerPhases
      BY <1>6, <2>1 DEF Rearm, Placed, SingleCallback, TimerPhases
    <2>3. \A u \in Tasklets : pc'[u] # "start"
      BY <1>6, <2>1 DEF Rearm
    <2>4. QED
      BY <2>2, <2>3
  <1>7. ASSUME NEW c \in CPUs,
               FakeExpire(c) \/ FakeFunction(c) \/ FakeReturn(c)
        PROVE Reset'
    BY <1>7 DEF FakeExpire, FakeFunction, FakeReturn, TimerPhases
  <1>8. CASE UNCHANGED <<pc, irq, timer_queued>>
    BY <1>8
  <1>9. QED
    BY <1>1, <1>2, <1>3, <1>4, <1>5, <1>6, <1>7, <1>8
       DEF Next, TaskletStep, RealKey, IrqStep, Write, Schedule, vars

(* As long as two timer_resets do not overlap, timer_restart only ever     *)
(* forwards a timer that is not enqueued (timer.c:25, 33).                 *)
THEOREM CancelIsEnough == Spec => CancelProtectsForward
  <1>1. Init => Reset
    BY TimerAssumption
       DEF Init, Reset, CancelHolds, RunsDequeued, TimerRunning, TimerPhases
  <1>2. Reset => ForwardDequeued
    BY DEF Reset, RunsDequeued, ForwardDequeued, TimerRunning, TimerPhases
  <1>3. QED
    BY <1>1, <1>2, ResetNext, TypeCorrect, PlacedCorrect, PTL
       DEF Spec, CancelProtectsForward

(* So it is wherever two timer_resets cannot overlap.                      *)
THEOREM ForwardsADequeuedTimer ==
  ASSUME NoOverlap
  PROVE  Spec => []ForwardDequeued
  <1>1. TypeOK /\ Placed /\ Serialized => OneRestart
    BY OneTasklet DEF OneRestart
  <1>2. QED
    BY <1>1, CancelIsEnough, TypeCorrect, PlacedCorrect, SerializedCorrect, PTL
       DEF CancelProtectsForward

-----------------------------------------------------------------------------
LEMMA ClockStep ==
  TypeOK /\ Placed /\ FakeHandOver /\ [Next]_vars => [Clock!Next]_(Clock!clockVars)
  <1> SUFFICES ASSUME TypeOK, Placed, FakeHandOver, [Next]_vars
               PROVE  [Clock!Next]_(Clock!clockVars)
    OBVIOUS
  <1> DEFINE asking   == {t \in Tasklets : pc[t] = "take"}
             handling == {t \in Tasklets : pc[t] \notin {"idle", "take"}}
  <1> USE DEF TypeOK, Clock!clockVars, Clock!Next
  <1>1. ASSUME NEW t \in Tasklets, BeginTasklet(t) PROVE Clock!Notify(t)
    <2>1. pc[t] = "idle"
      BY <1>1 DEF BeginTasklet, Placed, OnOrIdle
    <2>2. asking' = asking \cup {t} /\ handling' = handling
      BY <1>1, <2>1 DEF BeginTasklet
    <2>3. QED
      BY <1>1, <2>1, <2>2 DEF BeginTasklet, Clock!Notify, TimerRunning
  <1>2. ASSUME NEW t \in Tasklets, TakeFake(t)
        PROVE Clock!Owe(t)
    <2>1. /\ t \in asking /\ asking' = asking \ {t}
          /\ handling' = handling \cup {t}
      BY <1>2 DEF TakeFake
    <2>2. QED
      BY <1>2, <2>1 DEF TakeFake, Clock!Owe, TimerRunning
  <1>3. ASSUME NEW t \in Tasklets, InitFake(t) \/ StartFake(t)
        PROVE UNCHANGED Clock!clockVars
    <2>1. asking' = asking /\ handling' = handling
      BY <1>3 DEF InitFake, StartFake
    <2>2. QED
      BY <1>3, <2>1 DEF InitFake, StartFake, TimerRunning
  <1>4. ASSUME NEW t \in Tasklets, Cancel(t) PROVE Clock!Disarm
    <2>1. t \in handling /\ handling' = handling /\ asking' = asking
      BY <1>4 DEF Cancel
    <2>2. QED
      BY <1>4, <2>1 DEF Cancel, Clock!Disarm, TimerRunning
  <1>5. ASSUME NEW t \in Tasklets, Start(t) PROVE Clock!Answer(t)
    <2>1. t \in handling /\ handling' = handling \ {t} /\ asking' = asking
      BY <1>5 DEF Start
    <2>2. QED
      BY <1>5, <2>1 DEF Start, Clock!Answer, TimerRunning
  <1>6. ASSUME NEW c \in CPUs, Expire(c) PROVE Clock!Fire
    <2>1. TimerRunning'
      BY <1>6 DEF Expire, TimerRunning, TimerPhases
    <2>2. QED
      BY <1>6, <2>1 DEF Expire, Clock!Fire
  <1>7. ASSUME NEW c \in CPUs,
               TimerFunction(c) \/ Inject(c) \/ TimerRestart(c)
        PROVE UNCHANGED Clock!clockVars
    <2>1. TimerRunning /\ TimerRunning'
      BY <1>7 DEF TimerFunction, Inject, TimerRestart, TimerRunning, TimerPhases
    <2>2. QED
      BY <1>7, <2>1 DEF TimerFunction, Inject, TimerRestart
  <1>8. ASSUME NEW c \in CPUs, Rearm(c) PROVE Clock!Rearm
    <2>1. TimerRunning
      BY <1>8 DEF Rearm, TimerRunning, TimerPhases
    <2>2. ~TimerRunning'
      BY <1>8 DEF Rearm, TimerRunning, TimerPhases, Placed, SingleCallback
    <2>3. QED
      BY <1>8, <2>1, <2>2 DEF Rearm, Clock!Rearm
  <1>9. ASSUME NEW c \in CPUs, FakeExpire(c) \/ FakeReturn(c)
        PROVE UNCHANGED Clock!clockVars
    <2>1. TimerRunning' = TimerRunning
      BY <1>9 DEF FakeExpire, FakeReturn, TimerRunning, TimerPhases
    <2>2. QED
      BY <1>9, <2>1 DEF FakeExpire, FakeReturn
  <1>10. ASSUME NEW c \in CPUs, FakeFunction(c) PROVE Clock!Serve
    <2>1. faketimer_running = 1
      BY <1>10 DEF FakeFunction, FakeHandOver, SomeClearing, Clearing
    <2>2. TimerRunning' = TimerRunning
      BY <1>10 DEF FakeFunction, TimerRunning, TimerPhases
    <2>3. QED
      BY <1>10, <2>1, <2>2 DEF FakeFunction, Clock!Serve
  <1>11. CASE UNCHANGED <<pc, irq, timer_queued, faketimer_running>>
    BY <1>11 DEF TimerRunning
  <1>12. QED
    BY <1>1, <1>2, <1>3, <1>4, <1>5, <1>6, <1>7, <1>8, <1>9, <1>10, <1>11
       DEF Next, TaskletStep, RealKey, IrqStep, Write, Schedule, vars

(* The timers implement the safety part of InjectionClock: whatever the    *)
(* CPUs and tasklets do, a key takes the injection timer down only between *)
(* two injections and arms it again, and owes one fake interrupt.          *)
THEOREM TimerImplementsClock == Spec => Clock!SafeSpec
  <1>1. Init => Clock!Init
    BY DEF Init, Clock!Init, TimerRunning, TimerPhases
  <1>2. QED
    BY <1>1, ClockStep, TypeCorrect, PlacedCorrect, GuardIsHandedOver, PTL
       DEF Spec, Clock!SafeSpec

-----------------------------------------------------------------------------
(* Who sets up or starts the fake timer has taken the word, so that it is  *)
(* neither queued nor about to release the word; that its callback has not *)
(* yet returned is what ~TakenInReturn excludes.                           *)
LEMMA OnlyOneNext ==
  TypeOK /\ FakeHandOver /\ ~TakenInReturn /\ OnlyOneFakeTimer /\ [Next]_vars
    => OnlyOneFakeTimer'
  <1> SUFFICES ASSUME TypeOK, FakeHandOver, ~TakenInReturn, OnlyOneFakeTimer,
                      [Next]_vars
               PROVE  OnlyOneFakeTimer'
    OBVIOUS
  <1> USE DEF TypeOK, OnlyOneFakeTimer, FakePhases
  <1>1. ASSUME NEW t \in Tasklets,
               BeginTasklet(t) \/ TakeFake(t) \/ Cancel(t) \/ Start(t)
        PROVE OnlyOneFakeTimer'
    BY <1>1 DEF BeginTasklet, TakeFake, Cancel, Start
  <1>2. ASSUME NEW t \in Tasklets, InitFake(t) PROVE OnlyOneFakeTimer'
    <2>1. \A c \in CPUs : irq[c] \notin FakePhases
      BY <1>2 DEF InitFake, TakenInReturn, FakeHandOver, SomeStarting, Starting,
                  SomeClearing, Clearing
    <2>2. QED
      BY <1>2, <2>1 DEF InitFake
  <1>3. ASSUME NEW t \in Tasklets, StartFake(t) PROVE OnlyOneFakeTimer'
    BY <1>3 DEF StartFake
  <1>4. ASSUME NEW c \in CPUs, FakeExpire(c) PROVE OnlyOneFakeTimer'
    <2>1. \A t \in Tasklets : pc[t] # "start_fake"
      BY <1>4 DEF FakeExpire, FakeHandOver, SomeStarting, Starting
    <2>2. \A d \in CPUs : irq[d] \notin FakePhases
      BY <1>4 DEF FakeExpire
    <2>3. QED
      BY <1>4, <2>1, <2>2 DEF FakeExpire
  <1>5. ASSUME NEW c \in CPUs, Expire(c) \/ IrqStep(c) PROVE OnlyOneFakeTimer'
    BY <1>5 DEF Expire, IrqStep, TimerFunction, Inject, TimerRestart, Rearm,
                FakeFunction, FakeReturn
  <1>6. CASE UNCHANGED <<pc, irq, faketimer_queued>>
    BY <1>6
  <1>7. QED
    BY <1>1, <1>2, <1>3, <1>4, <1>5, <1>6
       DEF Next, TaskletStep, RealKey, Write, Schedule, vars

(* For any CPUs and tasklets: the fake timer is touched while its callback *)
(* runs only after a tasklet has taken the word in the few instructions    *)
(* between timer.c:40 and the return of the hrtimer core.                  *)
THEOREM OneFakeTimerUnlessTaken == Spec => OneFakeUnlessTaken
  <1>1. Init => OnlyOneFakeTimer
    BY DEF Init, OnlyOneFakeTimer, FakePhases
  <1>2. QED
    BY <1>1, OnlyOneNext, TypeCorrect, GuardIsHandedOver, PTL
       DEF Spec, OneFakeUnlessTaken

-----------------------------------------------------------------------------
SingleCPU == \A c, d \in CPUs : c = d

LEMMA QuietCPU ==
  ASSUME SingleCPU, NEW t \in Tasklets, MayStep(t), NEW c \in CPUs
  PROVE  irq[c] = "none"
  BY DEF SingleCPU, MayStep

(* There a tasklet does not run before the callback has returned.          *)
LEMMA NotTakenNext ==
  ASSUME SingleCPU
  PROVE  TypeOK /\ FakeHandOver /\ ~TakenInReturn /\ [Next]_vars => ~TakenInReturn'
  <1> SUFFICES ASSUME TypeOK, FakeHandOver, ~TakenInReturn, [Next]_vars
               PROVE  ~TakenInReturn'
    OBVIOUS
  <1> USE DEF TypeOK, TakenInReturn
  <1>1. ASSUME NEW t \in Tasklets, RealKey(t) PROVE ~TakenInReturn'
    <2>1. \A c \in CPUs : irq'[c] = "none"
      BY <1>1, QuietCPU
         DEF RealKey, TakeFake, InitFake, StartFake, Cancel, Start
    <2>2. QED
      BY <2>1
  <1>2. ASSUME NEW t \in Tasklets, BeginTasklet(t) PROVE ~TakenInReturn'
    BY <1>2 DEF BeginTasklet
  <1>3. ASSUME NEW c \in CPUs, FakeFunction(c) PROVE ~TakenInReturn'
    <2>1. \A t \in Tasklets : pc[t] # "init"
      BY <1>3 DEF FakeFunction, FakeHandOver, SomeStarting, Starting,
                  SomeClearing, Clearing
    <2>2. QED
      BY <1>3, <2>1 DEF FakeFunction
  <1>4. ASSUME NEW c \in CPUs,
               \/ Expire(c) \/ FakeExpire(c) \/ TimerFunction(c) \/ Inject(c)
               \/ TimerRestart(c) \/ Rearm(c) \/ FakeReturn(c)
        PROVE ~TakenInReturn'
    BY <1>4 DEF Expire, FakeExpire, TimerFunction, Inject, TimerRestart, Rearm,
                FakeReturn
  <1>5. CASE UNCHANGED <<pc, irq>>
    BY <1>5
  <1>6. QED
    BY <1>1, <1>2, <1>3, <1>4, <1>5
       DEF Next, TaskletStep, IrqStep, Write, Schedule, vars

(* On a machine with one CPU timer.c:47 does what its comment says: the    *)
(* fake timer is not touched while its callback runs.                      *)
THEOREM OneFakeTimerOnOneCPU ==
  ASSUME SingleCPU
  PROVE  Spec => []OnlyOneFakeTimer
  <1>1. Init => ~TakenInReturn
    BY DEF Init, TakenInReturn
  <1>2. TypeOK /\ FakeHandOver /\ ~TakenInReturn /\ [Next]_vars => ~TakenInReturn'
    BY NotTakenNext
  <1>3. Spec => []~TakenInReturn
    BY <1>1, <1>2, TypeCorrect, GuardIsHandedOver, PTL DEF Spec
  <1>4. QED
    BY <1>3, OneFakeTimerUnlessTaken, PTL DEF OneFakeUnlessTaken

(* There a key that is answered -EBUSY shares a fake interrupt that has    *)
(* not been raised yet (timer.c:46-47).                                    *)
THEOREM BusyMeansPendingOnOneCPU ==
  ASSUME SingleCPU
  PROVE  Spec => []CoalescedIsPending
  <1>1. TypeOK /\ Placed /\ Serialized /\ FakeHandOver => CoalescedIsPending
    <2> SUFFICES ASSUME TypeOK, Placed, Serialized, FakeHandOver,
                        NEW t \in Tasklets, MayStep(t), pc[t] = "take",
                        faketimer_running = 1
                 PROVE  faketimer_queued
      BY DEF CoalescedIsPending
    <2>1. ~SomeClearing
      BY QuietCPU DEF SomeClearing, Clearing
    <2>2. NoOverlap
      BY DEF SingleCPU, NoOverlap
    <2>3. ~SomeStarting
      BY <2>2, OneTasklet DEF SomeStarting, Starting
    <2>4. QED
      BY <2>1, <2>3 DEF FakeHandOver
  <1>2. QED
    BY <1>1, TypeCorrect, PlacedCorrect, SerializedCorrect, GuardIsHandedOver, PTL
=============================================================================
