-------------------------- MODULE LifecycleProofs --------------------------
(***************************************************************************)
(* Proofs about Lifecycle for every set of CPUs, tasklets and state        *)
(* values.  While the module is there its steps are steps of Timer, so     *)
(* that the lemmas of TimerProofs carry over.                              *)
(***************************************************************************)
EXTENDS Lifecycle, TimerProofs

LEMMA WorkIsTimer ==
  \/ Work
  \/ \E t \in Tasklets, c \in CPUs : Key(t, c)
  \/ \E v \in StateValues : User(v)
  => Next /\ life' = life
  BY DEF Work, Key, User, lifeVars, Next, TaskletStep, RealKey, IrqStep

(* The steps that leave the timers and tasklets alone.                     *)
LEMMA QuietSteps ==
  \/ \E success \in BOOLEAN :
       DeviceInit(success) \/ DeviceNotify(success) \/ KeyboardHook(success)
  \/ TimerInit \/ Rmmod \/ KeyboardCleanup \/ FreeModule \/ Panic
  => UNCHANGED vars
  BY DEF DeviceInit, DeviceNotify, KeyboardHook, TimerInit, Rmmod, KeyboardCleanup,
         FreeModule, Panic

IInvL == TypeOK /\ Placed /\ LiveNeverLost /\ FakeHandOver

LEMMA IInvLInit == InitL => IInvL
  <1> SUFFICES ASSUME InitL PROVE IInvL
    OBVIOUS
  <1>1. TypeOK /\ Placed
    BY TimerAssumption
       DEF InitL, TypeOK, Placed, OnOrIdle, SingleCallback, TimerPhases
  <1>2. LiveNeverLost
    BY DEF InitL, LiveNeverLost
  <1>3. FakeHandOver
    BY DEF InitL, FakeHandOver, Starting, Clearing, SomeStarting, SomeClearing
  <1>4. QED
    BY <1>1, <1>2, <1>3 DEF IInvL

LEMMA IInvLNext == IInvL /\ [NextL]_allVars => IInvL'
  <1> SUFFICES ASSUME IInvL, [NextL]_allVars PROVE IInvL'
    OBVIOUS
  <1>1. CASE Next /\ life' = life
    <2>1. TypeOK' /\ Placed'
      BY <1>1, TypeNext, PlacedNext DEF IInvL
    <2>2. LiveNeverLost'
      BY <1>1, NeverLostNext DEF IInvL, LiveNeverLost
    <2>3. FakeHandOver'
      BY <1>1, FakeHandOverNext DEF IInvL
    <2>4. QED
      BY <2>1, <2>2, <2>3 DEF IInvL
  <1>2. ASSUME UNCHANGED vars,
               life' \in {"live", "exit"} => life \in {"live", "exit"}
        PROVE IInvL'
    <2>1. TypeOK' /\ Placed'
      BY <1>2, TypeNext, PlacedNext DEF IInvL
    <2>2. LiveNeverLost'
      BY <1>2, NeverLostNext DEF IInvL, LiveNeverLost
    <2>3. FakeHandOver'
      BY <1>2, FakeHandOverNext DEF IInvL
    <2>4. QED
      BY <2>1, <2>2, <2>3 DEF IInvL
  <1>3. CASE Insmod
    <2>1. /\ life' = "init" /\ state' = 0 /\ faketimer_running' = 0
          /\ UNCHANGED <<sched, on, pc, irq, timer_queued, faketimer_queued>>
      BY <1>3 DEF Insmod
    <2>2. \A t \in Tasklets : pc[t] = "idle"
      BY <1>3 DEF Insmod, NothingRunning, IInvL, Placed, OnOrIdle
    <2>3. TypeOK' /\ Placed'
      BY <2>1, TimerAssumption
         DEF IInvL, TypeOK, Placed, OnOrIdle, SingleCallback
    <2>4. FakeHandOver'
      BY <1>3, <2>1, <2>2
         DEF Insmod, NothingPending, NothingRunning, FakeHandOver, Starting,
             Clearing, SomeStarting, SomeClearing
    <2>5. QED
      BY <2>1, <2>3, <2>4 DEF IInvL, LiveNeverLost
  <1>4. CASE TimerStart
    <2>1. /\ life = "set_up" /\ life' = "live" /\ timer_queued'
          /\ timer_queued' \in BOOLEAN
          /\ UNCHANGED <<state, sched, on, pc, irq, faketimer_queued,
                         faketimer_running>>
      BY <1>4 DEF TimerStart
    <2>2. TypeOK' /\ Placed'
      BY <2>1 DEF IInvL, TypeOK, Placed, OnOrIdle, SingleCallback
    <2>3. LiveNeverLost'
      BY <2>1 DEF LiveNeverLost, NeverLost
    <2>4. FakeHandOver'
      BY <2>1 DEF IInvL, FakeHandOver, Starting, Clearing, SomeStarting,
                  SomeClearing
    <2>5. QED
      BY <2>2, <2>3, <2>4 DEF IInvL
  <1>5. CASE TimerCleanup
    <2>1. /\ life = "exit" /\ life' = "cleaned" /\ timer_queued' \in BOOLEAN
          /\ UNCHANGED <<state, sched, on, pc, irq, faketimer_queued,
                         faketimer_running>>
      BY <1>5 DEF TimerCleanup
    <2>2. TypeOK' /\ Placed'
      BY <2>1 DEF IInvL, TypeOK, Placed, OnOrIdle, SingleCallback
    <2>3. LiveNeverLost'
      BY <2>1 DEF LiveNeverLost
    <2>4. FakeHandOver'
      BY <2>1 DEF IInvL, FakeHandOver, Starting, Clearing, SomeStarting,
                  SomeClearing
    <2>5. QED
      BY <2>2, <2>3, <2>4 DEF IInvL
  <1>6. CASE UNCHANGED allVars
    BY <1>2, <1>6 DEF allVars, vars
  <1>7. ASSUME \/ \E success \in BOOLEAN :
                    \/ DeviceInit(success) \/ DeviceNotify(success)
                    \/ KeyboardHook(success)
               \/ TimerInit \/ Rmmod \/ KeyboardCleanup \/ FreeModule
        PROVE  IInvL'
    <2>1. UNCHANGED vars
      BY <1>7, QuietSteps
    <2>2. life' \in {"live", "exit"} => life \in {"live", "exit"}
      BY <1>7 DEF DeviceInit, DeviceNotify, KeyboardHook, TimerInit, Rmmod,
                  KeyboardCleanup, FreeModule
    <2>3. QED
      BY <1>2, <2>1, <2>2
  <1>8. CASE Panic
    <2>1. UNCHANGED vars /\ life' = "panic"
      BY <1>8 DEF Panic
    <2>2. QED
      BY <1>2, <2>1
  <1>9. QED
    BY <1>1, <1>3, <1>4, <1>5, <1>6, <1>7, <1>8, WorkIsTimer DEF NextL, Process

THEOREM IInvLCorrect == SpecL => []IInvL
  BY IInvLInit, IInvLNext, PTL DEF SpecL

(* From timer_init to timer_cleanup the injection timer is never lost,     *)
(* also across failing inits, reloads and keys during insmod (main.c:154). *)
THEOREM LiveTimerNeverLost == SpecL => []LiveNeverLost
  <1>1. IInvL => LiveNeverLost
    BY DEF IInvL
  <1>2. QED
    BY <1>1, IInvLCorrect, PTL

(* The guard word of the fake timer has one holder in every life of the    *)
(* module, from the first key of insmod to the last one of rmmod.          *)
THEOREM LifeHandsOver == SpecL => []FakeHandOver
  <1>1. IInvL => FakeHandOver
    BY DEF IInvL
  <1>2. QED
    BY <1>1, IInvLCorrect, PTL

-----------------------------------------------------------------------------
LEMMA TypeNextL == TypeOKL /\ [NextL]_allVars => TypeOKL'
  <1> SUFFICES ASSUME TypeOKL, [NextL]_allVars PROVE TypeOKL'
    OBVIOUS
  <1> USE DEF TypeOKL, Lives
  <1>1. CASE UNCHANGED allVars
    BY <1>1, TypeNext DEF allVars, vars
  <1>2. CASE Work \/ \E v \in StateValues : User(v)
    <2>1. TypeOK'
      BY <1>2, WorkIsTimer, TypeNext
    <2>2. QED
      BY <1>2, <2>1 DEF Work, User, lifeVars
  <1>3. ASSUME NEW t \in Tasklets, NEW c \in CPUs, Key(t, c) PROVE TypeOKL'
    <2>1. TypeOK'
      BY <1>3, WorkIsTimer, TypeNext
    <2>2. QED
      BY <1>3, <2>1 DEF Key
  <1>4. CASE \/ \E success \in BOOLEAN :
                  \/ DeviceInit(success) \/ DeviceNotify(success)
                  \/ KeyboardHook(success)
             \/ TimerInit \/ Rmmod \/ KeyboardCleanup \/ FreeModule \/ Panic
    <2>1. TypeOK'
      BY <1>4, QuietSteps, TypeNext
    <2>2. QED
      BY <1>4, <2>1 DEF DeviceInit, DeviceNotify, KeyboardHook, RemoveFilter,
         TimerInit, Rmmod, KeyboardCleanup, FreeModule, Panic
  <1>5. CASE Insmod \/ TimerStart \/ TimerCleanup
    BY <1>5, TimerAssumption DEF Insmod, TimerStart, TimerCleanup, TypeOK
  <1>6. QED
    BY <1>1, <1>2, <1>3, <1>4, <1>5 DEF NextL, Process

(* Every variable keeps to its type through any number of insmods, failing *)
(* inits and rmmods.                                                       *)
THEOREM TypeCorrectL == SpecL => []TypeOKL
  <1>1. InitL => TypeOKL
    BY TimerAssumption DEF InitL, TypeOKL, TypeOK, Lives
  <1>2. QED
    BY <1>1, TypeNextL, PTL DEF SpecL

(* What timer_cleanup leaves if nothing was under way, and what nothing    *)
(* disturbs until the next insmod: a tasklet would need a key, a key needs *)
(* the filter, and a timer would need a tasklet.                           *)
AtRest == /\ ~timer_queued /\ ~TimerRunning
          /\ faketimer_running = 0
          /\ \A t \in Tasklets : sched[t] = NoCpu /\ on[t] = NoCpu
Stopped == /\ life = "exited" => ~filter
           /\ life \in {"cleaned", "exited", "out"} /\ ~late => AtRest

LEMMA AtRestWork ==
  TypeOKL /\ FakeHandOver /\ AtRest /\ Work => AtRest'
  <1> SUFFICES ASSUME TypeOKL, FakeHandOver, AtRest, Work PROVE AtRest'
    OBVIOUS
  <1>1. ~faketimer_queued /\ \A c \in CPUs : irq[c] # "fake_function"
    BY DEF FakeHandOver, AtRest, SomeClearing, Clearing
  <1>2. \A t \in Tasklets : sched[t] \notin CPUs /\ on[t] \notin CPUs
    BY TimerAssumption DEF AtRest
  <1>3. \A c \in CPUs : irq[c] \notin TimerPhases
    BY DEF AtRest, TimerRunning
  <1>4. PICK c \in CPUs : FakeReturn(c)
    <2>1. ~\E t \in Tasklets :
             \/ BeginTasklet(t) \/ TakeFake(t) \/ InitFake(t) \/ StartFake(t)
             \/ Cancel(t) \/ Start(t)
      BY <1>2 DEF BeginTasklet, TakeFake, InitFake, StartFake, Cancel, Start,
                  MayStep
    <2>2. ~\E c \in CPUs :
             \/ Expire(c) \/ TimerFunction(c) \/ TimerRestart(c) \/ Rearm(c)
             \/ Inject(c) \/ FakeExpire(c) \/ FakeFunction(c)
      BY <1>1, <1>3 DEF AtRest, Expire, TimerFunction, TimerRestart, Rearm,
                        Inject, FakeExpire, FakeFunction, TimerPhases
    <2>3. QED
      BY <2>1, <2>2 DEF Work
  <1>5. QED
    BY <1>3, <1>4
       DEF FakeReturn, AtRest, TimerRunning, TimerPhases, TypeOKL, TypeOK

LEMMA StoppedNext ==
  TypeOKL /\ FakeHandOver /\ Stopped /\ [NextL]_allVars => Stopped'
  <1> SUFFICES ASSUME TypeOKL, FakeHandOver, Stopped, [NextL]_allVars
               PROVE  Stopped'
    OBVIOUS
  <1> USE DEF Stopped
  <1>1. CASE UNCHANGED allVars
    BY <1>1 DEF allVars, AtRest, TimerRunning
  <1>2. CASE Work
    BY <1>2, AtRestWork DEF Work, lifeVars
  <1>3. ASSUME NEW t \in Tasklets, NEW c \in CPUs, Key(t, c) PROVE Stopped'
    BY <1>3 DEF Key, Loaded
  <1>4. ASSUME NEW v \in StateValues, User(v) PROVE Stopped'
    BY <1>4 DEF User, lifeVars
  <1>5. CASE \/ \E success \in BOOLEAN :
                  \/ DeviceInit(success) \/ DeviceNotify(success)
                  \/ KeyboardHook(success)
             \/ Insmod \/ TimerInit \/ TimerStart \/ Rmmod \/ Panic
    <2>1. life' \notin {"cleaned", "exited", "out"}
      BY <1>5 DEF DeviceInit, DeviceNotify, KeyboardHook, Insmod, TimerInit,
                  TimerStart, Rmmod, Panic
    <2>2. QED
      BY <2>1
  <1>6. CASE TimerCleanup
    <2>1. ~late' => faketimer_running = 0
      BY <1>6 DEF TimerCleanup, TypeOKL, TypeOK
    <2>2. ~late' => AtRest'
      BY <1>6, <2>1 DEF TimerCleanup, AtRest, TimerRunning
    <2>3. QED
      BY <1>6, <2>2 DEF TimerCleanup
  <1>7. CASE KeyboardCleanup \/ FreeModule
    BY <1>7 DEF KeyboardCleanup, FreeModule, RemoveFilter, vars, AtRest,
                TimerRunning
  <1>8. QED
    BY <1>1, <1>2, <1>3, <1>4, <1>5, <1>6, <1>7 DEF NextL, Process

LEMMA StoppedCorrect == SpecL => []Stopped
  <1>1. InitL => Stopped
    BY DEF InitL, Stopped, AtRest, TimerRunning, TimerPhases
  <1>2. QED
    BY <1>1, TypeCorrectL, LifeHandsOver, StoppedNext, PTL DEF SpecL

(* rmmod leaves no timer and no tasklet behind, provided that keydrown is  *)
(* at rest at timer_cleanup and no key comes before the filter is removed  *)
(* (main.c:168-171).                                                       *)
THEOREM QuietRmmod == SpecL => []QuietStop
  <1>1. FakeHandOver /\ Stopped => QuietStop
    BY DEF Stopped, AtRest, QuietStop, NothingPending, FakeHandOver
  <1>2. QED
    BY <1>1, LifeHandsOver, StoppedCorrect, PTL

-----------------------------------------------------------------------------
(* While keydrown is used with care there is no timer before timer_init,   *)
(* and an injection finds the port it needs.                               *)
NoTimer == ~timer_queued /\ ~TimerRunning
Setup   == {"init", "device", "filtered", "inited"}
Safe    == /\ life # "panic"
           /\ life \in Setup => NoTimer
           /\ \A c \in CPUs : irq[c] = "inject" => serio

LEMMA NoPanic ==
  TypeOKL /\ FakeHandOver /\ Stopped /\ Careful /\ Safe => ~Panic
  <1> SUFFICES ASSUME TypeOKL, FakeHandOver, Stopped, Careful, Safe, Panic
               PROVE  FALSE
    OBVIOUS
  <1>1. ~RunFreed
    BY DEF RunFreed, Careful, Stopped, AtRest, NothingPending, FakeHandOver
  <1>2. ASSUME NEW t \in Tasklets PROVE ~ResetUnset(t)
    BY TimerAssumption DEF ResetUnset, MayStep, Careful, NoEarlyKey
  <1>3. ASSUME NEW c \in CPUs PROVE ~InjectNowhere(c)
    BY DEF InjectNowhere, Safe
  <1>4. QED
    BY <1>1, <1>2, <1>3 DEF Panic

LEMMA SafeNext ==
  TypeOKL /\ FakeHandOver /\ Stopped /\ Careful /\ Safe /\ [NextL]_allVars => Safe'
  <1> SUFFICES ASSUME TypeOKL, FakeHandOver, Stopped, Careful, Safe,
                      [NextL]_allVars
               PROVE  Safe'
    OBVIOUS
  <1> USE DEF Safe, Setup, NoTimer
  <1>1. CASE UNCHANGED allVars
    BY <1>1 DEF allVars, TimerRunning
  <1>2. CASE Work
    <2>1. UNCHANGED lifeVars
      BY <1>2 DEF Work
    <2>2. life \in Setup => NoTimer'
      <3> SUFFICES ASSUME life \in Setup PROVE NoTimer'
        OBVIOUS
      <3>1. \A t \in Tasklets : sched[t] \notin CPUs /\ on[t] \notin CPUs
        BY TimerAssumption DEF Careful, NoEarlyKey, Loaded, TimerReady
      <3>2. ~\E t \in Tasklets :
               \/ BeginTasklet(t) \/ TakeFake(t) \/ InitFake(t) \/ StartFake(t)
               \/ TimerReady /\ (Cancel(t) \/ Start(t))
        BY <3>1 DEF BeginTasklet, TakeFake, InitFake, StartFake, MayStep,
                    TimerReady
      <3>3. PICK c \in CPUs : FakeExpire(c) \/ FakeFunction(c) \/ FakeReturn(c)
        BY <1>2, <3>2 DEF Work, Expire, TimerFunction, TimerRestart, Rearm, Inject,
                          TimerRunning, TimerPhases
      <3>4. QED
        BY <3>3 DEF FakeExpire, FakeFunction, FakeReturn, TimerRunning,
                    TimerPhases, TypeOKL, TypeOK
    <2>3. ASSUME NEW c \in CPUs, irq'[c] = "inject" PROVE serio
      <3>1. CASE irq[c] = "inject"
        BY <3>1
      <3>2. CASE irq[c] # "inject"
        <4>1. TimerFunction(c) /\ Active(state)
          BY <1>2, <2>3, <3>2
             DEF Work, BeginTasklet, TakeFake, InitFake, StartFake, Cancel, Start,
                 Expire, TimerFunction, TimerRestart, Rearm, Inject, FakeExpire,
                 FakeFunction, FakeReturn, TypeOKL, TypeOK
        <4>2. TimerReady
          BY <1>2, <4>1 DEF Work, Loaded, TimerReady, TimerFunction, TimerRunning,
                            TimerPhases, TypeOKL, Lives
        <4>3. QED
          BY <4>1, <4>2 DEF Careful, HasPort
      <3>3. QED
        BY <3>1, <3>2
    <2>4. QED
      BY <2>1, <2>2, <2>3 DEF lifeVars
  <1>3. ASSUME NEW t \in Tasklets, NEW c \in CPUs, Key(t, c) PROVE Safe'
    BY <1>3 DEF Key, Schedule, TimerRunning
  <1>4. ASSUME NEW v \in StateValues, User(v) PROVE Safe'
    BY <1>4 DEF User, Write, lifeVars, TimerRunning
  <1>5. ASSUME NEW success \in BOOLEAN, DeviceInit(success) PROVE Safe'
    BY <1>5 DEF DeviceInit, vars, TimerRunning, TimerPhases
  <1>6. CASE \/ \E success \in BOOLEAN :
                  DeviceNotify(success) \/ KeyboardHook(success)
             \/ TimerInit \/ Rmmod \/ KeyboardCleanup \/ FreeModule
    BY <1>6 DEF DeviceNotify, KeyboardHook, TimerInit, Rmmod, KeyboardCleanup,
                FreeModule, vars, TimerRunning
  <1>7. CASE Insmod
    BY <1>7 DEF Insmod, NothingPending, NothingRunning, TimerRunning, TimerPhases
  <1>8. CASE TimerStart \/ TimerCleanup
    <2>1. life' \in {"live", "cleaned"} /\ UNCHANGED <<irq, serio>>
      BY <1>8 DEF TimerStart, TimerCleanup
    <2>2. QED
      BY <2>1
  <1>9. CASE Panic
    BY <1>9, NoPanic
  <1>10. QED
    BY <1>1, <1>2, <1>3, <1>4, <1>5, <1>6, <1>7, <1>8, <1>9 DEF NextL, Process

(* For any CPUs, tasklets and history of loads, failures and keys: the     *)
(* kernel goes down only after a key before timer_init, an activation      *)
(* without a keyboard, or a key around timer_cleanup (main.c:153-171).     *)
THEOREM UsedWithCare == SpecL => CarefulUseIsSafe
  <1>1. InitL => Safe
    BY DEF InitL, Safe, Setup, NoTimer
  <1>2. Safe => life # "panic"
    BY DEF Safe
  <1>3. QED
    BY <1>1, <1>2, TypeCorrectL, LifeHandsOver, StoppedCorrect, SafeNext, PTL
       DEF SpecL, CarefulUseIsSafe

-----------------------------------------------------------------------------
(* A step of InjectionClock in a module whose life does not change.        *)
LEMMA ClockTick ==
  [Clock!Next]_(Clock!clockVars) /\ life' = life
    => [Reloads!LifeNext]_(Reloads!lifeClockVars)
  BY DEF Clock!clockVars, Clock!Next, Clock!Notify, Clock!Answer, Clock!Owe,
         Clock!Serve, Clock!Disarm, Clock!Fire, Clock!Rearm,
         Reloads!lifeClockVars, Reloads!LifeNext, Reloads!Tick, Reloads!Next,
         Reloads!Notify, Reloads!Answer, Reloads!Owe, Reloads!Serve,
         Reloads!Disarm, Reloads!Fire, Reloads!Rearm

LEMMA LifeStep ==
  IInvL /\ [NextL]_allVars => [Reloads!LifeNext]_(Reloads!lifeClockVars)
  <1> SUFFICES ASSUME IInvL, [NextL]_allVars
               PROVE  [Reloads!LifeNext]_(Reloads!lifeClockVars)
    OBVIOUS
  <1> USE DEF Reloads!lifeClockVars
  <1>1. CASE Next /\ life' = life
    BY <1>1, ClockStep, ClockTick DEF IInvL
  <1>2. CASE UNCHANGED allVars
    BY <1>2 DEF allVars, TimerRunning
  (* Nothing is pending that insmod could drop: the word is clear.         *)
  <1>3. CASE Insmod
    <2>1. faketimer_running = 0
      <3>1. \A t \in Tasklets : pc[t] = "idle"
        BY <1>3 DEF Insmod, NothingRunning, IInvL, Placed, OnOrIdle
      <3>2. QED
        BY <1>3, <3>1
           DEF Insmod, NothingPending, NothingRunning, IInvL, TypeOK,
               FakeHandOver, SomeStarting, Starting, SomeClearing, Clearing
    <2>2. QED
      BY <1>3, <2>1 DEF Insmod, TimerRunning
  <1>4. CASE TimerStart
    <2>1. Reloads!Load
      BY <1>4 DEF TimerStart, Reloads!Load, TimerRunning
    <2>2. QED
      BY <2>1 DEF Reloads!LifeNext
  <1>5. CASE TimerCleanup
    <2>1. Reloads!Unload
      BY <1>5 DEF TimerCleanup, Reloads!Unload, TimerRunning
    <2>2. QED
      BY <2>1 DEF Reloads!LifeNext
  <1>6. CASE Panic
    <2>1. UNCHANGED vars /\ life' = "panic"
      BY <1>6 DEF Panic
    <2>2. UNCHANGED Reloads!clockVars
      BY <2>1 DEF vars, Reloads!clockVars, TimerRunning
    <2>3. CASE life \in {"live", "exit"}
      BY <2>1, <2>2, <2>3 DEF Reloads!Crash, Reloads!LifeNext
    <2>4. CASE life \notin {"live", "exit"}
      BY <2>1, <2>2, <2>4 DEF Reloads!clockVars
    <2>5. QED
      BY <2>3, <2>4
  <1>7. ASSUME \/ \E success \in BOOLEAN :
                    \/ DeviceInit(success) \/ DeviceNotify(success)
                    \/ KeyboardHook(success)
               \/ TimerInit \/ Rmmod \/ KeyboardCleanup \/ FreeModule
        PROVE  UNCHANGED Reloads!lifeClockVars
    <2>1. UNCHANGED vars
      BY <1>7, QuietSteps
    <2>2. (life' \in {"live", "exit"}) = (life \in {"live", "exit"})
      BY <1>7 DEF DeviceInit, DeviceNotify, KeyboardHook, TimerInit, Rmmod,
                  KeyboardCleanup, FreeModule
    <2>3. QED
      BY <2>1, <2>2 DEF vars, TimerRunning
  <1>8. QED
    BY <1>1, <1>2, <1>3, <1>4, <1>5, <1>6, <1>7, WorkIsTimer DEF NextL, Process

(* Through any number of insmods, failing inits and rmmods the timers      *)
(* implement the safety part of ReloadableClock: timer_init is the only    *)
(* way up, hrtimer_cancel never stops the clock in the middle of an        *)
(* injection, and what keys owe crosses an rmmod (main.c:154-172).         *)
THEOREM LifeImplementsReloads == SpecL => Reloads!SafeLife
  <1>1. InitL => Reloads!InitDown
    BY DEF InitL, Reloads!InitDown, TimerRunning, TimerPhases
  <1>2. QED
    BY <1>1, LifeStep, IInvLCorrect, PTL DEF SpecL, Reloads!SafeLife
=============================================================================
