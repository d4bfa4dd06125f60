------------------------------- MODULE Timer -------------------------------
(***************************************************************************)
(* The two high-resolution timers of the first layer (source/timer.c), the *)
(* tasklets that reset them after a real key (main.c real_key) and the     *)
(* callback that injects a fake key (main.c timer_function).               *)
(*                                                                         *)
(* Three kinds of actors interleave on the CPUs.  A hard interrupt handler *)
(* (a timer callback) preempts whatever its CPU does.  A tasklet is a soft *)
(* interrupt: it is queued by the key filter on the CPU that took the      *)
(* interrupt, never runs on two CPUs at a time, and two tasklets queued on *)
(* one CPU run one after the other.  A process writes /proc/keydrown.      *)
(*                                                                         *)
(* Delays are abstracted: every one is drawn from RND_MIN .. RND_MAX,      *)
(* which includes 0, so an armed timer may expire at any later moment.     *)
(***************************************************************************)
EXTENDS Integers

CONSTANTS
  CPUs,        \* the CPUs
  Tasklets,    \* the key notifications: {press, release} on x86, {tap} on ARM
  NoCpu,       \* "on no CPU"
  StateValues  \* the integers a user may write to /proc/keydrown

ASSUME TimerAssumption == /\ CPUs # {}
                          /\ NoCpu \notin CPUs
                          /\ StateValues \subseteq Int
                          /\ 0 \in StateValues

VARIABLES
  state,             \* the activation word behind /proc/keydrown
  sched,             \* the CPU on whose softirq list a tasklet waits
  on,                \* the CPU a tasklet runs on
  pc,                \* where a running tasklet is in real_key
  irq,               \* the hard interrupt handler a CPU is in
  timer_queued,      \* the injection timer is enqueued in its hrtimer base
  faketimer_queued,  \* so is the fake timer
  faketimer_running  \* the test-and-set word that guards the fake timer

vars == <<state, sched, on, pc, irq,
          timer_queued, faketimer_queued, faketimer_running>>

TimerPhases == {"timer_function", "inject", "timer_restart", "rearm"}
FakePhases  == {"fake_function", "fake_return"}

(* The callback of the injection timer is being run by the hrtimer core.   *)
TimerRunning == \E c \in CPUs : irq[c] \in TimerPhases

(* STATE_INJECT is bit 0 of the activation word.                           *)
Active(s) == s % 2 = 1

(* A softirq on c makes progress only while no hard interrupt holds c.     *)
MayStep(t) == on[t] \in CPUs /\ irq[on[t]] = "none"

Init == /\ state = 0
        /\ sched = [t \in Tasklets |-> NoCpu]
        /\ on    = [t \in Tasklets |-> NoCpu]
        /\ pc    = [t \in Tasklets |-> "idle"]
        /\ irq   = [c \in CPUs |-> "none"]
        /\ timer_queued = TRUE
        /\ faketimer_queued  = FALSE
        /\ faketimer_running = 0

-----------------------------------------------------------------------------
(* keydrown_write: the last value written wins; nothing else happens on    *)
(* x86, and the enable and disable hooks of the touchscreen are empty.     *)
Write(v) == /\ state' = v
            /\ UNCHANGED <<sched, on, pc, irq,
                           timer_queued, faketimer_queued, faketimer_running>>

(* The key filter sees a byte in the hard interrupt of CPU c and schedules *)
(* the notification; a tasklet already scheduled is left where it is.  An  *)
(* injected interrupt may be taken inside timer_function on the same CPU.  *)
Schedule(t, c) ==
  /\ irq[c] \in {"none", "inject"}
  /\ sched[t] = NoCpu
  /\ sched' = [sched EXCEPT ![t] = c]
  /\ UNCHANGED <<state, on, pc, irq,
                 timer_queued, faketimer_queued, faketimer_running>>

(* The softirq of c starts a tasklet that runs nowhere else.               *)
BeginTasklet(t) ==
  /\ sched[t] \in CPUs
  /\ irq[sched[t]] = "none"
  /\ on[t] = NoCpu
  /\ \A u \in Tasklets : on[u] # sched[t]
  /\ on'    = [on EXCEPT ![t] = sched[t]]
  /\ sched' = [sched EXCEPT ![t] = NoCpu]
  /\ pc'    = [pc EXCEPT ![t] = "take"]
  /\ UNCHANGED <<state, irq, timer_queued, faketimer_queued, faketimer_running>>

(* Mutant: the test of the old value of faketimer_running is dropped.      *)
TakeFakeUntested(t) ==
  /\ MayStep(t) /\ pc[t] = "take"
  /\ pc' = [pc EXCEPT ![t] = "init"]
  /\ faketimer_running' = 1
  /\ UNCHANGED <<state, sched, on, irq, timer_queued, faketimer_queued>>

(* Mutant: real_key gives up when timer_inject_irq returns -EBUSY.         *)
TakeFakeOrQuit(t) ==
  /\ MayStep(t) /\ pc[t] = "take"
  /\ pc' = [pc EXCEPT ![t] = IF faketimer_running = 0 THEN "init" ELSE "idle"]
  /\ on' = [on EXCEPT ![t] = IF faketimer_running = 0 THEN @ ELSE NoCpu]
  /\ faketimer_running' = 1
  /\ UNCHANGED <<state, sched, irq, timer_queued, faketimer_queued>>

(* Mutant: a counter is incremented in place of the test-and-set.          *)
TakeFakeCounts(t) ==
  /\ MayStep(t) /\ pc[t] = "take"
  /\ pc' = [pc EXCEPT ![t] = IF faketimer_running = 0 THEN "init" ELSE "reset"]
  /\ faketimer_running' = faketimer_running + 1
  /\ UNCHANGED <<state, sched, on, irq, timer_queued, faketimer_queued>>

(* timer_inject_irq: an atomic exchange decides who starts the fake timer; *)
(* the result is ignored by real_key, which goes on to timer_reset.        *)
TakeFake(t) ==
  /\ MayStep(t) /\ pc[t] = "take"
  /\ pc' = [pc EXCEPT ![t] = IF faketimer_running = 0 THEN "init" ELSE "reset"]
  /\ faketimer_running' = 1
  /\ UNCHANGED <<state, sched, on, irq, timer_queued, faketimer_queued>>

(* hrtimer_init clears the timer structure, whatever it was doing.         *)
InitFake(t) ==
  /\ MayStep(t) /\ pc[t] = "init"
  /\ pc' = [pc EXCEPT ![t] = "start_fake"]
  /\ faketimer_queued' = FALSE
  /\ UNCHANGED <<state, sched, on, irq, timer_queued, faketimer_running>>

StartFake(t) ==
  /\ MayStep(t) /\ pc[t] = "start_fake"
  /\ pc' = [pc EXCEPT ![t] = "reset"]
  /\ faketimer_queued' = TRUE
  /\ UNCHANGED <<state, sched, on, irq, timer_queued, faketimer_running>>

(* Mutant: hrtimer_try_to_cancel, which does not wait for the callback.    *)
CancelNoWait(t) ==
  /\ MayStep(t) /\ pc[t] = "reset"
  /\ pc' = [pc EXCEPT ![t] = "start"]
  /\ timer_queued' = FALSE
  /\ UNCHANGED <<state, sched, on, irq, faketimer_queued, faketimer_running>>

(* timer_reset, first half: hrtimer_cancel spins until the callback is not *)
(* running on any CPU, and dequeues the timer.                             *)
Cancel(t) ==
  /\ MayStep(t) /\ pc[t] = "reset"
  /\ ~TimerRunning
  /\ pc' = [pc EXCEPT ![t] = "start"]
  /\ timer_queued' = FALSE
  /\ UNCHANGED <<state, sched, on, irq, faketimer_queued, faketimer_running>>

(* timer_reset, second half: hrtimer_start enqueues the timer, even while  *)
(* its callback runs; then the tasklet function returns.                   *)
Start(t) ==
  /\ MayStep(t) /\ pc[t] = "start"
  /\ pc' = [pc EXCEPT ![t] = "idle"]
  /\ on' = [on EXCEPT ![t] = NoCpu]
  /\ timer_queued' = TRUE
  /\ UNCHANGED <<state, sched, irq, faketimer_queued, faketimer_running>>

-----------------------------------------------------------------------------
(* The hrtimer core dequeues an expired timer and calls its function in a  *)
(* hard interrupt.  A timer restarted while its callback runs stays on the *)
(* base of that CPU, so two callbacks of the injection timer never overlap.*)
Expire(c) ==
  /\ timer_queued /\ ~TimerRunning
  /\ irq[c] = "none"
  /\ timer_queued' = FALSE
  /\ irq' = [irq EXCEPT ![c] = "timer_function"]
  /\ UNCHANGED <<state, sched, on, pc, faketimer_queued, faketimer_running>>

(* Mutant: the timer is not restarted while injection is switched off.     *)
TimerFunctionStops(c) ==
  /\ irq[c] = "timer_function"
  /\ irq' = [irq EXCEPT ![c] = IF Active(state) THEN "inject" ELSE "none"]
  /\ UNCHANGED <<state, sched, on, pc,
                 timer_queued, faketimer_queued, faketimer_running>>

(* Mutant: any value but 0 activates.                                      *)
TimerFunctionNonzero(c) ==
  /\ irq[c] = "timer_function"
  /\ irq' = [irq EXCEPT ![c] = IF state # 0 THEN "inject" ELSE "timer_restart"]
  /\ UNCHANGED <<state, sched, on, pc,
                 timer_queued, faketimer_queued, faketimer_running>>

(* timer_function: the activation word is read once, without a lock.       *)
TimerFunction(c) ==
  /\ irq[c] = "timer_function"
  /\ irq' = [irq EXCEPT ![c] = IF Active(state) THEN "inject"
                                                ELSE "timer_restart"]
  /\ UNCHANGED <<state, sched, on, pc,
                 timer_queued, faketimer_queued, faketimer_running>>

(* The inject function of the plugin returns.                              *)
Inject(c) ==
  /\ irq[c] = "inject"
  /\ irq' = [irq EXCEPT ![c] = "timer_restart"]
  /\ UNCHANGED <<state, sched, on, pc,
                 timer_queued, faketimer_queued, faketimer_running>>

(* timer_restart: hrtimer_forward_now moves the expiry time of a dequeued  *)
(* timer (it refuses an enqueued one); HRTIMER_RESTART is returned.        *)
TimerRestart(c) ==
  /\ irq[c] = "timer_restart"
  /\ irq' = [irq EXCEPT ![c] = "rearm"]
  /\ UNCHANGED <<state, sched, on, pc,
                 timer_queued, faketimer_queued, faketimer_running>>

(* Back in the hrtimer core: a timer that asked for a restart is enqueued  *)
(* unless somebody has enqueued it already.                                *)
Rearm(c) ==
  /\ irq[c] = "rearm"
  /\ irq' = [irq EXCEPT ![c] = "none"]
  /\ timer_queued' = TRUE
  /\ UNCHANGED <<state, sched, on, pc, faketimer_queued, faketimer_running>>

FakeExpire(c) ==
  /\ faketimer_queued
  /\ irq[c] = "none"
  /\ faketimer_queued' = FALSE
  /\ irq' = [irq EXCEPT ![c] = "fake_function"]
  /\ UNCHANGED <<state, sched, on, pc, timer_queued, faketimer_running>>

(* Mutant: faketimer_function forgets to clear faketimer_running.          *)
FakeFunctionKeeps(c) ==
  /\ irq[c] = "fake_function"
  /\ irq' = [irq EXCEPT ![c] = "fake_return"]
  /\ UNCHANGED <<state, sched, on, pc,
                 timer_queued, faketimer_queued, faketimer_running>>

(* faketimer_function clears the word while the hrtimer core still runs it.*)
FakeFunction(c) ==
  /\ irq[c] = "fake_function"
  /\ irq' = [irq EXCEPT ![c] = "fake_return"]
  /\ faketimer_running' = 0
  /\ UNCHANGED <<state, sched, on, pc, timer_queued, faketimer_queued>>

(* HRTIMER_NORESTART: the hrtimer core lets go of the fake timer.          *)
FakeReturn(c) ==
  /\ irq[c] = "fake_return"
  /\ irq' = [irq EXCEPT ![c] = "none"]
  /\ UNCHANGED <<state, sched, on, pc,
                 timer_queued, faketimer_queued, faketimer_running>>

-----------------------------------------------------------------------------
RealKey(t) == \/ TakeFake(t) \/ InitFake(t) \/ StartFake(t)
              \/ Cancel(t) \/ Start(t)

TaskletStep(t) == BeginTasklet(t) \/ RealKey(t)

IrqStep(c) == \/ TimerFunction(c) \/ Inject(c) \/ TimerRestart(c) \/ Rearm(c)
              \/ FakeFunction(c) \/ FakeReturn(c)

Next == \/ \E v \in StateValues : Write(v)
        \/ \E t \in Tasklets, c \in CPUs : Schedule(t, c)
        \/ \E t \in Tasklets : TaskletStep(t)
        \/ \E c \in CPUs : Expire(c) \/ FakeExpire(c) \/ IrqStep(c)

(* A hard interrupt handler runs to its end and a due timer is delivered.  *)
(* A softirq, and the spin in hrtimer_cancel, progress between the hard    *)
(* interrupts of their CPU: they are enabled again and again, not always,  *)
(* and the hrtimer core bounds how long it keeps a CPU; hence SF.          *)
Fairness == /\ \A c \in CPUs : WF_vars(IrqStep(c))
            /\ WF_vars(\E c \in CPUs : Expire(c))
            /\ SF_vars(\E c \in CPUs : FakeExpire(c))
            /\ \A t \in Tasklets : SF_vars(TaskletStep(t))

Spec     == Init /\ [][Next]_vars
FairSpec == Spec /\ Fairness

-----------------------------------------------------------------------------
TypeOK == /\ state \in StateValues
          /\ sched \in [Tasklets -> CPUs \cup {NoCpu}]
          /\ on    \in [Tasklets -> CPUs \cup {NoCpu}]
          /\ pc    \in [Tasklets ->
                         {"idle", "take", "init", "start_fake", "reset", "start"}]
          /\ irq   \in [CPUs -> {"none"} \cup TimerPhases \cup FakePhases]
          /\ timer_queued \in BOOLEAN
          /\ faketimer_queued \in BOOLEAN
          /\ faketimer_running \in {0, 1}

(* The injection timer is never lost (timer.c:22-35): whatever the order   *)
(* in which tasklets on several CPUs cancel and restart it while its own   *)
(* callback restarts it, it is enqueued, or its callback will restart it,  *)
(* or a tasklet stands right before hrtimer_start.                         *)
NeverLost == timer_queued \/ TimerRunning \/ \E t \in Tasklets : pc[t] = "start"

(* Who has won the exchange in timer_inject_irq and not passed it on.      *)
Starting(t)  == pc[t] \in {"init", "start_fake"}
Clearing(c)  == irq[c] = "fake_function"
SomeStarting == \E t \in Tasklets : Starting(t)
SomeClearing == \E c \in CPUs : Clearing(c)

(* The guard word of timer_inject_irq (timer.c:46) is a lock handed from   *)
(* the tasklet that wins it to the queued timer to the callback: it is set *)
(* exactly while one of the three holds it, and never two do.              *)
FakeHandOver ==
  /\ faketimer_running = 1 <=> SomeStarting \/ faketimer_queued \/ SomeClearing
  /\ SomeStarting => ~faketimer_queued /\ ~SomeClearing
  /\ faketimer_queued => ~SomeClearing
  /\ \A t, u \in Tasklets : Starting(t) /\ Starting(u) => t = u
  /\ \A c, d \in CPUs : Clearing(c) /\ Clearing(d) => c = d

(* No key goes without a fake interrupt after it (timer.c:46-54): when a   *)
(* tasklet has tried for the word, by winning it or by finding it taken,   *)
(* the shared fake interrupt is still to be raised.  The code has one gap: *)
(* on another CPU faketimer_function has raised its interrupt and is about *)
(* to clear the word (timer.c:40).                                         *)
KeyHasFakeToCome ==
  [][\A t \in Tasklets :
       TakeFake(t) => (SomeStarting \/ faketimer_queued)' \/ SomeClearing]_vars

(* timer.c:47 "allow only one timer": the fake timer is never set up again *)
(* or pending while the hrtimer core still runs its callback, and never    *)
(* runs on two CPUs.  The code keeps this on one CPU only.                 *)
OnlyOneFakeTimer ==
  /\ \A c \in CPUs :
       irq[c] \in FakePhases => /\ ~faketimer_queued
                               /\ \A t \in Tasklets : pc[t] # "start_fake"
  /\ \A c, d \in CPUs : irq[c] \in FakePhases /\ irq[d] \in FakePhases => c = d

(* The one way in which the code fails to allow only one timer: a tasklet  *)
(* takes the word between its release by faketimer_function (timer.c:40)   *)
(* and the return of the hrtimer core, which is not done with the timer.   *)
TakenInReturn == \E t \in Tasklets, c \in CPUs :
                   pc[t] = "init" /\ irq[c] = "fake_return"
OneFakeUnlessTaken == []~TakenInReturn => []OnlyOneFakeTimer

(* On one CPU a key that finds the fake timer busy (-EBUSY, timer.c:47)    *)
(* loses nothing: the fake timer it is folded into has not fired yet.      *)
CoalescedIsPending ==
  \A t \in Tasklets :
    MayStep(t) /\ pc[t] = "take" /\ faketimer_running = 1 => faketimer_queued

(* hrtimer_forward_now (timer.c:25) requires a timer that is not enqueued. *)
ForwardDequeued == \A c \in CPUs : irq[c] = "timer_restart" => ~timer_queued

(* At most one tasklet is between the cancel and the start of timer_reset. *)
OneRestart == \A t, u \in Tasklets : pc[t] = "start" /\ pc[u] = "start" => t = u

(* timer_reset cancels before it starts (timer.c:33-34), and that is enough*)
(* for the callback, which may come at any moment, as long as two resets   *)
(* do not overlap.                                                         *)
CancelProtectsForward == []OneRestart => []ForwardDequeued

(* From some time on no key is notified; from some time on state says      *)
(* "inject" (or says not to).                                              *)
KeysStop == <>[][\A t \in Tasklets : sched[t] = NoCpu => sched'[t] = NoCpu]_vars
Injecting == \E c \in CPUs : irq[c] = "inject"

(* Every notified key gets its timer_reset (main.c:85-92): the tasklet     *)
(* comes to run and the spin in hrtimer_cancel ends, although the callback *)
(* restarts itself all the time.  (While keys keep coming for ever, a fake *)
(* interrupt may hold the spinning CPU whenever the callback is not        *)
(* running on another one.)                                                *)
ResetDone == KeysStop => \A t \in Tasklets : sched[t] # NoCpu ~> pc[t] = "start"

(* Fake keys go on for ever while keydrown is active and nobody types, no  *)
(* matter what was typed, activated and deactivated before.                *)
InjectionGoesOn == KeysStop /\ <>[]Active(state) => []<>Injecting

(* Once deactivated for good, keydrown stops injecting.                    *)
InjectionStops == <>[]~Active(state) => <>[]~Injecting

(* The timers implement the promise of InjectionClock.  Its Serve is fair: *)
(* the guard word does not stay set (timer.c:38-42), or no later key would *)
(* ever raise a fake interrupt.                                            *)
Clock == INSTANCE InjectionClock
           WITH Notifications <- Tasklets,
                armed    <- timer_queued,
                firing   <- TimerRunning,
                asking   <- {t \in Tasklets : pc[t] = "take"},
                handling <- {t \in Tasklets : pc[t] \notin {"idle", "take"}},
                owed     <- faketimer_running = 1

ImplementsClock == Clock!Spec
=============================================================================
