----------------------------- MODULE Lifecycle -----------------------------
(***************************************************************************)
(* The kernel module from insmod to rmmod (main.c inthide_init and         *)
(* inthide_exit, keyboard_init and keyboard_cleanup), around the timers    *)
(* and tasklets of Timer.  Keys are typed and the fake timer expires while *)
(* insmod and rmmod work through their steps.                              *)
(*                                                                         *)
(* What the kernel does not survive is the phase "panic", where everything *)
(* stops: a call of code or use of a timer that is not there.              *)
(***************************************************************************)
EXTENDS Timer

VARIABLES
  life,    \* where insmod or rmmod is
  serio,   \* keyboard_device_init has found the port of the keyboard
  filter,  \* key_filter is installed in the i8042 driver
  late     \* history: keydrown was still busy, or became so, at timer_cleanup

lifeVars == <<life, serio, filter, late>>
allVars  == <<state, sched, on, pc, irq, timer_queued, faketimer_queued,
              faketimer_running, life, serio, filter, late>>

Lives == {"out", "init", "device", "filtered", "inited", "set_up", "live",
          "exit", "cleaned", "exited", "panic"}

(* Nothing of the module waits to be run.                                  *)
NothingPending == /\ ~timer_queued /\ ~faketimer_queued
                  /\ \A t \in Tasklets : sched[t] = NoCpu

(* Nothing of the module is being run.                                     *)
NothingRunning == /\ \A c \in CPUs : irq[c] = "none"
                  /\ \A t \in Tasklets : on[t] = NoCpu

InitL == /\ state = 0
         /\ sched = [t \in Tasklets |-> NoCpu]
         /\ on    = [t \in Tasklets |-> NoCpu]
         /\ pc    = [t \in Tasklets |-> "idle"]
         /\ irq   = [c \in CPUs |-> "none"]
         /\ timer_queued = FALSE
         /\ faketimer_queued  = FALSE
         /\ faketimer_running = 0
         /\ life = "out"
         /\ serio = FALSE /\ filter = FALSE /\ late = FALSE

(* insmod and rmmod are processes: they need a CPU that neither a handler  *)
(* nor a softirq holds.                                                    *)
ProcessRuns == \E c \in CPUs : /\ irq[c] = "none"
                               /\ \A t \in Tasklets : on[t] # c

-----------------------------------------------------------------------------
(* insmod: the static data of the module are fresh, /proc/keydrown exists. *)
(* (A module loaded over the remains of an earlier one is not modelled:    *)
(* the remains end the system before.)                                     *)
Insmod == /\ life = "out" /\ ProcessRuns
          /\ NothingPending /\ NothingRunning
          /\ life' = "init"
          /\ state' = 0
          /\ faketimer_running' = 0
          /\ serio' = FALSE /\ filter' = FALSE /\ late' = FALSE
          /\ UNCHANGED <<sched, on, pc, irq, timer_queued, faketimer_queued>>

(* keyboard_init: the port of the keyboard is looked up and copied, and    *)
(* the filter is installed in its driver.  Each may fail, and so may all   *)
(* that is looked up before; plugin_init goes on as if nothing had         *)
(* happened.                                                               *)
DeviceInit(found) == /\ life = "init" /\ ProcessRuns
                     /\ life' = "device"
                     /\ serio' = found
                     /\ UNCHANGED <<vars, filter, late>>

DeviceNotify(installed) == /\ life = "device" /\ ProcessRuns
                           /\ installed => serio
                           /\ life' = "filtered"
                           /\ filter' = installed
                           /\ UNCHANGED <<vars, serio, late>>

(* i8042_remove_filter does nothing if there is none.                      *)
RemoveFilter == filter' = FALSE

(* hook_interrupt succeeds, or the filter is taken out again.  (Without a  *)
(* filter there is no attempt, and nothing to take out.)                   *)
KeyboardHook(hooked) == /\ life = "filtered" /\ ProcessRuns
                        /\ life' = "inited"
                        /\ IF hooked THEN UNCHANGED filter ELSE RemoveFilter
                        /\ UNCHANGED <<vars, serio, late>>

(* timer_init, first half: from hrtimer_init on the timer can be used.     *)
TimerInit == /\ life = "inited" /\ ProcessRuns
             /\ life' = "set_up"
             /\ UNCHANGED <<vars, serio, filter, late>>

(* timer_init, second half: hrtimer_start.                                 *)
TimerStart == /\ life = "set_up" /\ ProcessRuns
              /\ life' = "live"
              /\ timer_queued' = TRUE
              /\ UNCHANGED <<state, sched, on, pc, irq, faketimer_queued,
                             faketimer_running, serio, filter, late>>

(* rmmod: /proc/keydrown is removed first.                                 *)
Rmmod == /\ life = "live" /\ ProcessRuns
         /\ life' = "exit"
         /\ UNCHANGED <<vars, serio, filter, late>>

(* Mutant: hrtimer_try_to_cancel in place of hrtimer_cancel.               *)
TimerCleanupNoWait ==
  /\ life = "exit" /\ ProcessRuns
  /\ life' = "cleaned"
  /\ timer_queued' = FALSE
  /\ late' = \/ faketimer_running = 1
             \/ \E t \in Tasklets : sched[t] # NoCpu \/ on[t] # NoCpu
  /\ UNCHANGED <<state, sched, on, pc, irq, faketimer_queued,
                 faketimer_running, serio, filter>>

(* Mutant: timer_cleanup waits for the timer to run out.                   *)
TimerCleanupUncancelled ==
  /\ life = "exit" /\ ProcessRuns
  /\ ~TimerRunning /\ ~timer_queued
  /\ life' = "cleaned"
  /\ late' = \/ faketimer_running = 1
             \/ \E t \in Tasklets : sched[t] # NoCpu \/ on[t] # NoCpu
  /\ UNCHANGED <<state, sched, on, pc, irq, timer_queued, faketimer_queued,
                 faketimer_running, serio, filter>>

(* timer_cleanup: hrtimer_cancel waits for the callback.  Neither the fake *)
(* timer nor the tasklets are waited for.                                  *)
TimerCleanup ==
  /\ life = "exit" /\ ProcessRuns
  /\ ~TimerRunning
  /\ life' = "cleaned"
  /\ timer_queued' = FALSE
  /\ late' = \/ faketimer_running = 1
             \/ \E t \in Tasklets : sched[t] # NoCpu \/ on[t] # NoCpu
  /\ UNCHANGED <<state, sched, on, pc, irq, faketimer_queued,
                 faketimer_running, serio, filter>>

(* keyboard_cleanup: the line is unhooked and the filter is taken out.     *)
KeyboardCleanup == /\ life = "cleaned" /\ ProcessRuns
                   /\ life' = "exited"
                   /\ RemoveFilter
                   /\ UNCHANGED <<vars, serio, late>>

(* The kernel frees the module after a grace period, which waits for what  *)
(* runs on a CPU but not for what is queued to run.                        *)
FreeModule == /\ life = "exited" /\ NothingRunning
              /\ life' = "out"
              /\ UNCHANGED <<vars, serio, filter, late>>

-----------------------------------------------------------------------------
TimerReady == life \in {"set_up", "live", "exit", "cleaned", "exited"}
Loaded     == life \notin {"out", "panic"}

Key(t, c) == /\ filter /\ Loaded
             /\ Schedule(t, c)
             /\ late' = (late \/ life = "cleaned")
             /\ UNCHANGED <<life, serio, filter>>

(* /proc/keydrown is there from insmod to rmmod.                           *)
User(v) == /\ life \in {"init", "device", "filtered", "inited", "set_up", "live"}
           /\ Write(v)
           /\ UNCHANGED lifeVars

(* Everything else that Timer does, done by a module that is there.        *)
Work == /\ Loaded
        /\ \/ \E t \in Tasklets :
                \/ BeginTasklet(t) \/ TakeFake(t) \/ InitFake(t) \/ StartFake(t)
                \/ TimerReady /\ (Cancel(t) \/ Start(t))
           \/ \E c \in CPUs :
                \/ Expire(c) \/ TimerFunction(c) \/ TimerRestart(c) \/ Rearm(c)
                \/ serio /\ Inject(c)
                \/ FakeExpire(c) \/ FakeFunction(c) \/ FakeReturn(c)
        /\ UNCHANGED lifeVars

(* timer_reset of a timer that timer_init has not set up yet.              *)
ResetUnset(t) == /\ Loaded /\ ~TimerReady
                 /\ MayStep(t) /\ pc[t] = "reset"
(* serio_interrupt on the port that keyboard_init did not find.            *)
InjectNowhere(c) == Loaded /\ ~serio /\ irq[c] = "inject"
(* A timer expires or a tasklet is run after the module is gone.           *)
RunFreed == life = "out" /\ ~NothingPending

Panic == /\ \/ RunFreed
            \/ \E t \in Tasklets : ResetUnset(t)
            \/ \E c \in CPUs : InjectNowhere(c)
         /\ life' = "panic"
         /\ UNCHANGED <<vars, serio, filter, late>>

Process == \/ Insmod \/ TimerInit \/ TimerStart \/ Rmmod \/ TimerCleanup
           \/ KeyboardCleanup \/ FreeModule
           \/ \E success \in BOOLEAN : \/ DeviceInit(success)
                                        \/ DeviceNotify(success)
                                        \/ KeyboardHook(success)

NextL == \/ Process
         \/ \E t \in Tasklets, c \in CPUs : Key(t, c)
         \/ \E v \in StateValues : User(v)
         \/ Work
         \/ Panic

SpecL == InitL /\ [][NextL]_allVars

(* The fairness of Timer.  insmod and rmmod, once begun, get a CPU now and *)
(* then while handlers and softirqs come and go, hence SF; what the kernel *)
(* does not survive happens.                                               *)
FairnessL == /\ \A c \in CPUs : WF_allVars(Work /\ IrqStep(c))
             /\ WF_allVars(Work /\ \E c \in CPUs : Expire(c))
             /\ SF_allVars(Work /\ \E c \in CPUs : FakeExpire(c))
             /\ \A t \in Tasklets : SF_allVars(Work /\ TaskletStep(t))
             /\ SF_allVars(life \notin {"out", "live"} /\ Process)
             /\ WF_allVars(Panic)

FairSpecL == SpecL /\ FairnessL

-----------------------------------------------------------------------------
TypeOKL == /\ TypeOK
           /\ life \in Lives
           /\ serio \in BOOLEAN /\ filter \in BOOLEAN /\ late \in BOOLEAN

(* From timer_init to timer_cleanup the injection timer is never lost      *)
(* (main.c:154-168), whatever keys came before and come in between.        *)
LiveNeverLost == life \in {"live", "exit"} => NeverLost

(* rmmod leaves nothing behind provided that keydrown is at rest when it   *)
(* comes to timer_cleanup and no key is typed before the filter is gone.   *)
QuietStop == life = "out" /\ ~late => NothingPending

(* rmmod ends, although it waits for a timer that restarts itself and that *)
(* keys restart, and the kernel for whatever still runs (main.c:164-172).  *)
RmmodEnds == life = "exit" ~> life \in {"out", "panic"}

(* The three things that keydrown leaves to its user, none of which the    *)
(* code sees to: no key is typed before timer_init has set the timer up    *)
(* (the filter is installed first, main.c:153-154); keydrown is not active *)
(* if no keyboard was found, which plugin_init does not report; and it is  *)
(* at rest, without a key, when the module is removed.                     *)
NoEarlyKey == Loaded /\ ~TimerReady =>
                \A t \in Tasklets : sched[t] = NoCpu /\ on[t] = NoCpu
HasPort    == TimerReady /\ Active(state) => serio
Careful    == NoEarlyKey /\ HasPort /\ ~late

(* These three are the only ways to bring the kernel down: used with care, *)
(* the module may be loaded with whatever failures, used, and removed any  *)
(* number of times.  In particular the injection timer, which restarts     *)
(* itself, neither runs too early nor outlives hrtimer_cancel.             *)
CarefulUseIsSafe == []Careful => [](life # "panic")

(* README.md:198 "To stop KeyDrown, run sudo service keydrown stop":       *)
(* afterwards the injection timer is stopped.  A key typed at the wrong    *)
(* moment breaks it: main.c:168-169 cancels the timer before the filter    *)
(* and the tasklets that restart it are gone.                              *)
CleanStop == life = "out" => ~timer_queued

(* From insmod to rmmod, over any number of both, the timers implement the *)
(* promise of ReloadableClock (main.c:154-168).                            *)
Reloads == INSTANCE ReloadableClock
             WITH Notifications <- Tasklets,
                  armed    <- timer_queued,
                  firing   <- TimerRunning,
                  asking   <- {t \in Tasklets : pc[t] = "take"},
                  handling <- {t \in Tasklets : pc[t] \notin {"idle", "take"}},
                  owed     <- faketimer_running = 1,
                  up       <- life \in {"live", "exit"}

ImplementsReloads == Reloads!Life
=============================================================================
