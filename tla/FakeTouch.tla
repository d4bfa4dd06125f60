----------------------------- MODULE FakeTouch -----------------------------
(***************************************************************************)
(* Fake touches (touchscreen_inject in plugins/touchscreen/devices) and    *)
(* real ones meet in the slots of the touchscreen's input device.          *)
(*                                                                         *)
(* The device has one current slot, to which a state or a coordinate goes. *)
(* The input core drops an X coordinate that repeats the last one of its   *)
(* slot, and hands every other to touchscreen_filter, which takes it for a *)
(* real touch unless it is near SEND_VALUE.  The input core's lock is held *)
(* for one event at a time: the events of a fake touch, injected in the    *)
(* timer's interrupt, and those of a real one, reported by the driver's    *)
(* thread, interleave.  Neither party selects its slot again between them. *)
(***************************************************************************)
EXTENDS Integers

CONSTANTS Xs,         \* the X coordinates of real touches
          SEND_VALUE, \* the X coordinate of fake touches: 230 in the code
          Last        \* the last slot of the device

ASSUME FakeTouchAssumption ==
  SEND_VALUE \in Int /\ Xs \subseteq Int /\ Last \in Nat

Slots == 0 .. Last

VARIABLES
  alone,    \* the driver's thread runs on the CPU of the timer's interrupt
  pc,       \* where touchscreen_inject is
  defuzz,   \* __touchscreen_abs_defuzz_var
  called,   \* a CPU has been asked to raise the interrupt, and has not yet
  slot,     \* the current slot of the device
  down,     \* which slots hold a touch
  x,        \* the last X coordinate of each slot
  source,   \* history: who reported it
  touching, \* the fingers on the screen, as the controller tells them
  woken,    \* the interrupt has woken the driver's thread
  driver,   \* where the driver's thread is in its report
  finger,   \* the finger it reports
  tap       \* on whose behalf the tap tasklet is scheduled, if it is

injectVars == <<pc, defuzz, called>>
driverVars == <<touching, woken, driver, finger>>
vars == <<alone, pc, defuzz, called, slot, down, x, source, touching, woken,
          driver, finger, tap>>

Init == /\ alone \in BOOLEAN
        /\ pc = "idle" /\ defuzz = 0 /\ called = FALSE
        /\ slot = 0
        /\ down = [s \in Slots |-> FALSE]
        /\ x \in [Slots -> Xs] /\ source = [s \in Slots |-> "real"]
        /\ touching = {} /\ woken = FALSE
        /\ driver = "idle" /\ finger = 0
        /\ tap = "none"

-----------------------------------------------------------------------------
(* Mutant: the range is taken one too small.                               *)
NotInRangeNarrow(value, middle, range) == value # middle

(* Mutant: the upper bound is forgotten.                                   *)
NotInRangeBelow(value, middle, range) == value < middle - range

NotInRange(value, middle, range) == value > middle + range \/ value < middle - range

(* touchscreen_filter: a value out of range schedules the tasklet; one     *)
(* that is scheduled already stays so.                                     *)
Filter(value, from) ==
  tap' = IF NotInRange(value, SEND_VALUE, 1) /\ tap = "none" THEN from ELSE tap

(* input_event of ABS_MT_POSITION_X.                                       *)
Report(value, from) ==
  IF value = x[slot] THEN UNCHANGED <<x, source, tap>>
  ELSE /\ x' = [x EXCEPT ![slot] = value]
       /\ source' = [source EXCEPT ![slot] = from]
       /\ Filter(value, from)

-----------------------------------------------------------------------------
(* Mutant: the slot is taken as it is.                                     *)
SelectNone(from, to) == /\ pc = from /\ pc' = to
                        /\ UNCHANGED <<alone, defuzz, called, slot, down, x,
                                       source, tap, driverVars>>

(* input_mt_slot(touchscreen_input_dev, 0).                                *)
Select(from, to) == /\ pc = from /\ pc' = to
                    /\ slot' = 0
                    /\ UNCHANGED <<alone, defuzz, called, down, x, source, tap,
                                   driverVars>>

(* input_mt_report_slot_state.                                             *)
State(from, to, active) ==
  /\ pc = from /\ pc' = to
  /\ down' = [down EXCEPT ![slot] = active]
  /\ UNCHANGED <<alone, defuzz, called, slot, x, source, tap, driverVars>>

Position == /\ pc = "position" /\ pc' = "update"
            /\ Report(SEND_VALUE + defuzz, "fake")
            /\ UNCHANGED <<alone, defuzz, called, slot, down, driverVars>>

(* Mutant: TOUCHSCREEN_ABS_DEFUZZ_UPDATE sets 1 and never 0.               *)
UpdateOnce == /\ pc = "update" /\ pc' = "lift"
              /\ defuzz' = 1
              /\ UNCHANGED <<alone, called, slot, down, x, source, tap, driverVars>>

(* TOUCHSCREEN_ABS_DEFUZZ_UPDATE.                                          *)
Update == /\ pc = "update" /\ pc' = "lift"
          /\ defuzz' = IF defuzz = 0 THEN 1 ELSE 0
          /\ UNCHANGED <<alone, called, slot, down, x, source, tap, driverVars>>

(* smp_call_function_single waits for the CPU to have taken its last call. *)
Raise == /\ pc = "raise" /\ pc' = "idle"
         /\ ~called /\ called' = TRUE
         /\ UNCHANGED <<alone, defuzz, slot, down, x, source, tap, driverVars>>

(* Mutant: the status bit is cleared in place of being set.                *)
GpioClears == /\ called /\ called' = FALSE
              /\ UNCHANGED <<alone, pc, defuzz, slot, down, x, source, tap,
                             driverVars>>

(* gpio_msm_interrupt_inject: the pin looks as if the controller had       *)
(* raised it, and the interrupt wakes the driver's thread.                 *)
GpioInject == /\ called /\ called' = FALSE
              /\ woken' = TRUE
              /\ UNCHANGED <<alone, pc, defuzz, slot, down, x, source, touching,
                             driver, finger, tap>>

(* Mutant: the slot is not selected again for the lift.                    *)
InjectOneSelect ==
  \/ Select("idle", "touch") \/ State("touch", "position", TRUE)
  \/ Position \/ Update
  \/ SelectNone("lift", "up") \/ State("up", "raise", FALSE)
  \/ Raise

Inject == \/ Select("idle", "touch") \/ State("touch", "position", TRUE)
          \/ Position \/ Update
          \/ Select("lift", "up") \/ State("up", "raise", FALSE)
          \/ Raise

-----------------------------------------------------------------------------
(* The controller has something new to tell and raises the interrupt.      *)
(* What it tells the driver's thread is read once for a report.            *)
Controller(fingers) == /\ driver = "idle"
                       /\ touching' = fingers
                       /\ woken' = TRUE
                       /\ UNCHANGED <<alone, injectVars, slot, down, x, source,
                                      driver, finger, tap>>

(* The thread does not run on a CPU that is in the timer's interrupt.      *)
ThreadRuns == alone => pc = "idle"

(* The driver's thread reports every slot in turn.                         *)
Wake == /\ ThreadRuns
        /\ driver = "idle" /\ woken
        /\ driver' = "select" /\ woken' = FALSE /\ finger' = 0
        /\ UNCHANGED <<alone, injectVars, slot, down, x, source, touching, tap>>

SelectFinger == /\ ThreadRuns
                /\ driver = "select" /\ driver' = "state"
                /\ slot' = finger
                /\ UNCHANGED <<alone, injectVars, down, x, source, touching,
                               woken, finger, tap>>

NextFinger == /\ driver' = IF finger = Last THEN "idle" ELSE "select"
              /\ finger' = IF finger = Last THEN 0 ELSE finger + 1
              /\ UNCHANGED <<touching, woken>>

StateOfFinger == /\ ThreadRuns
                 /\ driver = "state"
                 /\ down' = [down EXCEPT ![slot] = finger \in touching]
                 /\ IF finger \in touching
                      THEN driver' = "position" /\ UNCHANGED <<touching, woken, finger>>
                      ELSE NextFinger
                 /\ UNCHANGED <<alone, injectVars, slot, x, source, tap>>

PositionOfFinger(value) == /\ ThreadRuns
                           /\ driver = "position"
                           /\ Report(value, "real")
                           /\ NextFinger
                           /\ UNCHANGED <<alone, injectVars, slot, down>>

Thread == Wake \/ SelectFinger \/ StateOfFinger \/ \E value \in Xs : PositionOfFinger(value)

(* touchscreen_callback answers the touch.                                 *)
Callback == /\ tap # "none"
            /\ tap' = "none"
            /\ UNCHANGED <<alone, injectVars, slot, down, x, source, driverVars>>

-----------------------------------------------------------------------------
Next == \/ Inject \/ GpioInject
        \/ \E fingers \in SUBSET Slots : Controller(fingers)
        \/ Thread
        \/ Callback

(* Interrupt handlers and the driver's thread run to their ends, and an    *)
(* interrupt that is asked for is raised.  The thread competes with fake   *)
(* touches for its CPU, but these come at random times.                    *)
Fairness == /\ WF_vars(pc # "idle" /\ Inject)
            /\ WF_vars(GpioInject)
            /\ WF_vars(Thread)

Spec == Init /\ [][Next]_vars /\ Fairness

-----------------------------------------------------------------------------
(* A fake touch never counts as a real one (plugin.c:43-62 against         *)
(* s3320.c:47-48), in whatever slot it lands: it would reset the injection *)
(* timer by itself.                                                        *)
FakeNeverTaps == tap # "fake"

(* On one CPU programs see every fake touch: its X coordinate is dropped   *)
(* as a repetition only if a real touch has just reported the same         *)
(* (s3320.c:20-25, 47-48, 56).                                             *)
FakeIsVisible ==
  [][alone /\ pc = "position" /\ pc' = "update" /\ x[slot] = SEND_VALUE + defuzz
       => source[slot] = "real"]_vars

(* The filter misses a real coordinate only near SEND_VALUE, or if it      *)
(* repeats the last of a real touch (plugin.c:60-62): fake touches do not  *)
(* make the input core swallow real ones.                                  *)
RealIsNoticed ==
  [][\A value \in Xs : PositionOfFinger(value) =>
       \/ tap' # "none"
       \/ value \in SEND_VALUE - 1 .. SEND_VALUE + 1
       \/ x[slot] = value /\ source[slot] = "real"]_vars

(* On one CPU a slot other than 0 changes only on behalf of its own        *)
(* finger: fake touches, and fingers reported into the slot that a fake    *)
(* touch has selected (s3320.c:43, 67), disturb slot 0 only.               *)
OnlySlotZeroIsDisturbed ==
  [][\A s \in Slots \ {0} :
       alone /\ (down'[s] # down[s] \/ x'[s] # x[s])
         => driver \in {"state", "position"} /\ finger = s]_vars

(* On several CPUs a fake touch goes into slot 0, and is lifted there, even*)
(* if the driver reports other fingers in the meantime: that is what the   *)
(* second selection is for (s3320.c:43, 67).  Between a selection and what *)
(* is reported after it nothing protects the slot from the driver.         *)
Writing == pc \in {"touch", "position", "up"}
Apart   == alone \/ (Writing => driver \in {"idle", "select"})
FakesHitSlotZero == []Apart => [](Writing => slot = 0)

(* Whenever nobody is at work, the slots hold exactly the fingers on the   *)
(* screen: as long as a fake touch may have lifted one of them, been left  *)
(* down, or diverted the driver's report (s3320.c:43-68), the interrupt it *)
(* ends with is still to come, or the report that follows (s3320.c:75-81). *)
Resting == pc = "idle" /\ ~called /\ ~woken /\ driver = "idle"
SlotsAgree == Resting => \A s \in Slots : down[s] <=> s \in touching

(* When injection has stopped and the fingers rest, the slots come to hold *)
(* exactly the fingers on the screen, although a fake touch may have       *)
(* lifted one of them, been left down, or diverted the report of the last  *)
(* one that left: its interrupt makes the driver report again              *)
(* (s3320.c:75-81).                                                        *)
TouchesAgree ==
  (<>[](pc = "idle") /\ <>[][UNCHANGED touching]_vars)
    => <>[](\A s \in Slots : down[s] <=> s \in touching)
=============================================================================
