# A formal model of KeyDrown

KeyDrown hides keystroke timing. It has three layers: a kernel module that
injects fake key (x86) or touch (Android) interrupts at random times and makes
real ones look the same; a user-space process that makes the GUI library handle
fake keys; and preloaded wrappers or patches that make a text field do the same
work for every key. This directory holds TLA+ modules of the parts that keep
state, the TLC runs that check them, and TLAPS proofs about them. Paths below
are relative to the repository; unless they start with another directory they
are under `first_layer/`.

Most of the system's concurrency is in the kernel module: hard interrupt handlers
(timers, the keyboard line), soft interrupts (tasklets), processes (insmod,
rmmod, writers of `/proc/keydrown`) and the kernel's own threads interleave on
several CPUs, and the module takes no lock anywhere. That, and the two threads of
the second layer, is what the models are about.

## 1. Inventory

| component | state | operations | talks to |
|---|---|---|---|
| injection timer and fake timer (`source/timer.c`) | two `hrtimer`s, `periode`, the word `faketimer_running` | `timer_init`, `timer_cleanup`, `timer_restart`, `timer_reset`, `timer_inject_irq`, `faketimer_function` | called by `main.c` from tasklets and from the timer callback |
| main (`main.c`) | the activation word `state` | `keydrown_write`, `real_key` / `real_touchpad`, `timer_function`, `inthide_init`, `inthide_exit` | everything |
| plugin table (`source/plugin.c`) | `plugins`, `plugin_count` | register, init, cleanup, list | called by main; ignores what the plugins' init returns |
| keyboard plugin (`source/plugins/keyboard`) | tasklets, `kb_affinity`, the i8042 filter, a copy of the port | init, cleanup, inject, filter, hook handler | timer (callback), hook, i8042 driver, other CPUs (IPIs) |
| touchscreen plugin (`source/plugins/touchscreen`) | list of patched input handlers, `__touchscreen_abs_defuzz_var`, tap tasklet | init, cleanup, inject, filter, hook handler | input core, hook, GPIO |
| interrupt hook (`source/hook.c`) | `orig_irqs`, the kernel's `desc->handle_irq` | `hook_interrupt`, `unhook_interrupt`, `hook_get_original` | the plugins |
| random numbers (`source/random.c`) | none between calls | `get_random` | every delay |
| affinity, prefetch, timing, traces, GPIO (`source/*.c`) | caches, registers, a ring buffer | lookups | plugins |
| second layer (`second_layer/`) | x86: `base_event`; Android: one guard in a patch | `snooper`, `inject_thread` | GTK main loop, `/dev/input/event0` |
| third layer (`third_layer/`) | x86: none; Android: the message queue of the soft keyboard | x86: wrapped constructors of two GTK widgets; Android: a fake key per key and per change of the input device | the application |

What is hard in each, and what makes it correct:

* **Timers.** A tasklet on one CPU cancels and restarts the injection timer
  while its callback on another CPU asks to be restarted. Correct: the timer is
  never lost, every key gets its reset, fake keys go on for ever while the module
  is active and nobody types. The fake timer is guarded by one test-and-set word:
  correct if exactly one party holds it, it does not stay set, and the timer is
  not set up while its callback is still being run.
* **Activation.** Written without a lock. Correct: injection follows the last
  written value's bit 0, whatever was written before.
* **Start and stop.** Init can fail at four places and nobody looks; keys come
  while insmod and rmmod go on. Correct: while live the timer promises hold;
  nothing of the module is reachable or pending once it is freed.
* **Interrupt hook.** Installed and removed under running handlers that delay
  for a random time. Correct: an installed hook knows the kernel's handler, no
  handler is left in freed code, the original handler is always executed.
* **Fake keys on other CPUs.** `keyboard_inject` runs in a hard interrupt and
  calls functions on other CPUs, which enter the handler of the line they share.
  Correct: it always returns, every called CPU is interrupted, no real key is lost
  in a fake one.
* **Spurious interrupts.** Every fake key is an interrupt nobody handles; the
  kernel switches off lines with too many. Correct: never switched off.
* **Random numbers.** 32-bit arithmetic with rejection. Correct: in range, no
  bias, a bounded expected number of draws, and an end.
* **Touchscreen.** Input handlers are patched and unpatched while programs open
  and close the device and events are dispatched. Init can fail at five places and
  nobody looks. Fakes and real touches share the slots of one device, event by
  event, and are told apart by a coordinate. Correct: every handler gets its filter
  back, a fake never counts as real, neither swallows the other, only slot 0 is
  disturbed and in the end the slots hold the fingers on the screen; the interrupt
  of the right pin is raised, through the hook.
* **Second layer.** The event the injector copies appears while it is in the
  middle of a press and release. Correct: a release follows its press.

## 2. Modules

| module | models | role |
|---|---|---|
| `InjectionClock` | what the two timers promise | abstract specification |
| `Timer` | `timer.c`, `real_key`, `timer_function`, `keydrown_write`, the key filter and tasklets | core; implements `InjectionClock` |
| `TimerProofs` | | theorems about `Timer` |
| `ReloadableClock` | what they promise of a module that is loaded and unloaded | abstract specification; extends `InjectionClock` |
| `Lifecycle` | `inthide_init`, `inthide_exit`, `keyboard_init`, `keyboard_cleanup` | extends `Timer`; implements `ReloadableClock` |
| `LifecycleProofs` | | theorems about `Lifecycle`, from the lemmas of `TimerProofs` |
| `IrqHook`, `IrqHookProofs` | `hook.c` under concurrent interrupts, load and unload | |
| `KeyLine`, `KeyLineProofs` | `keyboard_inject` and its calls to other CPUs, `get_irq_affinity`, `kb_hook_handler` and `irqs_unhandled`, against the kernel's flow handler and detector | |
| `GetRandom`, `MCGetRandom`, `GetRandomProofs` | `random.c` | |
| `TouchFilter` | `find_touchscreen_device`, `modify_touchscreen_device`, `reset_touchscreen_device` | what the plugin implements |
| `TouchPlugin` | `touchscreen_init`, `gpio_msm_interrupt_init`, `touchscreen_cleanup` | extends `TouchFilter`; implements it |
| `TouchFilterProofs` | | theorems about `TouchFilter` and `TouchPlugin` |
| `FakeTouch`, `FakeTouchProofs` | `touchscreen_inject`, `touchscreen_filter`, `gpio_msm_interrupt_inject` against the driver's reports | |
| `SecondLayer`, `SecondLayerProofs` | `second_layer/x86/inject.c` | |

`Timer` keeps `keyboard_inject` as one step of the timer's callback; `KeyLine`
opens that step and takes from `Timer` only that injections do not overlap.

### Timer

| variable | code |
|---|---|
| `state` | `state` of `main.c`; only its bit 0 (`STATE_INJECT`) matters |
| `sched[t]`, `on[t]` | the CPU on whose list the tasklet waits; the CPU it runs on |
| `pc[t]` | where `real_key` is: `take` (the exchange), `init`, `start_fake` (`hrtimer_init` and `hrtimer_start` of the fake timer), `reset` (`hrtimer_cancel`), `start` (`hrtimer_start`) |
| `irq[c]` | the hard interrupt handler that holds CPU `c`, and where in it |
| `timer_queued`, `faketimer_queued` | the timer is in an hrtimer base |
| `faketimer_running` | the variable of that name |

`TimerRunning` (the hrtimer core runs the callback) is derived from `irq`. The
kernel's rules are in the guards: a tasklet runs on one CPU at a time, on the CPU
that scheduled it; softirqs progress only while no hard interrupt holds the CPU;
`hrtimer_cancel` waits until the callback is not running anywhere; a timer that
is restarted while its callback runs stays with that CPU, so two callbacks of
the injection timer do not overlap; the core re-enqueues a timer whose callback
asks for it unless it is enqueued already. `hrtimer_init` of the fake timer
forgets on which CPU its callback is running, so callbacks of the fake timer may
overlap, and do.

Delays are left out. All are drawn from a range that contains 0, so an armed
timer may fire at any later moment. `periode` is written by two CPUs without
protection; every value it can hold comes from the same range, so that an armed
timer is all there is to know about it.

`InjectionClock` hides all of that. A notification is first `asking`: before it may
disarm the clock or end, it must `Owe` a fake interrupt, and owing is fair, so that no
key goes without one. The mapping is at the end of `Timer`: a tasklet asks while it
stands before the exchange, is being answered afterwards, and something is owed while
the guard word is set.

The value 2 in `StateValues` is there because `main.c:41` prints "activated" for
it while `main.c:108` does not inject.

### Lifecycle

Adds where insmod or rmmod is (`life`), whether the keyboard's port has been
found (`serio`) and whether the key filter is installed (`filter`), and lets
every action of `Timer` happen between any two of their steps. `late` is a
history variable: a key was being answered at `timer_cleanup`, or came after it.
The phase `panic` is the kernel's end: a reset of a timer that is not set up, an
injection into a port that was not found, or a timer or tasklet of a module that
is gone. It is the only reason for `CHECK_DEADLOCK FALSE`: nothing happens there.
The code rules none of the three out. `Careful` says what it leaves to the user: no key
before `timer_init` (`NoEarlyKey`), no activation without a keyboard (`HasPort`), no
key around `timer_cleanup` (`~late`). `CarefulUseIsSafe` says that these are the only
ways to the panic; each premise is needed, for without any one of them TLC finds it.

`ReloadableClock` is `InjectionClock` with a load, an unload and a crash. The module is
up from the end of `timer_init` to `timer_cleanup` (`life` is `live` or `exit`). What
it promises while it is up is fair only then, owing a fake interrupt included; what a
key owes, and a notification under way, cross an unload, as they do in the code.

### IrqHook

`handle_irq` is the kernel's field, `orig_irqs` the module's copy, `at[c]` what
each CPU is doing for the line. The two stores of hook and unhook are steps of
their own, as is the fetch of the original after the delay. The kernel frees the
module only after the handlers inside it have returned. `null` is a call through
the null pointer; the CPU stays there.

### KeyLine

| variable | code |
|---|---|
| `affinity`, `kb_affinity` | the CPUs the line interrupts now; what `get_irq_affinity` returned at init, which may be the affinity, the pending one or CPU 0, and is not read again |
| `injector`, `todo` | the CPU in `keyboard_inject`; what is left of its `for_each_online_cpu` |
| `csd[c]` | the one pending `smp_call_function_single` request of CPU `c` |
| `pc[c]`, `unhandled[c]` | where `kb_hook_handler` is: `delay`, `driver`, `driven`, `restore`; its local variable |
| `byte` | a byte waits in the keyboard controller, which interrupts again only when it has been read |
| `inprogress`, `pending` | `IRQD_IRQ_INPROGRESS`, `IRQS_PENDING` of the line |
| `irqs_unhandled`, `irq_count`, `disabled` | the kernel's detector of spurious interrupts |

`Flow`, `Driver` and `FlowEnds` are the kernel's `handle_edge_irq`, the i8042
driver and `note_interrupt`: one CPU runs the driver, a CPU that comes meanwhile
leaves a note; the driver's answer is counted, the count starts over when the last
unhandled interrupt is long ago, and at the end of each window there is a verdict.
`MoveLine` is irqbalance, or the user: it gives the line another affinity at any moment,
under the hooks and under an injection that goes by the one read at init.
The lock of the line is held in `Flow` and `FlowEnds`, not in `Driver`, `Enter` and
`Restore`. Numbers above the limit are not told apart, which keeps the model
finite: for the verdict they are alike.

### SecondLayer

`main` is the main loop, `pc` the injector; `gdk` is the lock they share. `last` is
the fake event dispatched last, a history variable no guard reads. `KeysAlternate` is
about every event that is dispatched, one that repeats `last` too, and its second half
names the one way in which the very first event can be a release (`SplitPair`: the
snooper gets its event between a press that had nothing to copy and its release).
`pending` counts
what is to be read from the keyboard's device, which may never have been opened
(`poll` then only times out) or be unplugged (`poll` then returns at once, for
ever). The process ends when the window is closed, hence `CHECK_DEADLOCK FALSE`.
`configuration.h` sets `DEBUG` to 1: the call that hides the window after the first
key (`inject.c:100`) is not compiled, although `README.md:244` says that the window
"closes itself". It is modelled as built.

### GetRandom

`Truncation` and `Result` are the two expressions of `random.c` with arithmetic
modulo `M`. The kernel's generator is any number.

### TouchFilter and TouchPlugin

`TouchFilter` has one action per handle visited by init (only the handle that has
grabbed the device, if there is one) and per entry written back by cleanup; the
input core tests a filter and calls it in two steps. `saved` is the list
`input_handle_list`, `open` the handles in use, `todo` those still to visit.

`TouchPlugin` adds the rest of init and of cleanup: `step` is where init is, `chips`
the kernel's table `gpio_desc` with one of three kinds of entry, `pctrl`,
`pin_group` and `irq_handler` the module's static pointers (as entry numbers and a
flag), `data` whether `plugin_touchscreen.data` is set. The controller is taken
before it is known to hold the pin, as in the code. `result` is what init has
returned, which the code drops; `raised` holds the registers and pins that fake
touches have written. A fake touch after a failed init reads through a null pointer:
then `fault` says which one and nothing happens any more, which is the reason for
`CHECK_DEADLOCK FALSE`. `FakesAreHooked` is about the live module: cleanup takes the
hook away while the timer may still run, and a fake touch raised then meets the
kernel's own handler.

### FakeTouch

| variable | code |
|---|---|
| `pc`, `defuzz` | where `touchscreen_inject` is; `__touchscreen_abs_defuzz_var` |
| `called` | a pending `smp_call_function_single` of `gpio_msm_interrupt_inject_wrapper` |
| `slot`, `down[s]`, `x[s]` | the input device: its current slot, and state and last X of each slot |
| `touching` | the fingers, as the controller tells them |
| `woken`, `driver`, `finger` | the driver's interrupt thread: woken, where in its report, and for which finger |
| `alone` | the thread runs on the CPU of the timer's interrupt, so that it stands still while `touchscreen_inject` runs |
| `tap` | whether the tap tasklet is scheduled, and on whose behalf |

Each `input_event` call holds the input core's lock for itself, so each is a step.
`source` and the value of `tap` say on whose behalf things happened; no guard
reads more of them than whether the tasklet is scheduled. The driver is not in this
repository. It is modelled as such drivers report: for every slot in turn its
number, its state, and the X coordinate of a finger that is down. The Y and size
axes and the buttons are left out: nobody filters them. `s3350.c` does the same as
`s3320.c` but for one button event, a time stamp and the name of the handler.
Which CPUs are called is `KeyLine`'s subject; here one call stands for all.

## 3. Runs

| run | module, cfg | size | what it shows |
|---|---|---|---|
| `timer_smp` | `Timer`, `TimerSmp.cfg` | 2 CPUs, 2 tasklets, state 0..2 | type, `NeverLost`, `FakeHandOver`; `Timer` implements `InjectionClock` with its fairness; `ResetDone`, `InjectionGoesOn`, `InjectionStops`, `CancelProtectsForward`, `OneFakeUnlessTaken`; `KeyHasFakeToCome`: a key that has tried for the guard word has a fake interrupt to come |
| `timer_fake_race` | `Timer`, `TimerFakeRace.cfg` | 2 CPUs, 1 tasklet | finding: `OnlyOneFakeTimer` fails |
| `irq_hook` | `IrqHook`, `IrqHookSmp.cfg` | 3 CPUs | `HookedHasOriginal`, `NothingLeftBehind`, `NullOnlyAfterUnhook` over any number of loads |
| `irq_hook_race` | `IrqHook`, `IrqHookRace.cfg` | 2 CPUs | finding: `ExecutesOriginal` fails |
| `key_line` | `KeyLine`, `KeyLine.cfg` | 2 CPUs, all affinities, changing at any time, window 2, limit 2, hooked at 1 | `OneCPULeavesNoTrace`, `KeyIsServed`, `InjectionEnds`, `AllCalled`, `KeysRead` |
| `key_line_drift` | `KeyLine`, `KeyLineDrift.cfg` | 2 CPUs, window 2, limit 3 | finding: `StaysEnabled` fails |
| `get_random` | `MCGetRandom`, `GetRandom.cfg` | 4-bit words, every range whose size does not divide 16 | `InRange`, `Unbiased`, `Terminates` |
| `lifecycle` | `Lifecycle`, `Lifecycle.cfg` | 2 CPUs, 1 tasklet, state 0..1 | `LiveNeverLost`, `QuietStop`, `CarefulUseIsSafe`, `RmmodEnds`; `Lifecycle` implements `ReloadableClock` with its fairness (`FakeHandOver` is carried over by theorem `LifeHandsOver`) |
| `lifecycle_stop` | `Lifecycle`, `LifecycleStop.cfg` | the same | finding: `CleanStop` fails |
| `touch_filter` | `TouchPlugin`, `TouchFilter.cfg` | 3 handlers (one with its own filter), 2 CPUs, all tables of 2 `gpio_desc` entries | `FiltersBack`, `NullOnlyInReset`, `RaisesOwnPin`, `FakesAreHooked` |
| `fake_touch` | `FakeTouch`, `FakeTouch.cfg` | real coordinates 228, 230, 232, fake ones 230 and 231, 2 slots, on one CPU and on several | `FakeNeverTaps`, `SlotsAgree`, `FakeIsVisible`, `RealIsNoticed`, `OnlySlotZeroIsDisturbed`, `FakesHitSlotZero`, `TouchesAgree` |
| `second_layer` | `SecondLayer`, `SecondLayer.cfg` | 2 keys, runs of 0 to 2 pairs, a buffer of 2 reads | `KeysAlternate`, `KeyAnswered`, `InjectionGoesOn` |

**Bounds.** Every state space is finite without a bound on behaviours: nothing
counts up. Two CPUs are what the races of two parties need, and a tasklet never
runs twice at a time, so two tasklets on two CPUs with the callback on either are
all that can meet on the injection timer; the third CPU in `irq_hook` is there so
that a handler, a second handler and the process that unhooks are all somewhere
else. In `key_line` two CPUs are an injector and a called CPU, or two hooks that
overlap; the line is hooked with one unhandled interrupt counted and switched off above
2, so that a single number not put back is one too many, and the behaviours run over
any number of windows (a verdict is taken at every second interrupt). In
`key_line_drift` the limit is above the window, so that no single window reaches
it, not even if all its interrupts are unhandled: only numbers put back too high,
over several windows, do. Two keys tell a release of the wrong key from one of the
right key; runs of no, one and two pairs are the first, a middle and the last turn
of the injector's loop; two reads are a device that stays readable after a read.
The three real coordinates
are below the range around `SEND_VALUE`, in it, where they meet a fake one, and above
it; two slots are the one fakes use and another. Two entries of `gpio_desc` are a
controller tried before the right one, after it, or instead of it. For 4-bit words
all ranges can be tried. The proofs remove these bounds for the safety
properties.

**Fairness** (`Timer`). Weak fairness of `IrqStep`: an interrupt handler, once it
has a CPU, runs to its end. Weak fairness of `Expire`: a due timer is delivered.
Strong fairness of `FakeExpire` and of each tasklet's steps: they need a CPU, or
the moment between two callbacks, that comes again and again but does not last;
the hrtimer core bounds how long it stays in its interrupt, and softirqs run
after every interrupt, so that they are not passed over for ever. `ResetDone` and
`InjectionGoesOn` are stated for the case that keys stop coming (`KeysStop`): with
keys for ever, a fake interrupt may hold the spinning CPU at every moment at which
the callback is not running on another. Nothing is assumed about keys or users.
In `KeyLine` interrupt handlers run to their ends (weak fairness), and a CPU that
finds interrupts enabled again and again takes its call in the end (strong
fairness); `InjectionEnds` and `AllCalled` are again stated for `KeysStop`, because
a CPU may run the driver for ever for others that are interrupted for ever. In
`SecondLayer` both threads are scheduled (weak), the lock is got in the end and a
run is not empty for ever (strong: `rand() % 100` is not
0 for ever). The timeout of `poll` is not assumed, except as a premise in
`InjectionGoesOn`: `KeyAnswered` shows what holds without it. In `Lifecycle`
`RmmodEnds` rests on the same fairness as `Timer`'s, and on insmod and rmmod
getting a CPU between handlers and softirqs (strong). In `FakeTouch` the handler
that runs `touchscreen_inject`, the call to raise the interrupt and the driver's
thread run on (weak); `TouchesAgree` is stated for the case that injection stops and
the fingers rest, for with fakes for ever slot 0 is never at rest. In `GetRandom`
strong fairness of an accepted draw stands for a random generator.

## 4. Findings

* **The fake timer is set up under its running callback** (`timer.c:40`,
  `timer_fake_race`). `faketimer_function` clears the guard, then returns to the
  hrtimer core. A key on another CPU in between passes the exchange and calls
  `hrtimer_init` and `hrtimer_start` on a timer the core still holds, against
  "allow only one timer" (`timer.c:47`). That is the only way: unless the word is taken
  in that window there is one timer (`OneFakeUnlessTaken`, theorem
  `OneFakeTimerUnlessTaken`), and so there is on one CPU (`OneFakeTimerOnOneCPU`).
* **A handler in its delay is overtaken by unhook** (`hook.c:42`,
  `irq_hook_race`). `unhook_interrupt` zeroes the saved handler at once;
  a handler that is in its `udelay` on another CPU fetches it afterwards and calls
  null. `NullOnlyAfterUnhook` shows that this is the only way to get there, and theorem
  `ExecutesOriginalUnlessOvertaken` what would suffice: no handler in its delay when
  `hook.c:42` clears the word (`NoneOvertaken`).
* **rmmod cancels the timer before it removes what restarts it** (`main.c:168`,
  `lifecycle_stop`). A key between `timer_cleanup` and `keyboard_device_no_notify`
  restarts the timer, and the module is freed with its timer armed.
  `QuietStop` shows that nothing else goes wrong: without such a key, and with
  nothing being answered at `timer_cleanup`, nothing is left.

* **The keyboard is switched off by overlapping fake keys**
  (`keyboard/plugin.c:50`, `key_line_drift`). `keyboard_inject` interrupts all CPUs
  of the line at about the same time, and `README.md:197` has the user check that
  "a uniform increase in all values" is seen. Each hook saves the kernel's count of
  unhandled interrupts and puts it back without a lock: one that saves it between
  another's count and restore puts back one more than there was. An older value may
  be put back later, and the kernel starts over after 100 ms without an unhandled
  interrupt, but neither must happen before the number has passed 99900, and then
  the line is switched off. Overlap is all there is to it: as long as hooks do not
  meet, whatever the affinities, every hook puts back the number it found (theorem
  `ApartLeavesNoTrace`). On a line served by one CPU, which `README.md:312` recommends
  for another reason, they do not, as long as it is not moved: `OneCPULeavesNoTrace`,
theorem `LineIsKept`.

Two more disagreements are noted without a run: the second layer's window does not
close itself in the default build (above), and `timer_init` (`timer.c:14`) may start
a timer that a key has started already while its callback is running, so that the
callback then forwards a queued timer; `LiveNeverLost` shows that the timer survives
it. The Android patch of the second layer (`View.java`) drops raw coordinates
12345677 to 12345679, while the first layer sends 230 and 231.

## 5. Proofs

All theorems hold for every value of the constants that satisfies the named
assumption of the module: `TimerAssumption` (there is a CPU, `NoCpu` is none of
them, state values are integers, 0 among them), `IrqHookAssumption` (there is a
CPU; null is neither handler), `KeyLineAssumption` (a window of at least one
interrupt, a line that is below the limit when it is hooked),
`SecondLayerAssumption` (the bounds are natural numbers), `GetRandomAssumption` (the ranges asked for do not divide the size
of the word: 101, 1000 and 20000001 in the code, against 2^32),
`TouchFilterAssumption`, `TouchPluginAssumption` (a natural number of entries),
`FakeTouchAssumption` (integers).

* **Timer** (`TimerProofs`). `NeverLost` and `FakeHandOver` are not inductive:
  a tasklet said to be idle could be running, and a second callback could end
  first. `Placed` adds that a tasklet is idle exactly when it is on no CPU and
  that the injection timer has at most one callback; with `TypeOK` that is
  enough. Theorems `TypeCorrect`, `TimerNeverLost`, `GuardIsHandedOver`.
  `KeysGetTheirFake`: who loses the exchange finds the word set, and by the hand-over it
  is then held by a tasklet that will start the fake timer, by the timer, or by a callback
  that has raised its interrupt and not cleared the word, which is the gap the property
  names. `CancelIsEnough`: as long as no two tasklets are between cancel and start at a
  time (`OneRestart`), a timer that is cancelled stays so until it is started and one
  whose callback runs is not queued (`Reset`). `ForwardsADequeuedTimer` follows where
  there is one tasklet or one CPU (`NoOverlap`), because the tasklets of one CPU run
  one after the other (`Serialized`). `OneFakeTimerUnlessTaken` is for any CPUs: who sets
  up the fake timer holds the word, so that it is neither queued nor clearing the word;
  what is left is a callback that has cleared it and not returned, which
  `~TakenInReturn` excludes. `OneFakeTimerOnOneCPU` follows, as there a tasklet does not
  run before the callback has returned. `BusyMeansPendingOnOneCPU` assumes a single CPU.
* **Refinement.** `TimerImplementsClock`: initial states map to initial states
  and each step of `Timer` to a step of `InjectionClock` or a stutter, with the
  mapping at the end of `Timer`. Its fairness part is checked by `timer_smp`.
  `LifeImplementsReloads`: the same for `Lifecycle` and `ReloadableClock`, from
  `ClockStep`: a step of `Timer` in a module whose `life` stays is a tick of the clock,
  `TimerStart` is a load, `TimerCleanup` an unload, which never comes in the middle of
  an injection because `hrtimer_cancel` waits, and insmod is a stutter, because with
  nothing pending the hand-over of the guard word has left it clear.
* **Lifecycle** (`LifecycleProofs`). While the module is there its steps are
  steps of `Timer` (`WorkIsTimer`), so the lemmas carry over; what is new is
  that insmod starts with nothing pending and that `timer_init` arms the timer.
  Theorems `TypeCorrectL`, `LiveTimerNeverLost`, `LifeHandsOver`. `QuietRmmod` needs
  `Stopped`: from `timer_cleanup` to the next insmod a module that was at rest stays
  so (`AtRest`), because a tasklet would need a key, a key needs the filter, and the
  hand-over of the guard word leaves no fake timer. `UsedWithCare`, under the premise
  `Careful` about all states: there is no timer before `timer_init`, and an interrupt that
  is about to inject has its port (`Safe`), so that with `Stopped` none of the three
  accidents can happen (`NoPanic`).
* **IrqHook.** The invariant says for each phase what the two words hold
  (`WordsOfPhase`) and that whoever is in the hook before `exited` has a target
  (`HookHasTarget`). Theorems `TypeCorrect`, `HookKnowsOriginal`, `FreedIsUnreachable`,
  `NullNeedsUnhook`. `ExecutesOriginalUnlessOvertaken`, under the premise `NoneOvertaken`
  about the steps of the behaviour, for any CPUs: then whoever is in the hook has a
  target in every phase (`HasTarget`). On one CPU the premise holds, because rmmod has
  the CPU only when no handler has: `ExecutesOriginalOnOneCPU`. It fails on two.
* **KeyLine** (`KeyLineProofs`). One CPU has the driver exactly while the line is in
  progress (`OneDriver`), so whoever finds it taken leaves the note to a CPU that is
  still to look for it; theorem `KeysAreServed`, the safe part of `KeysRead`, whatever
  the affinities are. `ApartLeavesNoTrace`: as long as hooks do not meet
  (`HooksApart`) there are no notes, and the number with which the line was hooked is
  in `irqs_unhandled` until the driver answers and in the hook from its entry to its end
  (`Kept`). As long as one CPU serves the line no other CPU is ever called or in the hook
  (`AloneOn`), which gives `LineIsKept`. Both hold for every number of CPUs, window and
  limit, wherever injections start.
* **SecondLayer.** Before a press the last fake event was no press; before a release
  it was the press of the same key, unless there was no event to copy then
  (`Paired`). Theorem `IInvCorrect`. As long as no pair is split that exception does not
  occur (`Whole`), which gives the second half of `FakeKeysAlternate`. And
  `LockIsHeldInGtk`: the gdk lock is held by the thread that is inside GTK, and by nobody
  else.
* **GetRandom.** `AnswersInRange` and `RejectsFew` for every word size, from
  lemmas on quotients and remainders. `EveryValueEqually` is a bijection: a draw that
  gives one value of the range, moved by the difference, is a draw that gives the
  other, because the accepted draws end at a multiple of the range's size. The final addition
  is modulo the word size, like the truncation; that it does not wrap is proved, not assumed.
* **TouchFilter, TouchPlugin** (`TouchFilterProofs`). `FiltersAreRestored`,
  `ListIsExact` and `NullNeedsReset` (a CPU about to call a filter finds one until
  cleanup: `CallHasFilter`) for the patching alone; `PluginImplementsFilter` carries
  them to the whole plugin. `OwnPinIsRaised` and `FakesGoThroughHook` from what init
  has found at each step (`Found`, `Calm`); `FaultsAreFailures` from `Answered`.
* **FakeTouch** (`FakeTouchProofs`). `NoSelfReset`, `FakesAlternate`,
  `RealTouchIsNoticed`, `OtherSlotsAreKept`, `FakeTouchesHitSlotZero`, for every set of coordinates and number
  of slots. The invariant: the last fake coordinate of a slot is one of the two a
  fake touch sends, on one CPU that of slot 0 is the one the next fake touch does not
  send, and on one CPU slot 0 stays selected while `touchscreen_inject` runs.
  `RestingSlotsAgree`, on one CPU or several, is the safe part of `TouchesAgree`: either
  somebody is still to make the driver report (`ToCome`: a fake touch that has not
  raised its interrupt, the call that raises it, a thread that is woken), or no one has
  disturbed the report that is going on, and the slots below the finger it has come to
  are right (`Undisturbed`).

Model-checked only: all liveness (`ResetDone`, `InjectionGoesOn`, `InjectionStops`,
`RmmodEnds`, `Terminates`, `InjectionEnds`, `AllCalled`, `KeysRead`, `KeyAnswered`,
`TouchesAgree`, the fairness of `ImplementsClock` and `ImplementsReloads`), which is
out of the prover's reach. Every other property of a passing run is proved. Proved
only, without a run: `ForwardsADequeuedTimer`, `OneFakeTimerOnOneCPU`,
`BusyMeansPendingOnOneCPU`, `ExecutesOriginalOnOneCPU` and
`ExecutesOriginalUnlessOvertaken`, which restrict the CPUs, the tasklets or the
behaviours; `ApartLeavesNoTrace`; `LockIsHeldInGtk`; the types of `IrqHook` and
`Lifecycle`; `LifeHandsOver`; `PluginImplementsFilter`; and three plain facts, `RejectsFew`
(more than half of the draws are accepted), `ListIsExact` (the saved list names the
patched handlers) and `FaultsAreFailures` (a fake touch reads through a null pointer only
after an init that failed or found no handler).

## 6. What is not modelled

* The stores of `hook.c` on ARM, where other CPUs may see them in another order.
* `touchscreen_hook_handler`: its text is the keyboard's, but the line is the GPIO
  controller's, with another flow handler of the kernel around it.
* The touchscreen driver, beyond the reports that `FakeTouch` gives it; a fake touch
  while the module is unloaded, beyond `TouchPlugin`.
* In the touchscreen plugin: an allocation that fails (`touchscreen/plugin.c:143, 253`,
  where the result is used unchecked), a kernel without the symbol of the list of input
  devices (`:124`), and handles that vanish before the filters are put back (`:185`).
  In the input core: its fuzz, and that it delivers events to handlers packet by packet.
* The plugin table beyond one entry: a build registers one plugin, once, so that
  `plugin_register` cannot fail.
* The third layer on x86: `gtk_entry_new` and its like create the real widget and
  connect a callback that reads its text and returns `FALSE`. There is no state and no
  order that a property could be about. On Android it is a patch to a soft keyboard
  that posts a fake key per event to that program's one message loop, and the second
  layer is one guard in a patch to `View.java`.
* In the second layer: which window the copied event names, and the missing
  initial `gdk_threads_enter` around `gtk_main`.
* `traces.c`: the `Makefile` does not build it, its size `TRACES_BUFFER` is defined
  nowhere, and nobody calls it. `timing.c` is called by it alone. `prefetch.c` only
  shapes the cache; `gpio-msm-v2.c` raises the interrupt with one store; the rest is
  build and packaging scripts.

Hazards that no property covers yet are listed in `PROJECT.json` with the reason.

## 7. Plan

Done: `Timer`, `InjectionClock`, `IrqHook`, `GetRandom`, `KeyLine`, `Lifecycle`,
`ReloadableClock`, `TouchFilter`, `TouchPlugin`, `FakeTouch`, `SecondLayer`, with proofs
of all their safety properties. Left, most important first:

1. An abstract specification of the touch device (slots that hold the fingers whenever
   it rests), implemented by `FakeTouch`.
2. `FakeTouch` within `TouchPlugin`: fake touches event by event while the plugin is
   unloaded.
3. The soft keyboard of the third layer, as far as the patch shows its message loop.
