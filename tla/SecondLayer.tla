---------------------------- MODULE SecondLayer ----------------------------
(***************************************************************************)
(* The second layer on x86 (second_layer/x86/inject.c): a GTK process with *)
(* two threads.  The main loop dispatches the window's events under the    *)
(* gdk lock; its snooper keeps a copy of the first key event.  From then   *)
(* on the injector turns that copy into fake presses and releases, one     *)
(* pair for each key the keyboard device reports, or per timeout of poll.  *)
(*                                                                         *)
(* The injector reads base_event without the lock, so the first event may  *)
(* come between a press and its release.  Built as configuration.h says    *)
(* (DEBUG 1) the window is not hidden when it has got its event.           *)
(***************************************************************************)
EXTENDS Integers

CONSTANTS Keys,        \* the key values a run may choose
          MaxRuns,     \* pairs in a run of inject_thread: at most 99
          MaxPending   \* reads that empty the device's buffer

ASSUME SecondLayerAssumption == MaxRuns \in Nat /\ MaxPending \in Nat

VARIABLES
  base_event,  \* "null", or the "event" the snooper has stored
  main,        \* where the main thread is
  gdk,         \* who holds the gdk lock
  pc,          \* where the injector is in inject_key and inject_thread
  half,        \* the press or the release of a pair
  key,         \* the key of the run
  runs,        \* pairs the run has left
  device,      \* /dev/input/event0: open, not opened, or unplugged
  pending,     \* what it has to report, counted in reads
  last         \* the fake event dispatched last

vars == <<base_event, main, gdk, pc, half, key, runs, device, pending, last>>
injector == <<pc, half, key, runs>>

Init == /\ base_event = "null"
        /\ main = "loop"
        /\ gdk = "free"
        /\ pc = "run" /\ half = "press" /\ key \in Keys /\ runs = 0
        /\ device \in {"open", "unopened"}
        /\ pending = 0
        /\ last = [half |-> "none", key |-> key]

Alive == main # "exited"

-----------------------------------------------------------------------------
(* The main loop takes a key event of the window, or its "delete-event".   *)
MainEvent(kind) == /\ main = "loop" /\ gdk = "free"
                   /\ main' = kind
                   /\ gdk' = "main"
                   /\ UNCHANGED <<base_event, injector, device, pending, last>>

(* snooper: only the first event is kept.                                  *)
Snooper == /\ main = "key"
           /\ main' = "snooped"
           /\ base_event' = "event"
           /\ UNCHANGED <<gdk, injector, device, pending, last>>

(* The dispatch ends; gtk_main_quit has been called if it was a close.     *)
MainLeave == /\ main \in {"snooped", "close"}
             /\ main' = IF main = "close" THEN "quit" ELSE "loop"
             /\ gdk' = "free"
             /\ UNCHANGED <<base_event, injector, device, pending, last>>

(* gtk_main takes the lock before it returns; main ends the process.       *)
Exit == /\ main = "quit" /\ gdk = "free"
        /\ main' = "exited"
        /\ UNCHANGED <<base_event, gdk, injector, device, pending, last>>

-----------------------------------------------------------------------------
(* The keyboard (or the first layer) makes the device readable, whose      *)
(* buffer is bounded; it may be unplugged.                                 *)
DeviceKey == /\ device = "open" /\ pending < MaxPending
             /\ pending' = pending + 1
             /\ UNCHANGED <<base_event, main, gdk, injector, device, last>>

Unplug == /\ device = "open"
          /\ device' = "unplugged"
          /\ UNCHANGED <<base_event, main, gdk, injector, pending, last>>

-----------------------------------------------------------------------------
(* inject_thread chooses a key and a number of pairs, and is called again  *)
(* when it returns.                                                        *)
NewRun(k, n) == /\ Alive /\ pc = "run"
                /\ key' = k
                /\ runs' = n
                /\ pc' = IF n = 0 THEN "run" ELSE "test"
                /\ UNCHANGED <<base_event, main, gdk, half, device, pending, last>>

AfterInject == IF half = "press" THEN "sleep" ELSE "poll"

(* inject_key: without an event to copy there is nothing to inject.        *)
Test == /\ Alive /\ pc = "test"
        /\ pc' = IF base_event = "event" THEN "copied" ELSE AfterInject
        /\ UNCHANGED <<base_event, main, gdk, half, key, runs,
                       device, pending, last>>

Enter == /\ Alive /\ pc = "copied" /\ gdk = "free"
         /\ pc' = "dispatch"
         /\ gdk' = "injector"
         /\ UNCHANGED <<base_event, main, half, key, runs, device, pending, last>>

(* gtk_main_do_event; the snooper sees the event and has one already.      *)
Dispatch == /\ Alive /\ pc = "dispatch"
            /\ pc' = "leave"
            /\ last' = [half |-> half, key |-> key]
            /\ UNCHANGED <<base_event, main, gdk, half, key, runs,
                           device, pending>>

(* Mutant: gdk_threads_leave is forgotten.                                 *)
LeaveKeeps == /\ Alive /\ pc = "leave"
              /\ pc' = AfterInject
              /\ UNCHANGED <<base_event, main, gdk, half, key, runs,
                             device, pending, last>>

Leave == /\ Alive /\ pc = "leave"
         /\ pc' = AfterInject
         /\ gdk' = "free"
         /\ UNCHANGED <<base_event, main, half, key, runs, device, pending, last>>

(* Mutant: the key is chosen anew for the release.                         *)
SleepNewKey == /\ Alive /\ pc = "sleep"
               /\ pc' = "test" /\ half' = "release"
               /\ key' \in Keys
               /\ UNCHANGED <<base_event, main, gdk, runs, device, pending, last>>

Sleep == /\ Alive /\ pc = "sleep"
         /\ pc' = "test" /\ half' = "release"
         /\ UNCHANGED <<base_event, main, gdk, key, runs, device, pending, last>>

NextPair == /\ half' = "press"
            /\ runs' = runs - 1
            /\ pc' = IF runs = 1 THEN "run" ELSE "test"

(* poll finds something to read.                                           *)
PollIn == /\ Alive /\ pc = "poll" /\ pending > 0
          /\ pc' = "read"
          /\ UNCHANGED <<base_event, main, gdk, half, key, runs,
                         device, pending, last>>

(* A device that is unplugged makes poll return at once, without POLLIN.   *)
PollHangup == /\ Alive /\ pc = "poll" /\ pending = 0 /\ device = "unplugged"
              /\ NextPair
              /\ UNCHANGED <<base_event, main, gdk, key, device, pending, last>>

(* Mutant: poll is given no timeout.                                       *)
PollForEver == FALSE /\ UNCHANGED vars

PollTimeout == /\ Alive /\ pc = "poll" /\ pending = 0 /\ device # "unplugged"
               /\ NextPair
               /\ UNCHANGED <<base_event, main, gdk, key, device, pending, last>>

(* The read of an unplugged device fails and takes nothing.                *)
Read == /\ Alive /\ pc = "read"
        /\ NextPair
        /\ pending' = IF device = "open" THEN pending - 1 ELSE pending
        /\ UNCHANGED <<base_event, main, gdk, key, device, last>>

-----------------------------------------------------------------------------
MainStep == Snooper \/ MainLeave \/ Exit
InjectorStep == Test \/ Dispatch \/ Leave \/ Sleep \/ PollIn \/ PollHangup \/ Read

Next == \/ \E kind \in {"key", "close"} : MainEvent(kind)
        \/ MainStep
        \/ DeviceKey \/ Unplug
        \/ \E k \in Keys, n \in 0 .. MaxRuns : NewRun(k, n)
        \/ InjectorStep \/ Enter \/ PollTimeout

(* Both threads are scheduled; the lock, free again and again, is got in   *)
(* the end; a run is not empty for ever.  No timeout is promised.          *)
Fairness == /\ WF_vars(MainStep)
            /\ WF_vars(InjectorStep)
            /\ SF_vars(Enter)
            /\ SF_vars(\E k \in Keys, n \in 1 .. MaxRuns : NewRun(k, n))

Spec     == Init /\ [][Next]_vars
FairSpec == Spec /\ Fairness

-----------------------------------------------------------------------------
TypeOK == /\ base_event \in {"null", "event"}
          /\ main \in {"loop", "key", "close", "snooped", "quit", "exited"}
          /\ gdk \in {"free", "main", "injector"}
          /\ pc \in {"run", "test", "copied", "dispatch", "leave",
                     "sleep", "poll", "read"}
          /\ half \in {"press", "release"}
          /\ key \in Keys
          /\ runs \in 0 .. MaxRuns
          /\ device \in {"open", "unopened", "unplugged"}
          /\ pending \in 0 .. MaxPending
          /\ last \in [half : {"none", "press", "release"}, key : Keys]

(* What the next fake event must be: a press unless a key is down, and     *)
(* else the release of that key.                                           *)
Alternates == IF half = "press" THEN last.half # "press"
              ELSE last.half = "press" /\ last.key = key

(* The first event has come between a press that had nothing to copy and   *)
(* its release.                                                            *)
SplitPair == /\ base_event = "event" /\ last.half = "none"
             /\ pc = "sleep" \/ (pc = "test" /\ half = "release")

(* Fake presses and releases alternate, and a release is of the key that   *)
(* was pressed (inject.c:123-125): of all events that are dispatched only  *)
(* the very first may be a release with no press before it, and not even   *)
(* that one unless the snooper gets its event in the middle of a pair.     *)
KeysAlternate ==
  /\ [][Dispatch => Alternates \/ (half = "release" /\ last.half = "none")]_vars
  /\ []~SplitPair => [](pc = "dispatch" => Alternates)

Pressing == pc = "dispatch" /\ half = "press"

(* What the keyboard reports is followed by a fake press, even if poll     *)
(* never times out (inject.c:126-133): no key is answered by silence, and  *)
(* the two threads never wait for each other.                              *)
KeyAnswered == pending > 0 /\ base_event = "event" ~> Pressing \/ ~Alive

(* Thanks to the timeout fake keys go on also when nobody types, and if    *)
(* the device could not be opened (inject.c:126, 148).                     *)
InjectionGoesOn == WF_vars(PollTimeout) => (base_event = "event" ~> Pressing \/ ~Alive)

(* Neither thread waits for one that waits for it (inject.c:68-70): the    *)
(* lock is held by the thread that is inside GTK, by nobody else, and that *)
(* thread is on its way out of it.  So no two events are dispatched at a   *)
(* time.                                                                   *)
LockIsInGtk ==
  /\ gdk = "main"     <=> main \in {"key", "snooped", "close"}
  /\ gdk = "injector" <=> pc \in {"dispatch", "leave"}
=============================================================================
