------------------------- MODULE SecondLayerProofs -------------------------
(***************************************************************************)
(* Proofs about SecondLayer for all keys, runs of any length and devices   *)
(* of any capacity.                                                        *)
(***************************************************************************)
EXTENDS SecondLayer, TLAPS

(* The inductive invariant: before the press the last fake event was no    *)
(* press; before the release it was the press of the same key, unless      *)
(* there was no event to copy then, and so none has been dispatched.       *)
Injecting     == pc \in {"copied", "dispatch", "leave"}
PressedOrNone == last.half = "none" \/ (last.half = "press" /\ last.key = key)
Paired ==
  /\ base_event = "null" => last.half = "none" /\ ~Injecting
  /\ pc = "run" => half = "press" /\ last.half # "press"
  /\ pc \in {"test", "copied", "dispatch"} =>
       IF half = "press" THEN last.half # "press" ELSE PressedOrNone
  /\ pc = "leave" => last.half = half /\ last.key = key
  /\ pc = "sleep" => half = "press" /\ PressedOrNone
  /\ pc \in {"poll", "read"} => half = "release" /\ last.half # "press"
Counted == /\ pc # "run" => runs > 0
           /\ pc = "read" => pending > 0
IInv == TypeOK /\ Paired /\ Counted /\ LockIsInGtk

LEMMA IInvInit == Init => IInv
  BY SecondLayerAssumption DEF Init, IInv, TypeOK, Paired, Injecting, Counted, LockIsInGtk

LEMMA IInvNext == IInv /\ [Next]_vars => IInv'
  <1> SUFFICES ASSUME IInv, [Next]_vars PROVE IInv'
    OBVIOUS
  <1> USE SecondLayerAssumption DEF IInv, TypeOK, Paired, PressedOrNone,
                                Injecting, Counted, LockIsInGtk
  <1>1. ASSUME NEW kind \in {"key", "close"}, MainEvent(kind) PROVE IInv'
    BY <1>1 DEF MainEvent, injector
  <1>2. CASE MainStep
    BY <1>2 DEF MainStep, Snooper, MainLeave, Exit, injector
  <1>3. CASE DeviceKey \/ Unplug
    BY <1>3 DEF DeviceKey, Unplug, injector
  <1>4. ASSUME NEW k \in Keys, NEW n \in 0 .. MaxRuns, NewRun(k, n) PROVE IInv'
    BY <1>4 DEF NewRun
  <1>5. CASE Test \/ Leave
    BY <1>5 DEF Test, Leave, AfterInject
  <1>6. CASE Enter \/ Sleep \/ PollIn
    BY <1>6 DEF Enter, Sleep, PollIn
  <1>7. CASE Dispatch
    BY <1>7 DEF Dispatch
  <1>8. CASE PollHangup \/ PollTimeout \/ Read
    BY <1>8 DEF PollHangup, PollTimeout, Read, NextPair
  <1>9. CASE UNCHANGED vars
    BY <1>9 DEF vars
  <1>10. QED
    BY <1>1, <1>2, <1>3, <1>4, <1>5, <1>6, <1>7, <1>8, <1>9
       DEF Next, InjectorStep

THEOREM IInvCorrect == Spec => []IInv
  BY IInvInit, IInvNext, PTL DEF Spec

(* The gdk lock is held exactly by the thread that is inside GTK, whatever *)
(* the user, the device and the snooper do (inject.c:68-70).               *)
THEOREM LockIsHeldInGtk == Spec => []LockIsInGtk
  <1>1. IInv => LockIsInGtk
    BY DEF IInv
  <1>2. QED
    BY <1>1, IInvCorrect, PTL

(* While no first event splits a pair, no release is under way before      *)
(* there has been a press.                                                 *)
Whole == pc \in {"copied", "dispatch"} /\ half = "release" => last.half # "none"

LEMMA WholeNext == IInv /\ ~SplitPair /\ Whole /\ [Next]_vars => Whole'
  BY DEF IInv, Paired, Whole, SplitPair, Next, MainEvent, MainStep, Snooper,
         MainLeave, Exit, DeviceKey, Unplug, NewRun, InjectorStep, Test,
         AfterInject, Leave, Sleep, PollIn, PollHangup, Read, Enter, Dispatch,
         PollTimeout, NextPair, vars, injector

(* For all keys, runs of any length and devices of any capacity: every     *)
(* fake press that is dispatched follows no press, and every release       *)
(* follows the press of its key (inject.c:123-125), except that the first  *)
(* of all events may be a release, if the event it is a copy of came       *)
(* between the two halves of a pair.                                       *)
THEOREM FakeKeysAlternate == Spec => KeysAlternate
  <1> DEFINE Weak   == Alternates \/ (half = "release" /\ last.half = "none")
             Strict == pc = "dispatch" => Alternates
  <1>1. IInv /\ [Next]_vars => [Dispatch => Weak]_vars
    BY DEF IInv, TypeOK, Paired, PressedOrNone, Dispatch, Alternates
  <1>2. Init => Whole
    BY DEF Init, Whole
  <1>3. IInv /\ Whole => Strict
    BY DEF IInv, TypeOK, Paired, PressedOrNone, Whole, Alternates
  <1>4. QED
    BY <1>1, <1>2, <1>3, WholeNext, IInvCorrect, PTL DEF Spec, KeysAlternate
=============================================================================
