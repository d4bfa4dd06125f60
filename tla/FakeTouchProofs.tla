-------------------------- MODULE FakeTouchProofs --------------------------
(***************************************************************************)
(* Proofs about FakeTouch for all coordinates and any number of slots.     *)
(***************************************************************************)
EXTENDS FakeTouch, TLAPS

TypeOK == /\ alone \in BOOLEAN
          /\ pc \in {"idle", "touch", "position", "update", "lift", "up", "raise"}
          /\ defuzz \in {0, 1}
          /\ slot \in Slots
          /\ down \in [Slots -> BOOLEAN]
          /\ x \in [Slots -> Int]
          /\ source \in [Slots -> {"real", "fake"}]
          /\ driver \in {"idle", "select", "state", "position"}
          /\ finger \in Slots
          /\ tap \in {"none", "real"}

(* Fake touches leave nothing but their two coordinates.                   *)
FakeIsNear == \A s \in Slots : source[s] = "fake" => x[s] \in {SEND_VALUE, SEND_VALUE + 1}

(* The coordinate that the next fake touch will not report: the one of the *)
(* last fake touch.                                                        *)
Other == SEND_VALUE + (IF pc \in {"lift", "up", "raise", "idle", "touch", "position"}
                       THEN 1 - defuzz ELSE defuzz)

(* On one CPU the timer's interrupt keeps slot 0 selected to its end, and  *)
(* finds slot 0 or the finger's own in the middle of a report.             *)
Selected == /\ pc # "idle" => slot = 0
            /\ driver \in {"state", "position"} => slot \in {0, finger}

Alternates == /\ source[0] = "fake" => x[0] = Other
              /\ \A s \in Slots \ {0} : source[s] = "real"

IInv == TypeOK /\ FakeIsNear /\ (alone => Selected /\ Alternates)

LEMMA ZeroIsSlot == 0 \in Slots
  BY FakeTouchAssumption DEF Slots

LEMMA IInvInit == Init => IInv
  BY FakeTouchAssumption, ZeroIsSlot
     DEF Init, IInv, TypeOK, FakeIsNear, Selected, Alternates

(* The next finger is a slot, too, and none that is being reported.        *)
LEMMA NextIsSlot ==
  ASSUME finger \in Slots, NextFinger
  PROVE  finger' \in Slots /\ driver' \in {"idle", "select"}
  BY FakeTouchAssumption DEF Slots, NextFinger

LEMMA IInvNext == IInv /\ [Next]_vars => IInv'
  <1> SUFFICES ASSUME IInv, [Next]_vars PROVE IInv'
    OBVIOUS
  <1> USE FakeTouchAssumption, ZeroIsSlot DEF driverVars, injectVars
  <1>1. ASSUME NEW from, NEW to \in {"touch", "up"}, Select(from, to),
               <<from, to>> \in {<<"idle", "touch">>, <<"lift", "up">>}
        PROVE  IInv'
    BY <1>1 DEF Select, IInv, TypeOK, FakeIsNear, Selected, Alternates, Other
  <1>2. ASSUME NEW from, NEW to, NEW active \in BOOLEAN, State(from, to, active),
               <<from, to>> \in {<<"touch", "position">>, <<"up", "raise">>}
        PROVE  IInv'
    BY <1>2 DEF State, IInv, TypeOK, FakeIsNear, Selected, Alternates, Other
  <1>3. CASE Position
    <2>1. TypeOK' /\ FakeIsNear'
      BY <1>3 DEF Position, Report, Filter, NotInRange, IInv, TypeOK, FakeIsNear
    <2>2. ASSUME alone PROVE Selected' /\ Alternates'
      BY <1>3, <2>2
         DEF Position, Report, IInv, TypeOK, Selected, Alternates, Other
    <2>3. alone' = alone
      BY <1>3 DEF Position
    <2>4. QED
      BY <2>1, <2>2, <2>3 DEF IInv
  <1>4. CASE Update \/ Raise \/ GpioInject \/ Callback
    BY <1>4 DEF Update, Raise, GpioInject, Callback, IInv, TypeOK, FakeIsNear,
                Selected, Alternates, Other
  <1>5. ASSUME NEW fingers \in SUBSET Slots, Controller(fingers) PROVE IInv'
    BY <1>5 DEF Controller, IInv, TypeOK, FakeIsNear, Selected, Alternates, Other
  <1>6. CASE Wake \/ SelectFinger
    BY <1>6 DEF Wake, SelectFinger, ThreadRuns, IInv, TypeOK, FakeIsNear,
                Selected, Alternates, Other
  <1>7. CASE StateOfFinger
    <2>1. /\ finger' \in Slots
          /\ \/ driver' \in {"idle", "select"}
             \/ driver' = "position" /\ finger' = finger
      BY <1>7, NextIsSlot DEF StateOfFinger, IInv, TypeOK
    <2>2. down' \in [Slots -> BOOLEAN]
      BY <1>7 DEF StateOfFinger, IInv, TypeOK
    <2>3. UNCHANGED <<alone, pc, defuzz, slot, x, source, tap>> /\ driver = "state"
      BY <1>7 DEF StateOfFinger
    <2>4. QED
      BY <2>1, <2>2, <2>3 DEF IInv, TypeOK, FakeIsNear, Selected, Alternates, Other
  <1>8. ASSUME NEW value \in Xs, PositionOfFinger(value) PROVE IInv'
    <2>1. /\ Report(value, "real")
          /\ UNCHANGED <<alone, pc, defuzz, slot, down>>
          /\ finger' \in Slots /\ driver' \in {"idle", "select"}
      BY <1>8, NextIsSlot DEF PositionOfFinger, IInv, TypeOK
    <2>2. TypeOK' /\ FakeIsNear'
      BY <2>1 DEF Report, Filter, IInv, TypeOK, FakeIsNear
    <2>3. ASSUME alone PROVE Selected' /\ Alternates'
      BY <2>1, <2>3 DEF Report, IInv, TypeOK, Selected, Alternates, Other
    <2>4. QED
      BY <2>1, <2>2, <2>3 DEF IInv
  <1>9. CASE UNCHANGED vars
    BY <1>9 DEF vars, IInv, TypeOK, FakeIsNear, Selected, Alternates, Other
  <1>10. QED
    BY <1>1, <1>2, <1>3, <1>4, <1>5, <1>6, <1>7, <1>8, <1>9 DEF Next, Inject, Thread

THEOREM IInvCorrect == Spec => []IInv
  BY IInvInit, IInvNext, PTL DEF Spec

(* For all coordinates of real touches and any number of slots: the        *)
(* injection timer is never reset by the fake touches it causes.           *)
THEOREM NoSelfReset == Spec => []FakeNeverTaps
  <1>1. IInv => FakeNeverTaps
    BY DEF IInv, TypeOK, FakeNeverTaps
  <1>2. QED
    BY <1>1, IInvCorrect, PTL

(* The same: on one CPU no fake touch repeats the last.                    *)
THEOREM FakesAlternate == Spec => FakeIsVisible
  <1>1. IInv /\ [Next]_vars
        => [alone /\ pc = "position" /\ pc' = "update" /\ x[slot] = SEND_VALUE + defuzz
              => source[slot] = "real"]_vars
    BY FakeTouchAssumption
       DEF IInv, TypeOK, Selected, Alternates, Other
  <1>2. QED
    BY <1>1, IInvCorrect, PTL DEF Spec, FakeIsVisible

(* The same, on any number of CPUs: fake touches do not hide a real one    *)
(* from the filter.                                                        *)
THEOREM RealTouchIsNoticed == Spec => RealIsNoticed
  <1> DEFINE A == \A value \in Xs : PositionOfFinger(value) =>
                    \/ tap' # "none"
                    \/ value \in SEND_VALUE - 1 .. SEND_VALUE + 1
                    \/ x[slot] = value /\ source[slot] = "real"
  <1>1. IInv => A
    <2> SUFFICES ASSUME IInv, NEW value \in Xs, PositionOfFinger(value),
                        value \notin SEND_VALUE - 1 .. SEND_VALUE + 1
                 PROVE  tap' # "none" \/ (x[slot] = value /\ source[slot] = "real")
      OBVIOUS
    <2>1. NotInRange(value, SEND_VALUE, 1)
      BY FakeTouchAssumption DEF NotInRange
    <2>2. CASE x[slot] = value
      BY <2>2, FakeTouchAssumption DEF IInv, TypeOK, FakeIsNear
    <2>3. CASE x[slot] # value
      BY <2>1, <2>3 DEF PositionOfFinger, Report, Filter, IInv, TypeOK
    <2>4. QED
      BY <2>2, <2>3
  <1>2. IInv /\ [Next]_vars => [A]_vars
    BY <1>1
  <1>3. QED
    BY <1>2, IInvCorrect, PTL DEF Spec, RealIsNoticed

(* On one CPU, for any number of slots: fake touches disturb slot 0 only.  *)
THEOREM OtherSlotsAreKept == Spec => OnlySlotZeroIsDisturbed
  <1> DEFINE A == \A s \in Slots \ {0} :
                    alone /\ (down'[s] # down[s] \/ x'[s] # x[s])
                      => driver \in {"state", "position"} /\ finger = s
  <1>1. IInv /\ [Next]_vars => [A]_vars
    <2> SUFFICES ASSUME IInv, Next PROVE A
      OBVIOUS
    <2>1. CASE UNCHANGED <<down, x>>
      BY <2>1
    <2>2. ASSUME Inject PROVE A
      <3>1. \A s \in Slots : s # slot => down'[s] = down[s] /\ x'[s] = x[s]
        BY <2>2 DEF Inject, Select, State, Position, Update, Raise, Report,
                    IInv, TypeOK
      <3>2. alone => slot = 0 \/ UNCHANGED <<down, x>>
        BY <2>2 DEF Inject, Select, State, Position, Update, Raise,
                    IInv, Selected
      <3>3. QED
        BY <3>1, <3>2
    <2>3. ASSUME StateOfFinger \/ \E value \in Xs : PositionOfFinger(value) PROVE A
      <3>1. \A s \in Slots : s # slot => down'[s] = down[s] /\ x'[s] = x[s]
        BY <2>3 DEF StateOfFinger, PositionOfFinger, Report, IInv, TypeOK
      <3>2. driver \in {"state", "position"}
        BY <2>3 DEF StateOfFinger, PositionOfFinger
      <3>3. QED
        BY <3>1, <3>2 DEF IInv, Selected
    <2>4. QED
      BY <2>1, <2>2, <2>3
         DEF Next, Thread, Wake, SelectFinger, GpioInject, Controller, Callback
  <1>2. QED
    BY <1>1, IInvCorrect, PTL DEF Spec, OnlySlotZeroIsDisturbed

-----------------------------------------------------------------------------
LEMMA HitNext ==
  /\ Apart' /\ [Next]_vars /\ (Writing => slot = 0) => (Writing => slot = 0)'
  BY DEF Apart, Writing, Next, Inject, Select, State, Position, Update, Raise,
         GpioInject, Controller, Thread, ThreadRuns, Wake, SelectFinger,
         StateOfFinger, PositionOfFinger, NextFinger, Callback, driverVars,
         injectVars, vars

(* For any number of slots and on any CPUs: a fake touch writes to slot 0  *)
(* as long as the driver does not come between its selection of the slot   *)
(* and what it reports into it (s3320.c:43, 67).                           *)
THEOREM FakeTouchesHitSlotZero == Spec => FakesHitSlotZero
  <1>1. Init => (Writing => slot = 0)
    BY DEF Init, Writing
  <1>2. QED
    BY <1>1, HitNext, PTL DEF Spec, FakesHitSlotZero

-----------------------------------------------------------------------------
(* Without a fake touch or an interrupt to come, the thread's report is    *)
(* undisturbed: what it has reported is right, and it is in the slot of    *)
(* its finger.  A report that a fake touch disturbs ends with one to come. *)
ToCome == pc # "idle" \/ called \/ woken
Agree(s) == down[s] <=> s \in touching
Undisturbed ==
  /\ driver = "idle" => \A s \in Slots : Agree(s)
  /\ \A s \in Slots : s < finger => Agree(s)
  /\ driver \in {"state", "position"} => slot = finger
  /\ driver = "position" => Agree(finger)
SettledInv == ToCome \/ Undisturbed

LEMMA SettledNext == IInv /\ SettledInv /\ [Next]_vars => SettledInv'
  <1> SUFFICES ASSUME IInv, SettledInv, [Next]_vars, ~ToCome' PROVE Undisturbed'
    BY DEF SettledInv
  <1> USE FakeTouchAssumption DEF ToCome, driverVars, injectVars
  (* A fake touch that begins or ends, and its interrupt, are to come.     *)
  <1>1. ~Inject /\ ~GpioInject /\ ~\E fingers \in SUBSET Slots : Controller(fingers)
    BY DEF Inject, Select, State, Position, Update, Raise, GpioInject, Controller
  <1>2. CASE Wake
    BY <1>2, ZeroIsSlot DEF Wake, Undisturbed, Slots
  <1>3. CASE SelectFinger
    <2>1. Undisturbed
      BY <1>3 DEF SelectFinger, SettledInv
    <2>2. QED
      BY <1>3, <2>1 DEF SelectFinger, Undisturbed, Agree
  <1>4. CASE StateOfFinger
    <2>1. Undisturbed /\ slot = finger
      BY <1>4 DEF StateOfFinger, SettledInv, NextFinger, Undisturbed
    <2>2. /\ touching' = touching
          /\ \A s \in Slots : s # finger => down'[s] = down[s]
          /\ down'[finger] <=> finger \in touching
      BY <1>4, <2>1 DEF StateOfFinger, NextFinger, IInv, TypeOK
    <2>3. ASSUME NEW s \in Slots, s <= finger PROVE Agree(s)'
      <3>1. CASE s = finger
        BY <2>2, <3>1 DEF Agree
      <3>2. CASE s # finger
        <4>1. s < finger
          BY <2>3, <3>2 DEF Slots, IInv, TypeOK
        <4>2. QED
          BY <2>1, <2>2, <3>2, <4>1 DEF Undisturbed, Agree
      <3>3. QED
        BY <3>1, <3>2
    <2>4. CASE finger \in touching
      <3>1. driver' = "position" /\ UNCHANGED <<slot, finger>>
        BY <1>4, <2>4 DEF StateOfFinger
      <3>2. QED
        BY <2>1, <2>3, <3>1 DEF Undisturbed, Slots, IInv, TypeOK
    <2>5. CASE finger \notin touching
      <3>1. NextFinger
        BY <1>4, <2>5 DEF StateOfFinger
      <3>2. QED
        BY <2>3, <3>1 DEF NextFinger, Undisturbed, Slots, IInv, TypeOK
    <2>6. QED
      BY <2>4, <2>5
  <1>5. ASSUME NEW value \in Xs, PositionOfFinger(value) PROVE Undisturbed'
    <2>1. Undisturbed /\ driver = "position" /\ NextFinger
      BY <1>5 DEF PositionOfFinger, SettledInv, NextFinger
    <2>2. UNCHANGED <<down, touching>>
      BY <1>5 DEF PositionOfFinger, NextFinger
    <2>3. \A s \in Slots : s <= finger => Agree(s)'
      BY <2>1, <2>2 DEF Undisturbed, Agree, Slots, IInv, TypeOK
    <2>4. QED
      BY <2>1, <2>3 DEF NextFinger, Undisturbed, Slots, IInv, TypeOK
  <1>6. CASE Callback \/ UNCHANGED vars
    BY <1>6 DEF Callback, vars, SettledInv, Undisturbed, Agree
  <1>7. QED
    BY <1>1, <1>2, <1>3, <1>4, <1>5, <1>6 DEF Next, Thread

(* For all coordinates, any number of slots and of CPUs: whatever fake     *)
(* touches and the driver's reports do to each other, the slots hold the   *)
(* fingers when both are done.                                             *)
THEOREM RestingSlotsAgree == Spec => []SlotsAgree
  <1>1. Init => SettledInv
    BY DEF Init, SettledInv, Undisturbed, Agree, Slots
  <1>2. SettledInv => SlotsAgree
    BY DEF SettledInv, ToCome, Undisturbed, Agree, SlotsAgree, Resting
  <1>3. QED
    BY <1>1, <1>2, IInvCorrect, SettledNext, PTL DEF Spec
=============================================================================
