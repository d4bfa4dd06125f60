-------------------------- MODULE TouchFilterProofs --------------------------
(***************************************************************************)
(* Proofs about TouchFilter and TouchPlugin, for every set of handlers and *)
(* CPUs and every table of pin controllers.                                *)
(***************************************************************************)
EXTENDS TouchPlugin, TLAPS

Patched(h) == filter[h] = "touchscreen_filter"

TypeOK == /\ phase \in {"out", "find", "grab", "init", "live", "reset", "exited"}
          /\ todo \in SUBSET Handlers
          /\ saved \in SUBSET (Handlers \X {"own", "null"})
          /\ filter \in [Handlers -> {"own", "null", "touchscreen_filter"}]

(* What is saved is the handler's own filter, exactly of patched handlers; *)
(* a handler that is not patched, or not yet visited, has its own filter.  *)
IInv == /\ TypeOK
        /\ \A entry \in saved : Patched(entry[1]) /\ entry[2] = Original(entry[1])
        /\ \A h \in Handlers : Patched(h) => <<h, Original(h)>> \in saved
        /\ \A h \in Handlers : ~Patched(h) => filter[h] = Original(h)
        /\ phase = "init" => \A h \in todo : ~Patched(h)
        /\ phase # "init" => todo = {}
        /\ phase \in {"out", "find", "grab", "exited"} => saved = {}

LEMMA OriginalIs == \A h : Original(h) \in {"own", "null"}
  BY DEF Original

LEMMA IInvInit == Init => IInv
  BY OriginalIs DEF Init, IInv, TypeOK, Patched

LEMMA IInvNext == IInv /\ [Next]_vars => IInv'
  <1> SUFFICES ASSUME IInv, [Next]_vars PROVE IInv'
    OBVIOUS
  <1> USE OriginalIs DEF IInv, TypeOK, Patched
  <1>1. ASSUME NEW found \in BOOLEAN, Insmod \/ NotGrabbed \/ FindDevice(found)
        PROVE  IInv'
    BY <1>1 DEF Insmod, NotGrabbed, FindDevice
  <1>2. ASSUME NEW h \in Handlers, PatchGrabbed(h) \/ Patch(h) PROVE IInv'
    <2>1. filter[h] = Original(h)
      BY <1>2 DEF PatchGrabbed, Patch
    <2>2. TypeOK'
      BY <1>2, <2>1 DEF PatchGrabbed, Patch, Replace
    <2>3. \A entry \in saved' : Patched(entry[1])' /\ entry[2] = Original(entry[1])
      BY <1>2, <2>1 DEF PatchGrabbed, Patch, Replace
    <2>4. \A g \in Handlers : Patched(g)' => <<g, Original(g)>> \in saved'
      BY <1>2, <2>1 DEF PatchGrabbed, Patch, Replace
    <2>5. \A g \in Handlers : ~Patched(g)' => filter'[g] = Original(g)
      BY <1>2 DEF PatchGrabbed, Patch, Replace
    <2>6. \A g \in todo' : ~Patched(g)'
      BY <1>2 DEF PatchGrabbed, Patch, Replace
    <2>7. phase' = "init"
      BY <1>2 DEF PatchGrabbed, Patch
    <2>8. QED
      BY <2>2, <2>3, <2>4, <2>5, <2>6, <2>7
  <1>3. ASSUME NEW h \in Handlers, Skip(h) \/ OpenClose(h) PROVE IInv'
    BY <1>3 DEF Skip, OpenClose
  <1>4. CASE InitReturns \/ Rmmod \/ CleanupReturns \/ FreeModule
    BY <1>4 DEF InitReturns, Rmmod, CleanupReturns, FreeModule
  <1>5. ASSUME NEW entry \in saved, Reset(entry[1], entry[2]) PROVE IInv'
    <2>1. PICK h \in Handlers, old \in {"own", "null"} : entry = <<h, old>>
      OBVIOUS
    <2>2. Patched(h) /\ old = Original(h)
      BY <2>1
    <2>3. /\ phase = "reset" /\ phase' = "reset"
          /\ filter' = [filter EXCEPT ![h] = old]
          /\ saved' = saved \ {<<h, old>>}
          /\ todo' = todo
      BY <1>5, <2>1 DEF Reset
    <2>4. \A g \in Handlers : g # h => filter'[g] = filter[g]
      BY <2>3
    <2>5. filter'[h] = Original(h)
      BY <2>2, <2>3
    <2>6. \A e \in saved' : e[1] # h
      <3> SUFFICES ASSUME NEW e \in saved', e[1] = h PROVE FALSE
        OBVIOUS
      <3>1. e \in saved /\ e # <<h, old>>
        BY <2>3
      <3>2. e = <<e[1], e[2]>>
        BY <3>1
      <3>3. e[2] = old
        BY <3>1, <2>2
      <3>4. QED
        BY <3>1, <3>2, <3>3
    <2>7. QED
      BY <2>3, <2>4, <2>5, <2>6
  <1>6. ASSUME NEW c \in CPUs,
               (\E h \in Handlers : Test(c, h)) \/ Call(c) \/ Return(c)
        PROVE IInv'
    BY <1>6 DEF Test, Call, Return
  <1>7. CASE UNCHANGED vars
    BY <1>7 DEF vars
  <1>8. QED
    BY <1>1, <1>2, <1>3, <1>4, <1>5, <1>6, <1>7 DEF Next

THEOREM IInvCorrect == Spec => []IInv
  BY IInvInit, IInvNext, PTL DEF Spec

(* Whatever handlers there are and whenever they open and close the        *)
(* device, rmmod gives each its own filter back (plugin.c:178-193).        *)
THEOREM FiltersAreRestored == Spec => []FiltersBack
  <1>1. IInv => FiltersBack
    BY DEF IInv, FiltersBack
  <1>2. QED
    BY <1>1, IInvCorrect, PTL

(* The list names the patched handlers and their own filters, each once.   *)
THEOREM ListIsExact == Spec => []ListMatches
  <1>1. IInv => ListMatches
    BY OriginalIs DEF IInv, TypeOK, Patched, ListMatches
  <1>2. QED
    BY <1>1, IInvCorrect, PTL

-----------------------------------------------------------------------------
(* A CPU that has tested a filter still finds one, unless cleanup has come *)
(* in between.                                                             *)
AtOK == at \in [CPUs -> {Idle} \cup
           [step : {"call", "own", "touchscreen_filter", "null"}, handler : Handlers]]
CallHasFilter == \A c \in CPUs : at[c].step = "call" =>
                   filter[at[c].handler] # "null" \/ phase \in {"reset", "exited"}

LEMMA CallInit == Init => AtOK /\ CallHasFilter
  BY DEF Init, AtOK, CallHasFilter, Idle

LEMMA CallNext == IInv /\ AtOK /\ CallHasFilter /\ [Next]_vars => AtOK' /\ CallHasFilter'
  <1> SUFFICES ASSUME IInv, AtOK, CallHasFilter, [Next]_vars
               PROVE  AtOK' /\ CallHasFilter'
    OBVIOUS
  <1> USE DEF AtOK, CallHasFilter, IInv, TypeOK
  <1>1. ASSUME NEW c \in CPUs, NEW h \in Handlers, Test(c, h) PROVE AtOK' /\ CallHasFilter'
    BY <1>1 DEF Test
  <1>2. ASSUME NEW c \in CPUs, Call(c) PROVE AtOK' /\ CallHasFilter'
    <2>1. at[c].step = "call" /\ at[c].handler \in Handlers
      BY <1>2 DEF Call, Idle
    <2>2. filter[at[c].handler] \in {"own", "null", "touchscreen_filter"}
      BY <2>1
    <2>3. AtOK'
      BY <1>2, <2>1, <2>2 DEF Call
    <2>4. CallHasFilter'
      BY <1>2, <2>1, <2>2 DEF Call
    <2>5. QED
      BY <2>3, <2>4
  <1>3. ASSUME NEW c \in CPUs, Return(c) PROVE AtOK' /\ CallHasFilter'
    BY <1>3 DEF Return, Idle
  <1>4. ASSUME NEW h \in Handlers, PatchGrabbed(h) \/ Patch(h) PROVE AtOK' /\ CallHasFilter'
    <2>1. \A g \in Handlers : filter[g] # "null" => filter'[g] # "null"
      BY <1>4 DEF PatchGrabbed, Patch, Replace
    <2>2. UNCHANGED at /\ phase \notin {"reset", "exited"}
      BY <1>4 DEF PatchGrabbed, Patch
    <2>3. \A c \in CPUs : at[c].step = "call" => at[c].handler \in Handlers
      BY DEF Idle
    <2>4. QED
      BY <2>1, <2>2, <2>3
  <1>5. ASSUME NEW entry \in saved, Reset(entry[1], entry[2]) PROVE AtOK' /\ CallHasFilter'
    BY <1>5 DEF Reset
  <1>6. CASE FreeModule
    BY <1>6 DEF FreeModule, Idle
  <1>7. ASSUME NEW h \in Handlers, Skip(h) \/ OpenClose(h) PROVE AtOK' /\ CallHasFilter'
    BY <1>7 DEF Skip, OpenClose
  <1>8. CASE \/ Insmod \/ NotGrabbed \/ \E found \in BOOLEAN : FindDevice(found)
             \/ InitReturns \/ Rmmod \/ CleanupReturns \/ UNCHANGED vars
    BY <1>8 DEF Insmod, NotGrabbed, FindDevice, InitReturns, Rmmod, CleanupReturns, vars
  <1>9. QED
    BY <1>1, <1>2, <1>3, <1>4, <1>5, <1>6, <1>7, <1>8 DEF Next

(* Only cleanup can take a filter away from a CPU that has tested it       *)
(* (plugin.c:185).                                                         *)
THEOREM NullNeedsReset == Spec => NullOnlyInReset
  <1> DEFINE A == \A c \in CPUs : at[c].step # "null" /\ at'[c].step = "null"
                                   => phase \in {"reset", "exited"}
  <1>1. IInv /\ AtOK /\ CallHasFilter /\ [Next]_vars => [A]_vars
    <2> SUFFICES ASSUME IInv, AtOK, CallHasFilter, Next PROVE A
      OBVIOUS
    <2> USE DEF AtOK, CallHasFilter
    <2>1. ASSUME NEW c \in CPUs, Call(c) PROVE A
      BY <2>1 DEF Call
    <2>2. ASSUME NEW c \in CPUs, (\E h \in Handlers : Test(c, h)) \/ Return(c) PROVE A
      BY <2>2 DEF Test, Return, Idle
    <2>3. CASE UNCHANGED at
      BY <2>3
    <2>4. QED
      BY <2>1, <2>2, <2>3
         DEF Next, Insmod, NotGrabbed, FindDevice, PatchGrabbed, Patch, Skip, OpenClose,
             InitReturns, Rmmod, CleanupReturns, FreeModule, Reset
  <1>2. QED
    BY <1>1, IInvInit, IInvNext, CallInit, CallNext, PTL DEF Spec, NullOnlyInReset

-----------------------------------------------------------------------------
(* TouchPlugin only adds to TouchFilter.                                   *)
LEMMA FailIsStep == Fail => InitReturns
  BY DEF Fail

LEMMA PluginStep == [NextP]_allVars => [Next]_vars
  <1> SUFFICES ASSUME [NextP]_allVars PROVE [Next]_vars
    OBVIOUS
  <1> USE DEF Next
  <1>1. CASE Load \/ Filters \/ Register \/ ResetFilters \/ Unload \/ Others
    BY <1>1 DEF Load, Filters, Register, ResetFilters, Unload, Others
  <1>2. CASE LookAt \/ NoChip \/ Unhook \/ FakeTouch \/ Served
    BY <1>2, FailIsStep DEF LookAt, NoChip, Unhook, FakeTouch, Served, Go
  <1>3. ASSUME NEW success \in BOOLEAN, Device(success) \/ Symbols(success)
                                         \/ FindHandler(success) \/ Hook(success)
        PROVE  [Next]_vars
    BY <1>3, FailIsStep DEF Device, Symbols, FindHandler, Hook, Go
  <1>4. CASE UNCHANGED allVars
    BY <1>4 DEF allVars
  <1>5. QED
    BY <1>1, <1>2, <1>3, <1>4 DEF NextP, Process

(* The plugin treats the filters as TouchFilter does, whatever its init    *)
(* finds and wherever it fails: the theorems above hold of it, too.        *)
THEOREM PluginImplementsFilter == SpecP => Spec
  BY PluginStep, PTL DEF SpecP, InitP, Spec

-----------------------------------------------------------------------------
OwnPin(i) == i \in 1 .. Chips /\ chips[i] = "pinctrl"

(* What touchscreen_init has found when it comes to a step, and what is    *)
(* there when the plugin data are.                                         *)
Found == /\ pin_group # 0 => pctrl = pin_group /\ OwnPin(pin_group)
         /\ phase \in {"find", "grab", "init"} /\ step \in {"filters", "chips"}
              => pin_group = 0
         /\ step \in {"handler", "hook", "data"} => pin_group # 0
         /\ step = "data" => hooked
         /\ data => pin_group # 0 /\ (phase = "live" => hooked)

Calm == /\ phase # "init" => step = "filters"
        /\ phase \in {"find", "grab", "init"} => ~data
        /\ phase \notin {"live", "reset", "exited"} => raised = {}
        /\ phase = "live" /\ raised # {} => hooked

IInvP == /\ Found /\ Calm /\ RaisesOwnPin
         /\ step \in {"filters", "chips", "handler", "hook", "data"}
         /\ data \in BOOLEAN /\ hooked \in BOOLEAN

LEMMA IInvPInit == InitP => IInvP
  BY DEF InitP, Init, IInvP, Found, Calm, RaisesOwnPin

LEMMA IInvPNext == IInvP /\ [NextP]_allVars => IInvP'
  <1> SUFFICES ASSUME IInvP, [NextP]_allVars PROVE IInvP'
    OBVIOUS
  <1> USE DEF IInvP, Found, Calm, RaisesOwnPin, OwnPin
  <1>1. CASE Load
    BY <1>1 DEF Load, Insmod
  <1>2. ASSUME NEW found \in BOOLEAN, Device(found) PROVE IInvP'
    BY <1>2 DEF Device, FindDevice
  <1>3. CASE Filters
    BY <1>3 DEF Filters, NotGrabbed, PatchGrabbed, Patch, Skip, pluginVars
  <1>4. ASSUME NEW found \in BOOLEAN, Symbols(found) PROVE IInvP'
    BY <1>4 DEF Symbols, At, Go, Fail, InitReturns, vars
  <1>5. CASE LookAt
    BY <1>5 DEF LookAt, At, Go, vars
  <1>6. CASE NoChip
    BY <1>6 DEF NoChip, At, Fail, InitReturns
  <1>7. ASSUME NEW found \in BOOLEAN, FindHandler(found) PROVE IInvP'
    BY <1>7 DEF FindHandler, At, Go, vars
  <1>8. ASSUME NEW success \in BOOLEAN, Hook(success) PROVE IInvP'
    BY <1>8 DEF Hook, At, Go, Fail, InitReturns, vars
  <1>9. CASE Register
    BY <1>9 DEF Register, At, InitReturns
  <1>10. CASE ResetFilters
    BY <1>10 DEF ResetFilters, Rmmod, CleanupReturns, Reset, pluginVars
  <1>11. CASE Unhook
    BY <1>11 DEF Unhook, vars
  <1>12. CASE Unload \/ FakeTouch \/ Served
    BY <1>12 DEF Unload, FreeModule, FakeTouch, Served, vars, pluginVars
  <1>13. CASE Others
    BY <1>13 DEF Others, OpenClose, Test, Call, Return, pluginVars
  <1>14. CASE UNCHANGED allVars
    BY <1>14 DEF allVars, vars, pluginVars
  <1>15. QED
    BY <1>1, <1>2, <1>3, <1>4, <1>5, <1>6, <1>7, <1>8, <1>9, <1>10, <1>11, <1>12,
       <1>13, <1>14 DEF NextP, Process

LEMMA IInvPCorrect == SpecP => []IInvP
  BY IInvPInit, IInvPNext, PTL DEF SpecP

(* Whatever pin controllers there are, a fake touch raises the interrupt   *)
(* of the touchscreen's own pin (gpio-msm-pinctrl.c:139-156, 166-181).     *)
THEOREM OwnPinIsRaised == SpecP => []RaisesOwnPin
  <1>1. IInvP => RaisesOwnPin
    BY DEF IInvP
  <1>2. QED
    BY <1>1, IInvPCorrect, PTL

(* While the module is live, interrupts raised by fake touches go through  *)
(* the hook (plugin.c:240-255: data are stored after hook_interrupt).      *)
THEOREM FakesGoThroughHook == SpecP => []FakesAreHooked
  <1>1. IInvP => FakesAreHooked
    BY DEF IInvP, Calm, FakesAreHooked
  <1>2. QED
    BY <1>1, IInvPCorrect, PTL

-----------------------------------------------------------------------------
(* When init is over it has stored the plugin data or has failed.          *)
Answered == /\ phase \in {"live", "reset", "exited"} => data \/ result = "failed"
            /\ FaultNeedsFailure

LEMMA AnsweredNext == Answered /\ [NextP]_allVars => Answered'
  <1> SUFFICES ASSUME Answered, [NextP]_allVars PROVE Answered'
    OBVIOUS
  <1> USE DEF Answered, FaultNeedsFailure
  <1>1. CASE UNCHANGED allVars
    BY <1>1 DEF allVars, vars, pluginVars
  <1>2. CASE fault = "none" /\ Load
    BY <1>2 DEF Load, Insmod
  <1>3. ASSUME fault = "none",
               \E success \in BOOLEAN : \/ Device(success) \/ Symbols(success)
                                        \/ FindHandler(success) \/ Hook(success)
        PROVE  Answered'
    BY <1>3 DEF Device, FindDevice, Symbols, FindHandler, Hook, At, Go, Fail,
                InitReturns, vars
  <1>4. CASE fault = "none" /\ (LookAt \/ NoChip \/ Register)
    BY <1>4 DEF LookAt, NoChip, Register, At, Go, Fail, InitReturns, vars
  <1>5. CASE fault = "none" /\ (Filters \/ ResetFilters \/ Others)
    BY <1>5 DEF Filters, NotGrabbed, PatchGrabbed, Patch, Skip, ResetFilters,
                Rmmod, CleanupReturns, Reset, Others, OpenClose, Test, Call,
                Return, pluginVars
  <1>6. CASE fault = "none" /\ (Unhook \/ Unload \/ Served)
    BY <1>6 DEF Unhook, Unload, FreeModule, Served, vars, pluginVars
  <1>7. CASE FakeTouch
    BY <1>7 DEF FakeTouch, vars
  <1>8. QED
    BY <1>1, <1>2, <1>3, <1>4, <1>5, <1>6, <1>7 DEF NextP, Process

(* A fake touch finds the plugin data unless touchscreen_init has failed,  *)
(* and the handler unless it has not been looked up (plugin.c:236, 251).   *)
THEOREM FaultsAreFailures == SpecP => []FaultNeedsFailure
  <1>1. InitP => Answered
    BY DEF InitP, Init, Answered, FaultNeedsFailure
  <1>2. Answered => FaultNeedsFailure
    BY DEF Answered
  <1>3. QED
    BY <1>1, <1>2, AnsweredNext, PTL DEF SpecP
=============================================================================
