---------------------------- MODULE TouchPlugin ----------------------------
(***************************************************************************)
(* The touchscreen plugin from init to cleanup (plugins/touchscreen), with *)
(* what its init looks up, and fake touches that use it.  The patching of  *)
(* input handlers is TouchFilter; here are the steps of touchscreen_init   *)
(* after it, any of which may fail.  Nobody looks at what init returns:    *)
(* the timer goes on and injects with what there is.                       *)
(*                                                                         *)
(* Injection is what the timer does from the end of init on; a late touch  *)
(* may start the timer again during cleanup (see Lifecycle).               *)
(***************************************************************************)
EXTENDS Integers, TouchFilter

CONSTANT Chips  \* the number of entries of gpio_desc

ASSUME TouchPluginAssumption == Chips \in Nat

(* An entry of gpio_desc may be the pin controller that holds the pin of   *)
(* the touchscreen, another pin controller, or no pin controller.          *)
Kinds == {"pinctrl", "other_pinctrl", "other"}

VARIABLES
  chips,       \* the hardware: gpio_desc
  step,        \* where touchscreen_init is, after the filters
  chip,        \* the entry gpio_msm_interrupt_init looks at
  pctrl,       \* the entry whose controller it has taken, or 0
  pin_group,   \* the entry in whose controller it has found the pin, or 0
  irq_handler, \* the handler's address has been found
  hooked,      \* the line is hooked
  data,        \* plugin_touchscreen.data is set
  result,      \* what touchscreen_init has returned
  raised,      \* the registers and pins of interrupts raised by fake touches
  fault        \* what a fake touch has died of

pluginVars == <<chips, step, chip, pctrl, pin_group, irq_handler, hooked, data,
                result, raised, fault>>
allVars == <<vars, pluginVars>>

InitP == /\ Init
         /\ chips \in [1 .. Chips -> Kinds]
         /\ step = "filters" /\ chip = 1
         /\ pctrl = 0 /\ pin_group = 0
         /\ irq_handler = FALSE /\ hooked = FALSE /\ data = FALSE
         /\ result = "none"
         /\ raised = {}
         /\ fault = "none"

-----------------------------------------------------------------------------
(* The static data of the module are fresh.                                *)
Load == /\ Insmod
        /\ pctrl' = 0 /\ pin_group' = 0
        /\ irq_handler' = FALSE /\ data' = FALSE
        /\ result' = "none"
        /\ UNCHANGED <<chips, step, chip, hooked, raised, fault>>

Device(found) == /\ FindDevice(found)
                 /\ result' = IF found THEN result ELSE "failed"
                 /\ UNCHANGED <<chips, step, chip, pctrl, pin_group, irq_handler,
                                hooked, data, raised, fault>>

Filters == /\ NotGrabbed \/ \E h \in Handlers : PatchGrabbed(h) \/ Patch(h) \/ Skip(h)
           /\ UNCHANGED pluginVars

At(s) == phase = "init" /\ todo = {} /\ step = s

Fail == /\ InitReturns
        /\ result' = "failed"
        /\ step' = "filters"

Go(s) == /\ step' = s
         /\ UNCHANGED <<vars, result>>

(* gpio_msm_interrupt_init: two tables of the kernel.                      *)
Symbols(found) == /\ At("filters")
                  /\ IF found THEN Go("chips") ELSE Fail
                  /\ chip' = 1
                  /\ UNCHANGED <<chips, pctrl, pin_group, irq_handler, hooked,
                                 data, raised, fault>>

(* The controller is taken before it is known to hold the pin.             *)
LookAt == /\ At("chips") /\ chip \in 1 .. Chips
          /\ chip' = chip + 1
          /\ pctrl' = IF chips[chip] = "other" THEN pctrl ELSE chip
          /\ pin_group' = CASE chips[chip] = "pinctrl"       -> chip
                             [] chips[chip] = "other_pinctrl" -> 0
                             [] OTHER                         -> pin_group
          /\ Go(IF chips[chip] = "pinctrl" THEN "handler" ELSE "chips")
          /\ UNCHANGED <<chips, irq_handler, hooked, data, raised, fault>>

(* Mutant: gpio_msm_interrupt_init returns true in any case.               *)
NoChipIgnored == /\ At("chips") /\ chip > Chips
                 /\ Go("handler")
                 /\ UNCHANGED <<chips, chip, pctrl, pin_group, irq_handler,
                                hooked, data, raised, fault>>

NoChip == /\ At("chips") /\ chip > Chips
          /\ Fail
          /\ UNCHANGED <<chips, chip, pctrl, pin_group, irq_handler, hooked, data,
                         raised, fault>>

(* Without the handler's address init goes on.                             *)
FindHandler(found) == /\ At("handler")
                      /\ irq_handler' = found
                      /\ Go("hook")
                      /\ UNCHANGED <<chips, chip, pctrl, pin_group, hooked, data,
                                     raised, fault>>

(* Mutant: hook_interrupt's failure is ignored.                            *)
HookIgnored(success) == /\ At("hook")
                        /\ hooked' = success
                        /\ Go("data")
                        /\ UNCHANGED <<chips, chip, pctrl, pin_group, irq_handler,
                                       data, raised, fault>>

Hook(success) == /\ At("hook")
                 /\ hooked' = success
                 /\ IF success THEN Go("data") ELSE Fail
                 /\ UNCHANGED <<chips, chip, pctrl, pin_group, irq_handler, data,
                                raised, fault>>

(* The plugin data are stored and init is done.                            *)
Register == /\ At("data")
            /\ InitReturns
            /\ data' = TRUE
            /\ result' = "ok" /\ step' = "filters"
            /\ UNCHANGED <<chips, chip, pctrl, pin_group, irq_handler, hooked,
                           raised, fault>>

-----------------------------------------------------------------------------
(* touchscreen_cleanup: the filters, then the line.                        *)
ResetFilters == /\ \/ Rmmod \/ CleanupReturns
                   \/ \E entry \in saved : Reset(entry[1], entry[2])
                /\ UNCHANGED pluginVars

Unhook == /\ phase = "exited" /\ hooked
          /\ hooked' = FALSE
          /\ UNCHANGED <<vars, chips, step, chip, pctrl, pin_group, irq_handler,
                         data, result, raised, fault>>

(* The grace period also sees the end of interrupts that were raised.      *)
Unload == /\ ~hooked /\ raised = {}
          /\ FreeModule
          /\ UNCHANGED pluginVars

-----------------------------------------------------------------------------
(* touchscreen_inject reads the plugin data, raises the interrupt through  *)
(* the pin controller and reads the handler's code.                        *)
FakeTouch == /\ phase \in {"live", "reset", "exited"}
             /\ raised' = IF data THEN {<<pctrl, pin_group>>} ELSE raised
             /\ fault' = IF ~data THEN "data"
                         ELSE IF ~irq_handler THEN "prefetch" ELSE "none"
             /\ UNCHANGED <<vars, chips, step, chip, pctrl, pin_group, irq_handler,
                            hooked, data, result>>

(* The kernel handles the interrupt.                                       *)
Served == /\ raised # {}
          /\ raised' = {}
          /\ UNCHANGED <<vars, chips, step, chip, pctrl, pin_group, irq_handler,
                         hooked, data, result, fault>>

(* Programs and the input core.                                            *)
Others == /\ \/ \E h \in Handlers : OpenClose(h)
             \/ \E c \in CPUs : (\E h \in Handlers : Test(c, h)) \/ Call(c) \/ Return(c)
          /\ UNCHANGED pluginVars

Process == \/ Load \/ Filters \/ LookAt \/ NoChip \/ Register
           \/ ResetFilters \/ Unhook \/ Unload
           \/ \E success \in BOOLEAN : \/ Device(success) \/ Symbols(success)
                                       \/ FindHandler(success) \/ Hook(success)

(* Nothing happens after a fault in an interrupt.                          *)
NextP == fault = "none" /\ (Process \/ FakeTouch \/ Served \/ Others)

SpecP == InitP /\ [][NextP]_allVars

-----------------------------------------------------------------------------
(* A fake touch raises the interrupt of the touchscreen's own pin, through *)
(* the controller that has it: the pointers that the loop over gpio_desc   *)
(* leaves behind (gpio-msm-pinctrl.c:139-156) belong together.             *)
RaisesOwnPin == \A r \in raised : r[1] = r[2] /\ r[1] \in 1 .. Chips
                                   /\ chips[r[1]] = "pinctrl"

(* While the plugin is live, interrupts that no touch has caused reach the *)
(* kernel through the hook, which hides them from its count of unhandled   *)
(* ones (plugin.c:110, 240).  A late fake touch, after touchscreen_cleanup *)
(* has unhooked the line, is raised without it.                            *)
FakesAreHooked == phase = "live" /\ raised # {} => hooked

(* A fake touch dies only if touchscreen_init has failed, which plugin.c:22*)
(* ignores, or has not found the handler, which touchscreen/plugin.c:236   *)
(* ignores.                                                                *)
FaultNeedsFailure ==
  fault # "none" => result = "failed" \/ (fault = "prefetch" /\ ~irq_handler)
=============================================================================
