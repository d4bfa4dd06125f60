------------------------------ MODULE KeyLine ------------------------------
(***************************************************************************)
(* The hooked interrupt line of the keyboard on several CPUs.  A fake key  *)
(* (keyboard_inject) asks every CPU of the line's affinity to raise the    *)
(* line's interrupt, by a function call across CPUs; real keys raise it    *)
(* too; the hook (kb_hook_handler) may be on all CPUs at a time.           *)
(*                                                                         *)
(* A fake key finds no byte: the driver answers IRQ_NONE, and the kernel   *)
(* switches off for good a line most of whose interrupts are answered so.  *)
(* The hook saves desc->irqs_unhandled before the original handler and     *)
(* puts it back after it, without a lock.                                  *)
(*                                                                         *)
(* The affinity of the line is read once, when the keyboard is set up; the *)
(* user or irqbalance may move the line at any time after that.            *)
(***************************************************************************)
EXTENDS Integers

CONSTANTS CPUs,
          NoCpu,
          Window,  \* interrupts between two verdicts: 100000 in the kernel
          Limit,   \* unhandled ones a line may have at a verdict: 99900
          Start    \* unhandled ones it may have when it is hooked

ASSUME KeyLineAssumption == /\ NoCpu \notin CPUs
                            /\ Window \in Nat \ {0}
                            /\ Limit \in Nat
                            /\ Start \subseteq 0 .. Limit - 1

VARIABLES
  affinity,        \* the CPUs the keyboard interrupts
  kb_affinity,     \* the CPUs keyboard_inject interrupts
  injector,        \* the CPU in keyboard_inject
  todo,            \* the CPUs its loop has still to call
  csd,             \* the CPU that the pending call of a CPU is for
  pc,              \* where each CPU is in kb_hook_handler
  unhandled,       \* its local variable there
  byte,            \* the keyboard controller: "waits" until the driver reads it
  inprogress,      \* IRQD_IRQ_INPROGRESS: a CPU runs the driver
  pending,         \* IRQS_PENDING: it is to run it once more
  irqs_unhandled,  \* desc->irqs_unhandled
  irq_count,       \* desc->irq_count
  disabled         \* the verdict: the line is switched off

inject == <<injector, todo, csd>>
hook   == <<pc, unhandled>>
line   == <<byte, inprogress, pending, irqs_unhandled, irq_count, disabled>>
vars   == <<affinity, kb_affinity, injector, todo, csd, pc, unhandled,
            byte, inprogress, pending, irqs_unhandled, irq_count, disabled>>

(* The line was healthy when it was hooked.  get_irq_affinity returns the  *)
(* affinity, or the one that is about to be set, or that of CPU 0.         *)
Init == /\ affinity \in SUBSET CPUs \ {{}}
        /\ kb_affinity \in SUBSET CPUs \ {{}}
        /\ injector = NoCpu
        /\ todo = {}
        /\ csd = [c \in CPUs |-> NoCpu]
        /\ pc  = [c \in CPUs |-> "out"]
        /\ unhandled = [c \in CPUs |-> 0]
        /\ byte = "none"
        /\ inprogress = "no" /\ pending = "no"
        /\ irqs_unhandled \in Start
        /\ irq_count \in 0 .. Window - 1
        /\ disabled = "no"

(* Interrupts are enabled on c.                                            *)
Quiet(c) == pc[c] = "out" /\ injector # c

(* Mutant: the original handler is not called.                             *)
EnterOnly(c) == /\ pc' = [pc EXCEPT ![c] = "restore"]
                /\ unhandled' = [unhandled EXCEPT ![c] = irqs_unhandled]

(* The hook is entered: the number is saved, and the delay begins.         *)
Enter(c) == /\ pc' = [pc EXCEPT ![c] = "delay"]
            /\ unhandled' = [unhandled EXCEPT ![c] = irqs_unhandled]

-----------------------------------------------------------------------------
(* timer_function injects; its calls never overlap (module Timer).         *)
Inject(c) == /\ Quiet(c) /\ injector = NoCpu
             /\ injector' = c
             /\ todo' = kb_affinity
             /\ UNCHANGED <<affinity, kb_affinity, csd, hook, line>>

(* Mutant: the loop does not advance.                                      *)
CallAgain(d) ==
  /\ injector # NoCpu /\ d \in todo
  /\ pc[injector] = "out"
  /\ csd[injector] = NoCpu
  /\ IF d = injector
     THEN Enter(d) /\ UNCHANGED csd
     ELSE csd' = [csd EXCEPT ![injector] = d] /\ UNCHANGED hook
  /\ UNCHANGED <<affinity, kb_affinity, injector, todo, line>>

(* smp_call_function_single without wait: there is one request per calling *)
(* CPU, and the call spins until the one before has been taken.  Called    *)
(* for its own CPU, it raises the interrupt there and then.                *)
Call(d) ==
  /\ injector # NoCpu /\ d \in todo
  /\ pc[injector] = "out"
  /\ csd[injector] = NoCpu
  /\ todo' = todo \ {d}
  /\ IF d = injector
     THEN Enter(d) /\ UNCHANGED csd
     ELSE csd' = [csd EXCEPT ![injector] = d] /\ UNCHANGED hook
  /\ UNCHANGED <<affinity, kb_affinity, injector, line>>

(* Mutant: the loop is left at a CPU the line is not delivered to.         *)
InjectBreaks == /\ injector # NoCpu
                /\ pc[injector] = "out"
                /\ injector' = NoCpu
                /\ UNCHANGED <<affinity, kb_affinity, todo, csd, hook, line>>

InjectReturns == /\ injector # NoCpu /\ todo = {}
                 /\ pc[injector] = "out"
                 /\ injector' = NoCpu
                 /\ UNCHANGED <<affinity, kb_affinity, todo, csd, hook, line>>

(* inject_interrupt_wrapper on the called CPU: "int" enters the line's     *)
(* handler; the request is released before.                                *)
Called(d, c) == /\ csd[c] = d /\ Quiet(d)
                /\ csd' = [csd EXCEPT ![c] = NoCpu]
                /\ Enter(d)
                /\ UNCHANGED <<affinity, kb_affinity, injector, todo, line>>

(* The controller interrupts with one byte at a time.                      *)
RealKey(c) == /\ c \in affinity /\ Quiet(c)
              /\ byte = "none" /\ byte' = "waits"
              /\ Enter(c)
              /\ UNCHANGED <<affinity, kb_affinity, inject, inprogress,
                             pending, irqs_unhandled, irq_count, disabled>>

(* The line is moved; keyboard_inject goes on with the CPUs it was given.  *)
MoveLine == /\ affinity' \in SUBSET CPUs \ {{}}
            /\ UNCHANGED <<kb_affinity, inject, hook, line>>

-----------------------------------------------------------------------------
(* handle_edge_irq, under the lock of the line: one CPU runs the driver,   *)
(* the others leave a note for it.                                         *)
Flow(c) == /\ pc[c] = "delay"
           /\ IF inprogress = "yes" \/ disabled = "yes"
              THEN /\ pending' = "yes"
                   /\ pc' = [pc EXCEPT ![c] = "restore"]
                   /\ UNCHANGED inprogress
              ELSE /\ inprogress' = "yes" /\ pending' = "no"
                   /\ pc' = [pc EXCEPT ![c] = "driver"]
           /\ UNCHANGED <<affinity, kb_affinity, inject, unhandled, byte,
                          irqs_unhandled, irq_count, disabled>>

(* The driver reads the byte, if there is one, and note_interrupt counts   *)
(* its answer (starting over if the last unhandled one is long ago) and    *)
(* passes the verdict at the end of the window.  This is not under the     *)
(* lock.  Numbers above Limit are all alike: the model stops counting.     *)
Counted ==
  IF byte = "waits" THEN {irqs_unhandled}
  ELSE {1, IF irqs_unhandled > Limit THEN irqs_unhandled ELSE irqs_unhandled + 1}

Driver(c, number) ==
  /\ pc[c] = "driver"
  /\ pc' = [pc EXCEPT ![c] = "driven"]
  /\ byte' = "none"
  /\ IF irq_count + 1 < Window
     THEN /\ irq_count' = irq_count + 1
          /\ irqs_unhandled' = number
          /\ UNCHANGED disabled
     ELSE /\ irq_count' = 0
          /\ irqs_unhandled' = 0
          /\ disabled' = IF number > Limit THEN "yes" ELSE "no"
  /\ UNCHANGED <<affinity, kb_affinity, inject, unhandled, inprogress, pending>>

(* Under the lock again: somebody may have left a note.                    *)
FlowEnds(c) == /\ pc[c] = "driven"
               /\ IF pending = "yes" /\ disabled = "no"
                  THEN /\ pending' = "no"
                       /\ pc' = [pc EXCEPT ![c] = "driver"]
                       /\ UNCHANGED inprogress
                  ELSE /\ inprogress' = "no"
                       /\ pc' = [pc EXCEPT ![c] = "restore"]
                       /\ UNCHANGED pending
               /\ UNCHANGED <<affinity, kb_affinity, inject, unhandled, byte,
                              irqs_unhandled, irq_count, disabled>>

(* Mutant: the number is not put back.                                     *)
RestoreNothing(c) ==
  /\ pc[c] = "restore"
  /\ pc' = [pc EXCEPT ![c] = "out"]
  /\ unhandled' = [unhandled EXCEPT ![c] = 0]
  /\ UNCHANGED <<affinity, kb_affinity, inject, line>>

Restore(c) ==
  /\ pc[c] = "restore"
  /\ pc' = [pc EXCEPT ![c] = "out"]
  /\ irqs_unhandled' = unhandled[c]
  /\ unhandled' = [unhandled EXCEPT ![c] = 0]
  /\ UNCHANGED <<affinity, kb_affinity, inject, byte,
                 inprogress, pending, irq_count, disabled>>

-----------------------------------------------------------------------------
HookStep(c) == \/ Flow(c) \/ FlowEnds(c) \/ Restore(c)
               \/ \E number \in Counted : Driver(c, number)
InjectStep == InjectReturns \/ \E d \in CPUs : Call(d)
Next == \/ InjectStep
        \/ \E c \in CPUs : Inject(c) \/ RealKey(c) \/ HookStep(c)
        \/ \E c, d \in CPUs : Called(d, c)
        \/ MoveLine

(* Interrupt handlers run to their ends; a CPU that is called again and    *)
(* again finds interrupts enabled is called in the end.                    *)
Fairness == /\ WF_vars(InjectStep)
            /\ \A c \in CPUs : WF_vars(HookStep(c))
            /\ \A c, d \in CPUs : SF_vars(Called(d, c))

Spec     == Init /\ [][Next]_vars
FairSpec == Spec /\ Fairness

-----------------------------------------------------------------------------
TypeOK == /\ affinity \in SUBSET CPUs /\ kb_affinity \in SUBSET CPUs
          /\ injector \in CPUs \cup {NoCpu}
          /\ todo \in SUBSET CPUs
          /\ csd \in [CPUs -> CPUs \cup {NoCpu}]
          /\ pc \in [CPUs -> {"out", "delay", "driver", "driven", "restore"}]
          /\ unhandled \in [CPUs -> Nat]
          /\ byte \in {"none", "waits"}
          /\ inprogress \in {"yes", "no"} /\ pending \in {"yes", "no"}
          /\ irqs_unhandled \in Nat
          /\ irq_count \in 0 .. Window - 1
          /\ disabled \in {"yes", "no"}

(* Real and fake keys interrupt one CPU, the same.                         *)
OnOneCPU == \E c \in CPUs : affinity = {c} /\ kb_affinity = {c}

(* As long as one CPU serves the line, fake keys leave no trace in the     *)
(* kernel's detector (keyboard/plugin.c:47-50), however many there are,    *)
(* over however many windows: the keyboard is never switched off, and      *)
(* whenever no hook runs the number is the one with which the line was     *)
(* hooked.  A line that is moved away (plugin.c:103) loses that.           *)
NoHook == \A c \in CPUs : pc[c] = "out"
NoTrace == disabled = "no" /\ (NoHook => irqs_unhandled \in Start)
OneCPULeavesNoTrace == []OnOneCPU => []NoTrace

(* What the hook counts on: it is not on two CPUs at a time.               *)
HooksApart == \A c, d \in CPUs : pc[c] # "out" /\ pc[d] # "out" => c = d

(* README.md:197 "to see a uniform increase in all values": on any CPUs,   *)
(* the line keeps being served.  It does not: a hook that saves the number *)
(* while another CPU has counted and not yet restored puts back one more,  *)
(* and so on, until a verdict.                                             *)
StaysEnabled == disabled = "no"

(* From some time on no real key is pressed.                               *)
KeysStop == <>[][~ \E c \in CPUs : RealKey(c)]_vars

(* keyboard_inject always returns (keyboard/plugin.c:63-68): although it   *)
(* spins with interrupts disabled until other CPUs take its calls, no CPU  *)
(* waits for it in turn.                                                   *)
InjectionEnds == KeysStop => (injector # NoCpu ~> injector = NoCpu)

(* A key is read whoever runs the driver then, also when its interrupt     *)
(* meets a hook or an injection on another CPU (keyboard/plugin.c:46-51),  *)
(* or the line is moved under it: unless the line has been switched off,   *)
(* no key waits for ever.                                                  *)
KeysRead == byte = "waits" ~> byte = "none" \/ disabled = "yes"

(* The safe part of that, on any CPUs: a key in the controller, which      *)
(* interrupts only once, always has a CPU on its way to the driver, or one *)
(* that left it and will find a note (keyboard/plugin.c:46-51).            *)
KeyIsServed ==
  byte = "waits" /\ disabled = "no" =>
    \E c \in CPUs : \/ pc[c] \in {"delay", "driver"}
                    \/ pc[c] = "driven" /\ pending = "yes"

(* Each CPU that is called comes to raise the interrupt, also if the next  *)
(* call, or the next fake key, follows at once.                            *)
AllCalled == KeysStop => \A d \in CPUs :
               injector # NoCpu /\ d \in todo ~> pc[d] = "delay"
=============================================================================
