------------------------------ MODULE IrqHook ------------------------------
(***************************************************************************)
(* The interrupt hook (source/hook.c) over the life of the module: how the *)
(* flow handler of the hooked line is replaced at insmod and put back at   *)
(* rmmod, while interrupts of the line are being handled on any CPU.       *)
(*                                                                         *)
(* The two stores of hook_interrupt and of unhook_interrupt are steps of   *)
(* their own, seen by the other CPUs in program order (x86).  Nothing in   *)
(* hook.c takes desc->lock, so the handler of plugins/keyboard/plugin.c    *)
(* may be anywhere between them, most likely in its random udelay.         *)
(***************************************************************************)
CONSTANTS CPUs,   \* the CPUs that take the interrupt
          None    \* the null pointer

ASSUME IrqHookAssumption == CPUs # {} /\ None \notin {"flow", "hook"}

VARIABLES
  phase,       \* where insmod or rmmod is
  handle_irq,  \* desc->handle_irq of the line
  orig_irqs,   \* the module's copy of the original handler of the line
  at           \* what each CPU does on behalf of the line

vars == <<phase, handle_irq, orig_irqs, at>>

Phases == {"out", "init", "saved", "live", "exit", "restored", "exited"}

(* "hook": in the delay of kb_hook_handler; "flow_in_hook": in the handler *)
(* it has called; "null": a call through a null pointer, the CPU is lost.  *)
(* (The saved handler is never the hook itself: HookedHasOriginal.)        *)
Places == {"idle", "flow", "hook", "flow_in_hook", "null"}
InModule(c) == at[c] \in {"hook", "flow_in_hook"}

Init == /\ phase = "out"
        /\ handle_irq = "flow"
        /\ orig_irqs = None
        /\ at = [c \in CPUs |-> "idle"]

(* insmod and rmmod are a process: it needs a CPU no interrupt holds.      *)
ProcessStep == \E c \in CPUs : at[c] = "idle"

-----------------------------------------------------------------------------
(* The module is loaded: its static data, orig_irqs among it, is zero.     *)
Insmod == /\ phase = "out" /\ ProcessStep
          /\ phase' = "init"
          /\ orig_irqs' = None
          /\ UNCHANGED <<handle_irq, at>>

(* keyboard_init gives up before hook_interrupt, or hook_interrupt finds   *)
(* no descriptor; plugin_init ignores it, the module stays.                *)
InitFails == /\ phase = "init" /\ ProcessStep
             /\ phase' = "live"
             /\ UNCHANGED <<handle_irq, orig_irqs, at>>

(* Mutant: the hook is installed before the original is saved.             *)
InstallFirst == /\ phase = "init" /\ ProcessStep
                /\ orig_irqs = None
                /\ handle_irq' = "hook"
                /\ phase' = "saved"
                /\ UNCHANGED <<orig_irqs, at>>

(* hook_interrupt: a line that is hooked already is refused.               *)
SaveOriginal == /\ phase = "init" /\ ProcessStep
                /\ orig_irqs = None
                /\ orig_irqs' = handle_irq
                /\ phase' = "saved"
                /\ UNCHANGED <<handle_irq, at>>

InstallHook == /\ phase = "saved" /\ ProcessStep
               /\ handle_irq' = "hook"
               /\ phase' = "live"
               /\ UNCHANGED <<orig_irqs, at>>

Rmmod == /\ phase = "live" /\ ProcessStep
         /\ phase' = "exit"
         /\ UNCHANGED <<handle_irq, orig_irqs, at>>

(* unhook_interrupt of a line that was never hooked returns at once.       *)
NotHooked == /\ phase = "exit" /\ ProcessStep
             /\ orig_irqs = None
             /\ phase' = "exited"
             /\ UNCHANGED <<handle_irq, orig_irqs, at>>

(* Mutant: unhook_interrupt forgets the original before it is put back.    *)
RestoreForgets == /\ phase = "exit" /\ ProcessStep
                  /\ orig_irqs # None
                  /\ orig_irqs' = None
                  /\ phase' = "restored"
                  /\ UNCHANGED <<handle_irq, at>>

RestoreOriginal == /\ phase = "exit" /\ ProcessStep
                   /\ orig_irqs # None
                   /\ handle_irq' = orig_irqs
                   /\ phase' = "restored"
                   /\ UNCHANGED <<orig_irqs, at>>

ForgetOriginal == /\ phase = "restored" /\ ProcessStep
                  /\ orig_irqs' = None
                  /\ phase' = "exited"
                  /\ UNCHANGED <<handle_irq, at>>

(* The kernel frees the module after a grace period: every handler that    *)
(* runs its code has returned.                                             *)
FreeModule == /\ phase = "exited" /\ ProcessStep
              /\ \A c \in CPUs : ~InModule(c)
              /\ phase' = "out"
              /\ UNCHANGED <<handle_irq, orig_irqs, at>>

-----------------------------------------------------------------------------
(* The line fires, or a fake key is injected: the kernel calls whatever    *)
(* desc->handle_irq holds, on any CPU, also on several at a time.          *)
Interrupt(c) == /\ at[c] = "idle"
                /\ at' = [at EXCEPT ![c] = handle_irq]
                /\ UNCHANGED <<phase, handle_irq, orig_irqs>>

(* After the delay the handler, of either plugin, fetches the original and *)
(* calls it.                                                               *)
CallOriginal(c) == /\ at[c] = "hook"
                   /\ at' = [at EXCEPT ![c] = IF orig_irqs = "flow"
                                              THEN "flow_in_hook" ELSE "null"]
                   /\ UNCHANGED <<phase, handle_irq, orig_irqs>>

Return(c) == /\ at[c] \in {"flow", "flow_in_hook"}
             /\ at' = [at EXCEPT ![c] = "idle"]
             /\ UNCHANGED <<phase, handle_irq, orig_irqs>>

-----------------------------------------------------------------------------
Process == \/ Insmod \/ InitFails \/ SaveOriginal \/ InstallHook
           \/ Rmmod \/ NotHooked \/ RestoreOriginal \/ ForgetOriginal
           \/ FreeModule

Next == Process \/ \E c \in CPUs : Interrupt(c) \/ CallOriginal(c) \/ Return(c)

Spec == Init /\ [][Next]_vars

-----------------------------------------------------------------------------
TypeOK == /\ phase \in Phases
          /\ handle_irq \in {"flow", "hook"}
          /\ orig_irqs \in {"flow", "hook", None}
          /\ at \in [CPUs -> Places]

(* Whenever the hook is installed, what it is to call is known and is the  *)
(* kernel's handler, never the hook itself (hook.c:16-21, 41-42).          *)
HookedHasOriginal == handle_irq = "hook" => orig_irqs = "flow"

(* No code of the module is reachable once it is freed (hook.c:41): the    *)
(* line is back at the kernel's handler, and nobody is in the hook.        *)
NothingLeftBehind ==
  phase = "out" => handle_irq = "flow" /\ \A c \in CPUs : ~InModule(c)

(* The only way to call a null handler is to be overtaken by rmmod: the    *)
(* call happens after hook.c:42 has cleared the saved handler.             *)
NullOnlyAfterUnhook ==
  [][\A c \in CPUs : at[c] # "null" /\ at'[c] = "null" => phase = "exited"]_vars

(* What unhook_interrupt does not see to: that no handler is still in its  *)
(* delay when hook.c:42 clears the handler it is going to call.            *)
Overtakes == /\ phase = "restored" /\ phase' = "exited"
             /\ \E c \in CPUs : at[c] = "hook"
NoneOvertaken == [][~Overtakes]_vars

(* touchscreen/plugin.c:98 "Execute original IRQ handler": the hook does   *)
(* execute it, at all times.  This holds on one CPU only.                  *)
ExecutesOriginal == \A c \in CPUs : at[c] # "null"
=============================================================================
