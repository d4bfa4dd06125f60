---------------------------- MODULE IrqHookProofs ----------------------------
(***************************************************************************)
(* Proofs about IrqHook for every set of CPUs.                             *)
(***************************************************************************)
EXTENDS IrqHook, TLAPS

NobodyInside == \A c \in CPUs : ~InModule(c)
NeverHooked  == handle_irq = "flow" /\ orig_irqs = None /\ NobodyInside

(* What the two words hold in each phase.                                  *)
WordsOfPhase ==
  /\ phase = "out"  => handle_irq = "flow" /\ NobodyInside
  /\ phase = "init" => NeverHooked
  /\ phase = "saved" => handle_irq = "flow" /\ orig_irqs = "flow" /\ NobodyInside
  /\ phase \in {"live", "exit"} =>
       NeverHooked \/ (handle_irq = "hook" /\ orig_irqs = "flow")
  /\ phase = "restored" => handle_irq = "flow" /\ orig_irqs = "flow"
  /\ phase = "exited"   => handle_irq = "flow"

(* A handler in the delay still has something to call.                     *)
HookHasTarget ==
  \A c \in CPUs : at[c] = "hook" => orig_irqs = "flow" \/ phase = "exited"

IInv == TypeOK /\ WordsOfPhase /\ HookHasTarget

LEMMA IInvInit == Init => IInv
  BY IrqHookAssumption
     DEF Init, IInv, TypeOK, WordsOfPhase, HookHasTarget, Phases, Places,
         NobodyInside, NeverHooked, InModule

LEMMA IInvNext == IInv /\ [Next]_vars => IInv'
  <1> SUFFICES ASSUME IInv, [Next]_vars PROVE IInv'
    OBVIOUS
  <1> USE IrqHookAssumption
      DEF IInv, TypeOK, WordsOfPhase, HookHasTarget, Phases, Places,
          NobodyInside, NeverHooked, InModule
  <1>1. CASE Insmod \/ InitFails
    BY <1>1 DEF Insmod, InitFails
  <1>2. CASE SaveOriginal \/ InstallHook
    BY <1>2 DEF SaveOriginal, InstallHook
  <1>3. CASE Rmmod \/ NotHooked
    BY <1>3 DEF Rmmod, NotHooked
  <1>4. CASE RestoreOriginal \/ ForgetOriginal
    BY <1>4 DEF RestoreOriginal, ForgetOriginal
  <1>5. CASE FreeModule
    BY <1>5 DEF FreeModule
  <1>6. ASSUME NEW c \in CPUs, Interrupt(c) PROVE IInv'
    BY <1>6 DEF Interrupt
  <1>7. ASSUME NEW c \in CPUs, CallOriginal(c) PROVE IInv'
    BY <1>7 DEF CallOriginal
  <1>8. ASSUME NEW c \in CPUs, Return(c) PROVE IInv'
    BY <1>8 DEF Return
  <1>9. CASE UNCHANGED vars
    BY <1>9 DEF vars
  <1>10. QED
    BY <1>1, <1>2, <1>3, <1>4, <1>5, <1>6, <1>7, <1>8, <1>9 DEF Next, Process

THEOREM IInvCorrect == Spec => []IInv
  BY IInvInit, IInvNext, PTL DEF Spec

(* Every variable keeps to its type: no sequence of insmods, failing       *)
(* inits, interrupts and rmmods puts anything else into the two words.     *)
THEOREM TypeCorrect == Spec => []TypeOK
  <1>1. IInv => TypeOK
    BY DEF IInv
  <1>2. QED
    BY <1>1, IInvCorrect, PTL

(* An installed hook always knows the kernel's handler (hook.c:20-21,      *)
(* 41-42): saved before the hook is installed, forgotten after it is gone. *)
THEOREM HookKnowsOriginal == Spec => []HookedHasOriginal
  <1>1. IInv => HookedHasOriginal
    BY DEF IInv, TypeOK, WordsOfPhase, Phases, NeverHooked, HookedHasOriginal
  <1>2. QED
    BY <1>1, IInvCorrect, PTL

(* Nothing of the module is reachable once it is freed (hook.c:41).        *)
THEOREM FreedIsUnreachable == Spec => []NothingLeftBehind
  <1>1. IInv => NothingLeftBehind
    BY DEF IInv, WordsOfPhase, NobodyInside, NothingLeftBehind
  <1>2. QED
    BY <1>1, IInvCorrect, PTL

(* Only rmmod can make the hook call a null pointer (hook.c:42).           *)
THEOREM NullNeedsUnhook == Spec => NullOnlyAfterUnhook
  <1> DEFINE A == \A c \in CPUs :
                    at[c] # "null" /\ at'[c] = "null" => phase = "exited"
  <1>1. IInv /\ [Next]_vars => [A]_vars
    <2> SUFFICES ASSUME IInv, Next PROVE A
      OBVIOUS
    <2> USE DEF IInv, TypeOK, HookHasTarget
    <2>1. ASSUME NEW c \in CPUs, CallOriginal(c) PROVE A
      BY <2>1 DEF CallOriginal
    <2>2. ASSUME NEW c \in CPUs, Interrupt(c) \/ Return(c) PROVE A
      BY <2>2 DEF Interrupt, Return
    <2>3. CASE UNCHANGED at
      BY <2>3
    <2>4. QED
      BY <2>1, <2>2, <2>3
         DEF Next, Process, Insmod, InitFails, SaveOriginal, InstallHook, Rmmod,
             NotHooked, RestoreOriginal, ForgetOriginal, FreeModule
  <1>2. QED
    BY <1>1, IInvCorrect, PTL DEF Spec, NullOnlyAfterUnhook

-----------------------------------------------------------------------------
(* A handler in its delay has something to call until rmmod overtakes it.  *)
HasTarget == \A c \in CPUs : at[c] = "hook" => orig_irqs = "flow"
Strong == ExecutesOriginal /\ HasTarget

LEMMA StrongNext == IInv /\ Strong /\ [Next]_vars /\ ~Overtakes => Strong'
  <1> SUFFICES ASSUME IInv, Strong, [Next]_vars, ~Overtakes PROVE Strong'
    OBVIOUS
  <1> USE DEF IInv, TypeOK, Strong, ExecutesOriginal, HasTarget
  <1>1. CASE Insmod \/ SaveOriginal
    BY <1>1 DEF Insmod, SaveOriginal, WordsOfPhase, NeverHooked, NobodyInside,
                InModule
  <1>2. CASE ForgetOriginal
    BY <1>2 DEF ForgetOriginal, Overtakes
  <1>3. CASE InitFails \/ InstallHook \/ Rmmod \/ NotHooked \/ RestoreOriginal
             \/ FreeModule
    BY <1>3 DEF InitFails, InstallHook, Rmmod, NotHooked, RestoreOriginal,
                FreeModule
  <1>4. ASSUME NEW c \in CPUs, Interrupt(c) PROVE Strong'
    BY <1>4, IrqHookAssumption DEF Interrupt, WordsOfPhase, Phases, NeverHooked
  <1>5. ASSUME NEW c \in CPUs, CallOriginal(c) \/ Return(c) PROVE Strong'
    BY <1>5 DEF CallOriginal, Return
  <1>6. CASE UNCHANGED vars
    BY <1>6 DEF vars
  <1>7. QED
    BY <1>1, <1>2, <1>3, <1>4, <1>5, <1>6 DEF Next, Process

LEMMA StrongInit == Init => Strong
  BY DEF Init, Strong, ExecutesOriginal, HasTarget

(* On any number of CPUs every hooked interrupt reaches the original       *)
(* handler, through reloads and failing inits, unless hook.c:42 overtakes  *)
(* one in its delay: waiting there, between lines 41 and 42, would do.     *)
THEOREM ExecutesOriginalUnlessOvertaken == Spec /\ NoneOvertaken => []ExecutesOriginal
  <1>1. IInv /\ Strong /\ [Next]_vars /\ [~Overtakes]_vars => Strong'
    <2> SUFFICES ASSUME IInv, Strong, [Next]_vars, UNCHANGED vars PROVE Strong'
      BY StrongNext
    <2>1. QED
      BY DEF Strong, ExecutesOriginal, HasTarget, vars
  <1>2. Strong => ExecutesOriginal
    BY DEF Strong
  <1>3. QED
    BY <1>1, <1>2, StrongInit, IInvCorrect, PTL DEF Spec, NoneOvertaken

(* On one CPU it cannot: the process that runs rmmod has the CPU only when *)
(* the handler has returned.                                               *)
THEOREM ExecutesOriginalOnOneCPU ==
  ASSUME \A c, d \in CPUs : c = d
  PROVE  Spec => []ExecutesOriginal
  <1>1. Next => ~Overtakes
    <2> SUFFICES ASSUME Next, phase = "restored", phase' = "exited"
                 PROVE  \A c \in CPUs : at[c] # "hook"
      BY DEF Overtakes
    <2>1. ProcessStep
      BY DEF Next, Process, Insmod, InitFails, SaveOriginal, InstallHook, Rmmod,
             NotHooked, RestoreOriginal, ForgetOriginal, FreeModule, Interrupt,
             CallOriginal, Return
    <2>2. QED
      BY <2>1 DEF ProcessStep
  <1>2. [Next]_vars => [~Overtakes]_vars
    BY <1>1
  <1>3. QED
    BY <1>2, ExecutesOriginalUnlessOvertaken, PTL DEF Spec, NoneOvertaken
=============================================================================
