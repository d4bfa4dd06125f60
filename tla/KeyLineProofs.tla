--------------------------- MODULE KeyLineProofs ---------------------------
(***************************************************************************)
(* Proofs about KeyLine for any number of CPUs, every window and limit of  *)
(* the kernel's detector and every number a line may be hooked with.       *)
(***************************************************************************)
EXTENDS KeyLine, TLAPS

LEMMA TypeInit == Init => TypeOK
  BY KeyLineAssumption DEF Init, TypeOK

LEMMA TypeNext == TypeOK /\ [Next]_vars => TypeOK'
  <1> SUFFICES ASSUME TypeOK, [Next]_vars PROVE TypeOK'
    OBVIOUS
  <1> USE KeyLineAssumption DEF TypeOK, inject, hook, line
  <1>1. ASSUME NEW c \in CPUs, Inject(c) \/ RealKey(c) PROVE TypeOK'
    BY <1>1 DEF Inject, RealKey, Enter
  <1>2. ASSUME NEW d \in CPUs, Call(d) PROVE TypeOK'
    BY <1>2 DEF Call, Enter
  <1>3. CASE InjectReturns
    BY <1>3 DEF InjectReturns
  <1>4. ASSUME NEW c \in CPUs, NEW d \in CPUs, Called(d, c) PROVE TypeOK'
    BY <1>4 DEF Called, Enter
  <1>5. ASSUME NEW c \in CPUs, Flow(c) \/ FlowEnds(c) \/ Restore(c) PROVE TypeOK'
    BY <1>5 DEF Flow, FlowEnds, Restore
  <1>6. ASSUME NEW c \in CPUs, NEW number \in Counted, Driver(c, number)
        PROVE  TypeOK'
    <2>1. number \in Nat
      BY DEF Counted
    <2>2. QED
      BY <1>6, <2>1 DEF Driver
  <1>7. CASE MoveLine \/ UNCHANGED vars
    BY <1>7 DEF MoveLine, vars
  <1>8. QED
    BY <1>1, <1>2, <1>3, <1>4, <1>5, <1>6, <1>7 DEF Next, InjectStep, HookStep

-----------------------------------------------------------------------------
(* The lock of the line, which the flow handler drops around the driver,   *)
(* leaves one CPU with it, as long as it is in progress; a line that has   *)
(* been switched off is not driven any more.                               *)
InDriver(c) == pc[c] \in {"driver", "driven"}
OneDriver ==
  /\ \A c, d \in CPUs : InDriver(c) /\ InDriver(d) => c = d
  /\ inprogress = "yes" <=> \E c \in CPUs : InDriver(c)
  /\ disabled = "yes" => \A c \in CPUs : pc[c] # "driver"
ServedInv == TypeOK /\ OneDriver /\ KeyIsServed

LEMMA ServedNext == ServedInv /\ [Next]_vars => OneDriver' /\ KeyIsServed'
  <1> SUFFICES ASSUME ServedInv, [Next]_vars PROVE OneDriver' /\ KeyIsServed'
    OBVIOUS
  <1> USE DEF ServedInv, TypeOK, OneDriver, InDriver, KeyIsServed, inject, hook, line
  <1>1. ASSUME NEW c \in CPUs, Inject(c) PROVE OneDriver' /\ KeyIsServed'
    BY <1>1 DEF Inject
  (* An interrupt is raised on a CPU that is not in the hook, so neither   *)
  (* the driver nor a key is taken away from the one that has it.          *)
  <1>2. ASSUME NEW d \in CPUs, pc[d] = "out", Enter(d),
               UNCHANGED <<inprogress, pending, disabled>>
        PROVE  OneDriver' /\ (byte' = byte => KeyIsServed')
    <2>1. /\ pc'[d] = "delay"
          /\ \A e \in CPUs : e # d => pc'[e] = pc[e]
      BY <1>2 DEF Enter
    <2>2. OneDriver'
      BY <1>2, <2>1
    <2>3. ASSUME byte' = byte, (byte = "waits" /\ disabled = "no")'
          PROVE  KeyIsServed'
      BY <1>2, <2>1, <2>3
    <2>4. QED
      BY <2>2, <2>3
  <1>3. ASSUME NEW c \in CPUs, RealKey(c) PROVE OneDriver' /\ KeyIsServed'
    <2>1. pc'[c] = "delay"
      BY <1>3 DEF RealKey, Enter
    <2>2. QED
      BY <1>2, <1>3, <2>1 DEF RealKey, Quiet
  <1>4. ASSUME NEW d \in CPUs, Call(d) PROVE OneDriver' /\ KeyIsServed'
    BY <1>2, <1>4 DEF Call
  <1>5. CASE InjectReturns
    BY <1>5 DEF InjectReturns
  <1>6. ASSUME NEW c \in CPUs, NEW d \in CPUs, Called(d, c)
        PROVE  OneDriver' /\ KeyIsServed'
    BY <1>2, <1>6 DEF Called, Quiet
  (* It goes to the driver itself, or the one that has it finds its note.  *)
  <1>7. ASSUME NEW c \in CPUs, Flow(c) PROVE OneDriver' /\ KeyIsServed'
    BY <1>7 DEF Flow
  <1>8. ASSUME NEW c \in CPUs, NEW number \in Counted, Driver(c, number)
        PROVE  OneDriver' /\ KeyIsServed'
    BY <1>8 DEF Driver
  <1>9. ASSUME NEW c \in CPUs, FlowEnds(c) PROVE OneDriver' /\ KeyIsServed'
    BY <1>9 DEF FlowEnds
  <1>10. ASSUME NEW c \in CPUs, Restore(c) PROVE OneDriver' /\ KeyIsServed'
    BY <1>10 DEF Restore
  <1>11. CASE MoveLine \/ UNCHANGED vars
    BY <1>11 DEF MoveLine, vars
  <1>12. QED
    BY <1>1, <1>3, <1>4, <1>5, <1>6, <1>7, <1>8, <1>9, <1>10, <1>11
       DEF Next, InjectStep, HookStep

LEMMA ServedCorrect == Spec => []ServedInv
  <1>1. Init => ServedInv
    BY TypeInit DEF Init, ServedInv, OneDriver, InDriver, KeyIsServed
  <1>2. ServedInv /\ [Next]_vars => ServedInv'
    BY TypeNext, ServedNext DEF ServedInv
  <1>3. QED
    BY <1>1, <1>2, PTL DEF Spec

(* On any number of CPUs, whatever the affinities of the line and of the   *)
(* injection, and whatever the detector counts: no key is left in the      *)
(* controller by hooks and injections that meet, unless the line is        *)
(* switched off (keyboard/plugin.c:46-51).                                 *)
THEOREM KeysAreServed == Spec => []KeyIsServed
  <1>1. ServedInv => KeyIsServed
    BY DEF ServedInv
  <1>2. QED
    BY <1>1, ServedCorrect, PTL

-----------------------------------------------------------------------------
(* As long as two hooks do not meet, nobody leaves a note, and the number  *)
(* with which the line was hooked is in irqs_unhandled until the driver    *)
(* answers, and in the hook from its entry to its end.                     *)
Kept ==
  /\ pending = "no"
  /\ disabled = "no"
  /\ \A c \in CPUs : pc[c] # "out" => unhandled[c] \in Start
  /\ (\A c \in CPUs : pc[c] \in {"out", "delay", "driver"}) => irqs_unhandled \in Start

LEMMA KeptNext ==
  TypeOK /\ OneDriver /\ HooksApart /\ HooksApart' /\ Kept /\ [Next]_vars => Kept'
  <1> SUFFICES ASSUME TypeOK, OneDriver, HooksApart, HooksApart', Kept, [Next]_vars
               PROVE  Kept'
    OBVIOUS
  <1> USE KeyLineAssumption DEF TypeOK, HooksApart, Kept, inject, hook, line
  (* A hook is entered only when no other one runs.                        *)
  <1>1. ASSUME NEW d \in CPUs, pc[d] = "out", Enter(d),
               UNCHANGED <<pending, disabled, irqs_unhandled>>
        PROVE  Kept'
    <2>1. /\ pc' = [pc EXCEPT ![d] = "delay"]
          /\ unhandled' = [unhandled EXCEPT ![d] = irqs_unhandled]
      BY <1>1 DEF Enter
    <2>2. \A c \in CPUs : pc[c] = "out"
      BY <1>1, <2>1
    <2>3. irqs_unhandled \in Start
      BY <2>2
    <2>4. QED
      BY <1>1, <2>1, <2>2, <2>3
  <1>2. ASSUME NEW c \in CPUs, Inject(c) PROVE Kept'
    BY <1>2 DEF Inject
  <1>3. ASSUME NEW c \in CPUs, RealKey(c) PROVE Kept'
    BY <1>1, <1>3 DEF RealKey, Quiet
  <1>4. ASSUME NEW d \in CPUs, Call(d) PROVE Kept'
    <2>1. CASE d = injector
      BY <1>1, <1>4, <2>1 DEF Call
    <2>2. CASE d # injector
      BY <1>4, <2>2 DEF Call
    <2>3. QED
      BY <2>1, <2>2
  <1>5. CASE InjectReturns
    BY <1>5 DEF InjectReturns
  <1>6. ASSUME NEW c \in CPUs, NEW d \in CPUs, Called(d, c) PROVE Kept'
    BY <1>1, <1>6 DEF Called, Quiet
  (* It finds the line not in progress: nobody else is in the hook.        *)
  <1>7. ASSUME NEW c \in CPUs, Flow(c) PROVE Kept'
    <2>1. inprogress # "yes"
      BY <1>7 DEF Flow, OneDriver, InDriver
    <2>2. pc' = [pc EXCEPT ![c] = "driver"] /\ pending' = "no"
      BY <1>7, <2>1 DEF Flow
    <2>3. QED
      BY <1>7, <2>2 DEF Flow
  <1>8. ASSUME NEW c \in CPUs, NEW number \in Counted, Driver(c, number)
        PROVE  Kept'
    <2>1. pc[c] = "driver" /\ pc' = [pc EXCEPT ![c] = "driven"]
      BY <1>8 DEF Driver
    <2>2. \A d \in CPUs : pc[d] \in {"out", "delay", "driver"}
      BY <2>1
    <2>3. number <= Limit
      BY <2>2 DEF Counted
    <2>4. disabled' = "no"
      BY <1>8, <2>3 DEF Driver, Counted
    <2>5. QED
      BY <1>8, <2>1, <2>4 DEF Driver
  <1>9. ASSUME NEW c \in CPUs, FlowEnds(c) PROVE Kept'
    BY <1>9 DEF FlowEnds
  <1>10. ASSUME NEW c \in CPUs, Restore(c) PROVE Kept'
    BY <1>10 DEF Restore
  <1>11. CASE MoveLine \/ UNCHANGED vars
    BY <1>11 DEF MoveLine, vars
  <1>12. QED
    BY <1>2, <1>3, <1>4, <1>5, <1>6, <1>7, <1>8, <1>9, <1>10, <1>11
       DEF Next, InjectStep, HookStep

(* On any number of CPUs, whatever the affinities: as long as two hooks do *)
(* not meet, no number of fake keys leaves a trace in the kernel's         *)
(* detector (keyboard/plugin.c:47-50).  So it is hooks that overlap, and   *)
(* nothing else, that may switch the keyboard off.                         *)
THEOREM ApartLeavesNoTrace == Spec => ([]HooksApart => []NoTrace)
  <1>1. Init => Kept
    BY DEF Init, Kept
  <1>2. ServedInv => TypeOK /\ OneDriver
    BY DEF ServedInv
  <1>3. Kept => NoTrace
    BY DEF Kept, NoTrace, NoHook
  <1>4. QED
    BY <1>1, <1>2, <1>3, ServedCorrect, KeptNext, PTL DEF Spec

-----------------------------------------------------------------------------
(* As long as real and fake keys interrupt the same CPU, no other one is   *)
(* ever called or in the hook.                                             *)
AloneOn(c) ==
  /\ todo \subseteq {c}
  /\ \A d \in CPUs : csd[d] \in {c, NoCpu}
  /\ \A d \in CPUs : pc[d] # "out" => d = c
Alone == \A c \in CPUs : kb_affinity = {c} => AloneOn(c)

LEMMA AffinityNext == [Next]_vars => UNCHANGED kb_affinity
  BY DEF Next, InjectStep, HookStep, Inject, RealKey, Call, InjectReturns, Called,
         Flow, FlowEnds, Restore, Driver, MoveLine, vars

LEMMA AloneNext == TypeOK /\ OnOneCPU /\ Alone /\ [Next]_vars => Alone'
  <1> SUFFICES ASSUME TypeOK, OnOneCPU, Alone, [Next]_vars,
                      NEW c \in CPUs, kb_affinity' = {c}
               PROVE  AloneOn(c)'
    BY DEF Alone
  <1>1. affinity = {c} /\ kb_affinity = {c} /\ AloneOn(c)
    BY AffinityNext DEF OnOneCPU, Alone
  <1> USE KeyLineAssumption, <1>1 DEF TypeOK, AloneOn, inject, hook
  <1>2. ASSUME NEW d \in CPUs, Inject(d) PROVE AloneOn(c)'
    BY <1>2 DEF Inject
  <1>3. ASSUME NEW d \in CPUs, RealKey(d) PROVE AloneOn(c)'
    BY <1>3 DEF RealKey, Enter
  <1>4. ASSUME NEW d \in CPUs, Call(d) PROVE AloneOn(c)'
    BY <1>4 DEF Call, Enter
  <1>5. CASE InjectReturns
    BY <1>5 DEF InjectReturns
  <1>6. ASSUME NEW d \in CPUs, NEW e \in CPUs, Called(d, e) PROVE AloneOn(c)'
    BY <1>6 DEF Called, Enter
  <1>7. ASSUME NEW d \in CPUs, HookStep(d) PROVE AloneOn(c)'
    BY <1>7 DEF HookStep, Flow, FlowEnds, Restore, Driver
  <1>8. CASE MoveLine \/ UNCHANGED vars
    BY <1>8 DEF MoveLine, vars
  <1>9. QED
    BY <1>2, <1>3, <1>4, <1>5, <1>6, <1>7, <1>8 DEF Next, InjectStep

(* As long as one CPU serves the line it is not switched off, and its      *)
(* number is the one with which it was hooked whenever no hook runs, on    *)
(* whichever CPUs the injections start (keyboard/plugin.c:47-50).          *)
THEOREM LineIsKept == Spec => OneCPULeavesNoTrace
  <1>1. Init => Alone
    BY KeyLineAssumption DEF Init, Alone, AloneOn
  <1>2. Alone /\ OnOneCPU => HooksApart
    BY DEF Alone, AloneOn, OnOneCPU, HooksApart
  <1>3. ServedInv => TypeOK
    BY DEF ServedInv
  <1>4. QED
    BY <1>1, <1>2, <1>3, AloneNext, ServedCorrect, ApartLeavesNoTrace, PTL
       DEF Spec, OneCPULeavesNoTrace
=============================================================================
