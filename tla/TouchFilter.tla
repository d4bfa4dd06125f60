---------------------------- MODULE TouchFilter ----------------------------
(***************************************************************************)
(* How the touchscreen plugin (plugins/touchscreen/plugin.c) puts itself   *)
(* between the touchscreen and the input handlers of the kernel: at init   *)
(* it overwrites the filter of every handler that has the device open and  *)
(* remembers the old one; at cleanup it writes the old ones back.  Events  *)
(* are dispatched on any CPU, and handlers open and close the device, in   *)
(* the meantime.                                                           *)
(*                                                                         *)
(* A handler has at most one handle on a device, so that handlers stand    *)
(* for handles here.  If one handler has grabbed the device, it is the     *)
(* only one to be visited at init.                                         *)
(***************************************************************************)
EXTENDS FiniteSets

CONSTANTS Handlers,  \* the input handlers attached to the touchscreen
          Filtering, \* those that come with a filter of their own
          CPUs

ASSUME TouchFilterAssumption == Filtering \subseteq Handlers

VARIABLES
  phase,   \* where insmod or rmmod is
  todo,    \* the handles modify_touchscreen_device has still to visit
  open,    \* the handlers that have the device open
  filter,  \* handler->filter
  saved,   \* input_handle_list: what to write back, and where
  at       \* the event dispatch of each CPU

vars == <<phase, todo, open, filter, saved, at>>

Original(h) == IF h \in Filtering THEN "own" ELSE "null"
Idle == [step |-> "idle"]
InModule(c) == at[c].step = "touchscreen_filter"

Init == /\ phase = "out"
        /\ todo = {}
        /\ open \in SUBSET Handlers
        /\ filter = [h \in Handlers |-> Original(h)]
        /\ saved = {}
        /\ at = [c \in CPUs |-> Idle]

-----------------------------------------------------------------------------
(* touchscreen_init: the list is empty.                                    *)
Insmod == /\ phase = "out"
          /\ phase' = "find"
          /\ saved' = {}
          /\ UNCHANGED <<todo, open, filter, at>>

(* find_touchscreen_device; without a device init has failed.              *)
FindDevice(found) == /\ phase = "find"
                     /\ phase' = IF found THEN "grab" ELSE "live"
                     /\ UNCHANGED <<todo, open, filter, saved, at>>

(* Mutant: the filter is cleared in place of being replaced.               *)
SaveAndClear(h) == /\ saved' = saved \cup {<<h, filter[h]>>}
                   /\ filter' = [filter EXCEPT ![h] = "null"]

(* input_handle_list_add, and the new filter is stored.                    *)
Replace(h) == /\ saved' = saved \cup {<<h, filter[h]>>}
              /\ filter' = [filter EXCEPT ![h] = "touchscreen_filter"]

(* modify_touchscreen_device: either the handle that has grabbed the       *)
(* device is visited, and no other, or every handle of dev->h_list.        *)
PatchGrabbed(h) == /\ phase = "grab" /\ h \in open
                   /\ phase' = "init"
                   /\ Replace(h)
                   /\ UNCHANGED <<todo, open, at>>

NotGrabbed == /\ phase = "grab"
              /\ phase' = "init"
              /\ todo' = Handlers
              /\ UNCHANGED <<open, filter, saved, at>>

Patch(h) == /\ phase = "init" /\ h \in todo /\ h \in open
            /\ todo' = todo \ {h}
            /\ Replace(h)
            /\ UNCHANGED <<phase, open, at>>

Skip(h) == /\ phase = "init" /\ h \in todo /\ h \notin open
           /\ todo' = todo \ {h}
           /\ UNCHANGED <<phase, open, filter, saved, at>>

(* The rest of touchscreen_init may fail: nothing is taken back, and       *)
(* plugin_init does not look at the result.                                *)
InitReturns == /\ phase = "init" /\ todo = {}
               /\ phase' = "live"
               /\ UNCHANGED <<todo, open, filter, saved, at>>

Rmmod == /\ phase = "live"
         /\ phase' = "reset"
         /\ UNCHANGED <<todo, open, filter, saved, at>>

(* Mutant: only handlers that have the device open are reset.              *)
ResetOpen(h, old) ==
  /\ phase = "reset" /\ <<h, old>> \in saved
  /\ filter' = [filter EXCEPT ![h] = IF h \in open THEN old ELSE @]
  /\ saved' = saved \ {<<h, old>>}
  /\ UNCHANGED <<phase, todo, open, at>>

(* reset_touchscreen_device: one entry of the list.                        *)
Reset(h, old) ==
  /\ phase = "reset" /\ <<h, old>> \in saved
  /\ filter' = [filter EXCEPT ![h] = old]
  /\ saved' = saved \ {<<h, old>>}
  /\ UNCHANGED <<phase, todo, open, at>>

CleanupReturns == /\ phase = "reset" /\ saved = {}
                  /\ phase' = "exited"
                  /\ UNCHANGED <<todo, open, filter, saved, at>>

(* The kernel frees the module after a grace period: every event dispatch  *)
(* that was going on has ended.                                            *)
FreeModule == /\ phase = "exited"
              /\ \A c \in CPUs : at[c] = Idle
              /\ phase' = "out"
              /\ UNCHANGED <<todo, open, filter, saved, at>>

-----------------------------------------------------------------------------
(* A program opens or closes the device.                                   *)
OpenClose(h) == /\ open' = IF h \in open THEN open \ {h} ELSE open \cup {h}
                /\ UNCHANGED <<phase, todo, filter, saved, at>>

(* The input core dispatches an event to a handler: it looks whether there *)
(* is a filter, then calls it through a second read of the pointer.        *)
Test(c, h) == /\ at[c] = Idle /\ h \in open
              /\ filter[h] # "null"
              /\ at' = [at EXCEPT ![c] = [step |-> "call", handler |-> h]]
              /\ UNCHANGED <<phase, todo, open, filter, saved>>

Call(c) == /\ at[c].step = "call"
           /\ at' = [at EXCEPT ![c] = [step |-> filter[at[c].handler],
                                       handler |-> at[c].handler]]
           /\ UNCHANGED <<phase, todo, open, filter, saved>>

Return(c) == /\ at[c].step \in {"own", "touchscreen_filter"}
             /\ at' = [at EXCEPT ![c] = Idle]
             /\ UNCHANGED <<phase, todo, open, filter, saved>>

-----------------------------------------------------------------------------
Next == \/ Insmod \/ NotGrabbed
        \/ \E found \in BOOLEAN : FindDevice(found)
        \/ \E h \in Handlers : PatchGrabbed(h) \/ Patch(h) \/ Skip(h) \/ OpenClose(h)
        \/ InitReturns \/ Rmmod \/ CleanupReturns \/ FreeModule
        \/ \E entry \in saved : Reset(entry[1], entry[2])
        \/ \E c \in CPUs : (\E h \in Handlers : Test(c, h)) \/ Call(c) \/ Return(c)

Spec == Init /\ [][Next]_vars

-----------------------------------------------------------------------------
(* After rmmod every handler has its own filter again (plugin.c:178-193),  *)
(* whoever has opened or closed the device since insmod.                   *)
FiltersBack == phase \in {"out", "exited"} =>
                 \A h \in Handlers : filter[h] = Original(h)

(* The list says of every patched handler, and of no other, what its own   *)
(* filter was: each is saved once (plugin.c:141-148, 163-170).             *)
ListMatches == \A h \in Handlers :
  /\ filter[h] = "touchscreen_filter" <=> \E old \in {"own", "null"} : <<h, old>> \in saved
  /\ \A entry \in saved : entry[1] = h => entry[2] = Original(h)

(* A filter that the input core found in place is gone when it calls it    *)
(* only because cleanup is putting null filters back (plugin.c:185).       *)
NullOnlyInReset ==
  [][\A c \in CPUs : at[c].step # "null" /\ at'[c].step = "null"
                       => phase \in {"reset", "exited"}]_vars
=============================================================================
