--------------------------- MODULE InjectionClock ---------------------------
(***************************************************************************)
(* What the timers of the first layer promise to the rest of the system:   *)
(*   - there is always a next injection: the clock is armed, or is firing, *)
(*     or a key notification that has disarmed it will arm it again;       *)
(*   - every key notification asks for a fake interrupt before it does     *)
(*     anything else, and what it asks for is served; notifications that   *)
(*     come together may share it.                                         *)
(* CPUs, softirq lists, the hrtimer core and the guard word of the fake    *)
(* timer are all hidden.                                                   *)
(***************************************************************************)
CONSTANT Notifications

VARIABLES
  armed,     \* an injection is scheduled
  firing,    \* an injection is going on
  asking,    \* the notifications that have not asked for a fake interrupt yet
  handling,  \* those that have, and are still being answered
  owed       \* a fake interrupt is to be raised on behalf of a notification

clockVars == <<armed, firing, asking, handling, owed>>

Init == /\ armed = TRUE
        /\ firing = FALSE
        /\ asking = {}
        /\ handling = {}
        /\ owed = FALSE

Notify(t) == /\ t \in Notifications \ (asking \cup handling)
             /\ asking' = asking \cup {t}
             /\ UNCHANGED <<armed, firing, handling, owed>>

Owe(t) == /\ t \in asking
          /\ asking' = asking \ {t}
          /\ handling' = handling \cup {t}
          /\ owed' = TRUE
          /\ UNCHANGED <<armed, firing>>

Serve == /\ owed
         /\ owed' = FALSE
         /\ UNCHANGED <<armed, firing, asking, handling>>

(* A notification takes the clock down only between two injections.        *)
Disarm == /\ handling # {} /\ ~firing
          /\ armed' = FALSE
          /\ UNCHANGED <<firing, asking, handling, owed>>

Answer(t) == /\ t \in handling
             /\ handling' = handling \ {t}
             /\ armed' = TRUE
             /\ UNCHANGED <<firing, asking, owed>>

Fire == /\ armed /\ ~firing
        /\ armed' = FALSE
        /\ firing' = TRUE
        /\ UNCHANGED <<asking, handling, owed>>

Rearm == /\ firing
         /\ firing' = FALSE
         /\ armed' = TRUE
         /\ UNCHANGED <<asking, handling, owed>>

Next == \/ \E t \in Notifications : Notify(t) \/ Owe(t) \/ Answer(t)
        \/ Serve \/ Disarm \/ Fire \/ Rearm

SafeSpec == Init /\ [][Next]_clockVars

Spec == /\ SafeSpec
        /\ \A t \in Notifications : WF_clockVars(Owe(t))
        /\ WF_clockVars(Serve)
        /\ WF_clockVars(Fire)
        /\ WF_clockVars(Rearm)
=============================================================================
