--------------------------- MODULE ReloadableClock ---------------------------
(***************************************************************************)
(* What InjectionClock promises, of a module that is loaded and unloaded:  *)
(* from its load to its unload the clock is armed, firing, or will be      *)
(* armed by a notification.  Unloading takes an armed clock down, but does *)
(* not wait for the notifications, which go on and may arm it again; a     *)
(* module may also crash.                                                  *)
(***************************************************************************)
EXTENDS InjectionClock

VARIABLE up  \* the module has started the clock, and not stopped it yet

lifeClockVars == <<armed, firing, asking, handling, owed, up>>

InitDown == /\ armed = FALSE
            /\ firing = FALSE
            /\ asking = {}
            /\ handling = {}
            /\ owed = FALSE
            /\ up = FALSE

Load == /\ ~up
        /\ up' = TRUE
        /\ armed' = TRUE
        /\ UNCHANGED <<firing, asking, handling, owed>>

(* Not in the middle of an injection.                                      *)
Unload == /\ up /\ ~firing
          /\ up' = FALSE
          /\ armed' = FALSE
          /\ UNCHANGED <<firing, asking, handling, owed>>

Crash == /\ up
         /\ up' = FALSE
         /\ UNCHANGED clockVars

Tick == Next /\ UNCHANGED up

LifeNext == Tick \/ Load \/ Unload \/ Crash

SafeLife == InitDown /\ [][LifeNext]_lifeClockVars

(* A module that is up keeps the clock going.                              *)
Going(A) == up /\ A /\ UNCHANGED up
Life == /\ SafeLife
        /\ \A t \in Notifications : WF_lifeClockVars(Going(Owe(t)))
        /\ WF_lifeClockVars(Going(Serve))
        /\ WF_lifeClockVars(Going(Fire))
        /\ WF_lifeClockVars(Going(Rearm))
=============================================================================
