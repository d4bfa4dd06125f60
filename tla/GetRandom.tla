----------------------------- MODULE GetRandom -----------------------------
(***************************************************************************)
(* get_random (source/random.c): a number from low .. high without modulo  *)
(* bias, by rejection.  Every delay of the first layer is drawn with it,   *)
(* most of them in a hard interrupt handler: an answer out of its range,   *)
(* or no answer, would show in (or end) the timing that is to be hidden.   *)
(*                                                                         *)
(* uint32_t arithmetic is arithmetic modulo M (2^32 in the code).  The     *)
(* function works on local variables only, so one call at a time is enough.*)
(***************************************************************************)
EXTENDS Integers, FiniteSets

CONSTANTS M,      \* the number of values of a uint32_t
          Ranges  \* the <<low, high>> the code asks for

Word == 0 .. M - 1

(* The number of values asked for.  The arguments in the code give 101,    *)
(* 1000 and 20000001.                                                      *)
N(low, high) == (high - low + 1) % M

(* None of them divides 2^32: see Truncation.                              *)
ASSUME GetRandomAssumption ==
  /\ M \in Nat \ {0}
  /\ \A range \in Ranges :
       \E low, high \in Word : /\ range = <<low, high>>
                               /\ low <= high
                               /\ M % (high - low + 1) # 0

VARIABLES pc, low, high, rawRand, rnd

vars == <<pc, low, high, rawRand, rnd>>

(* Mutant: 1 << 32 in 32 bits.                                             *)
TruncationNarrow(n) == (((1 % M) \div n) * n) % M

(* Mutant: nothing is rejected.                                            *)
TruncationNone(n) == M - 1

(* The largest multiple of n up to 2^32, kept in a uint32_t: if n divides  *)
(* 2^32 it is cut to 0 and no number would ever be accepted.               *)
Truncation(n) == ((M \div n) * n) % M

(* Mutant: the number of values is one too many.                           *)
ResultInclusive(raw, l, h) == ((raw % (N(l, h) + 1)) + l) % M

Result(raw, l, h) == ((raw % N(l, h)) + l) % M

Accepted(raw) == raw < Truncation(N(low, high))

Init == /\ pc = "idle"
        /\ low = 0 /\ high = 0 /\ rawRand = 0 /\ rnd = 0

-----------------------------------------------------------------------------
Call(range) == /\ pc = "idle"
               /\ pc' = "draw"
               /\ low' = range[1]
               /\ high' = range[2]
               /\ UNCHANGED <<rawRand, rnd>>

Draw(raw) == /\ pc = "draw"
             /\ pc' = "test"
             /\ rawRand' = raw
             /\ UNCHANGED <<low, high, rnd>>

Retry == /\ pc = "test"
         /\ ~Accepted(rawRand)
         /\ pc' = "draw"
         /\ UNCHANGED <<low, high, rawRand, rnd>>

Accept == /\ pc = "test"
          /\ Accepted(rawRand)
          /\ pc' = "done"
          /\ rnd' = Result(rawRand, low, high)
          /\ UNCHANGED <<low, high, rawRand>>

Return == /\ pc = "done"
          /\ pc' = "idle"
          /\ UNCHANGED <<low, high, rawRand, rnd>>

Step == (\E raw \in Word : Draw(raw)) \/ Retry \/ Accept \/ Return
Next == (\E range \in Ranges : Call(range)) \/ Step

(* The loop runs without interruption; the generator returns every number  *)
(* with the same probability, so that an accepted one comes eventually.    *)
DrawAccepted == \E raw \in Word : Accepted(raw) /\ Draw(raw)
Fairness == WF_vars(Step) /\ SF_vars(DrawAccepted)

Spec     == Init /\ [][Next]_vars
FairSpec == Spec /\ Fairness

-----------------------------------------------------------------------------
(* random.c:20: an answer lies between low and high, both included, and is *)
(* not affected by the wrap-around of 32-bit arithmetic.                   *)
InRange == pc = "done" => low <= rnd /\ rnd <= high

(* random.c:16-18: over the accepted draws every value of low .. high is   *)
(* returned equally often.                                                 *)
Draws(value) == {raw \in Word : Accepted(raw) /\ Result(raw, low, high) = value}
Unbiased == pc = "done" => \A v, w \in low .. high :
                             Cardinality(Draws(v)) = Cardinality(Draws(w))

(* More than every second number is accepted (random.c:13-14), so the time *)
(* spent in a handler has a bounded expectation whatever is asked for.     *)
AcceptsHalf == pc # "idle" => 2 * Truncation(N(low, high)) > M

(* Every call returns.                                                     *)
Terminates == pc = "draw" ~> pc = "idle"
=============================================================================
