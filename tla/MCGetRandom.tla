---------------------------- MODULE MCGetRandom ----------------------------
(* GetRandom with a 4-bit word and every range whose size does not divide  *)
(* 2^4: sizes 3 to 15, so that from 1 up to 7 of 16 numbers are rejected.  *)
EXTENDS GetRandom

MCRanges == {range \in Word \X Word : /\ range[1] <= range[2]
                                      /\ M % (range[2] - range[1] + 1) # 0}
=============================================================================
