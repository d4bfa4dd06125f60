--------------------------- MODULE GetRandomProofs ---------------------------
(***************************************************************************)
(* Proofs about GetRandom for every word size M and every set of ranges.   *)
(***************************************************************************)
EXTENDS GetRandom, FunctionTheorems, FiniteSetTheorems, TLAPS

LEMMA DivMod ==
  ASSUME NEW a \in Nat, NEW n \in Nat \ {0}
  PROVE  /\ a \div n \in Nat
         /\ (a % n) \in 0 .. n - 1
         /\ a = ((a \div n) * n) + (a % n)
  OBVIOUS

LEMMA SmallMod == ASSUME NEW a \in Nat, NEW m \in Nat, a < m PROVE (a % m) = a
  OBVIOUS

LEMMA TruncationIs ==
  ASSUME NEW n \in 1 .. M, (M % n) # 0
  PROVE  /\ Truncation(n) = (M \div n) * n
         /\ Truncation(n) \in 1 .. M - 1
         /\ 2 * Truncation(n) > M
  <1> DEFINE q == M \div n
             r == M % n
  <1>1. /\ M \in Nat /\ n \in Nat \ {0}
        /\ q \in Nat /\ r \in 1 .. n - 1 /\ M = (q * n) + r
    BY DivMod, GetRandomAssumption
  <1> HIDE DEF q, r
  <1>2. q >= 1
    <2>1. q = 0 => q * n = 0
      BY <1>1
    <2>2. QED
      BY <1>1, <2>1
  <1>3. q * n \in Nat /\ q * n >= n
    BY <1>1, <1>2
  <1>4. q * n < M /\ 2 * (q * n) > M
    BY <1>1, <1>3
  <1>5. Truncation(n) = q * n
    BY <1>1, <1>3, <1>4, SmallMod DEF Truncation, q
  <1>6. QED
    BY <1>1, <1>3, <1>4, <1>5 DEF q

-----------------------------------------------------------------------------
(* The inductive invariant: what is asked for is one of the ranges of the  *)
(* code, and an answer has been reduced into it.                           *)
Asked == pc # "idle" => <<low, high>> \in Ranges
IInv  == /\ pc \in {"idle", "draw", "test", "done"}
         /\ rawRand \in Word
         /\ Asked
         /\ InRange

(* A range the code asks for has a size that fits and does not divide M.   *)
LEMMA SizeOfRange ==
  ASSUME <<low, high>> \in Ranges
  PROVE  /\ low \in Word /\ high \in Word /\ low <= high
         /\ N(low, high) = high - low + 1
         /\ N(low, high) \in 1 .. M
         /\ (M % N(low, high)) # 0
  <1> USE GetRandomAssumption
  <1>1. PICK l \in Word, h \in Word : /\ <<low, high>> = <<l, h>>
                                      /\ l <= h
                                      /\ (M % (h - l + 1)) # 0
    BY GetRandomAssumption
  <1>2. low = l /\ high = h
    BY <1>1
  <1>3. high - low + 1 \in 1 .. M
    BY <1>1, <1>2 DEF Word
  <1>4. high - low + 1 # M
    <2>1. (M % M) = 0
      OBVIOUS
    <2>2. QED
      BY <1>1, <1>2, <2>1
  <1>5. N(low, high) = high - low + 1
    BY <1>3, <1>4, SmallMod DEF N
  <1>6. QED
    BY <1>1, <1>2, <1>3, <1>5

(* The addition does not wrap around.                                      *)
LEMMA ResultInRange ==
  ASSUME <<low, high>> \in Ranges, NEW raw \in Word
  PROVE  /\ Result(raw, low, high) = (raw % N(low, high)) + low
         /\ low <= Result(raw, low, high) /\ Result(raw, low, high) <= high
  <1> DEFINE r == raw % N(low, high)
  <1>1. r \in 0 .. N(low, high) - 1
    <2>1. N(low, high) \in Nat \ {0}
      BY SizeOfRange, GetRandomAssumption
    <2>2. raw \in Nat
      BY GetRandomAssumption DEF Word
    <2>3. QED
      BY <2>1, <2>2, DivMod
  <1> HIDE DEF r
  <1>2. r + low \in low .. high /\ r + low \in Nat /\ r + low < M
    BY <1>1, SizeOfRange, GetRandomAssumption DEF Word
  <1>3. (r + low) % M = r + low
    BY <1>2, SmallMod, GetRandomAssumption
  <1>4. Result(raw, low, high) = r + low
    BY <1>3 DEF Result, r
  <1>5. QED
    BY <1>2, <1>4 DEF r

LEMMA IInvInit == Init => IInv
  BY GetRandomAssumption DEF Init, IInv, Asked, InRange, Word

LEMMA IInvNext == IInv /\ [Next]_vars => IInv'
  <1> SUFFICES ASSUME IInv, [Next]_vars PROVE IInv'
    OBVIOUS
  <1> USE DEF IInv, Asked, InRange
  <1>1. ASSUME NEW range \in Ranges, Call(range) PROVE IInv'
    <2>1. range = <<range[1], range[2]>>
      BY GetRandomAssumption
    <2>2. QED
      BY <1>1, <2>1 DEF Call
  <1>2. ASSUME NEW raw \in Word, Draw(raw) PROVE IInv'
    BY <1>2 DEF Draw
  <1>3. CASE Retry
    BY <1>3 DEF Retry
  <1>4. CASE Accept
    BY <1>4, ResultInRange DEF Accept
  <1>5. CASE Return
    BY <1>5 DEF Return
  <1>6. CASE UNCHANGED vars
    BY <1>6 DEF vars
  <1>7. QED
    BY <1>1, <1>2, <1>3, <1>4, <1>5, <1>6 DEF Next, Step

THEOREM IInvCorrect == Spec => []IInv
  BY IInvInit, IInvNext, PTL DEF Spec

(* Whatever the width of the words, a delay is drawn from the range it was *)
(* asked from (random.c:9, 20).                                            *)
THEOREM AnswersInRange == Spec => []InRange
  <1>1. IInv => InRange
    BY DEF IInv
  <1>2. QED
    BY <1>1, IInvCorrect, PTL

(* Whatever the width of the words, more than half of the numbers are      *)
(* accepted (random.c:13-14): each pass of the loop ends it with that      *)
(* probability at least.                                                   *)
THEOREM RejectsFew == Spec => []AcceptsHalf
  <1>1. IInv => AcceptsHalf
    BY SizeOfRange, TruncationIs DEF IInv, Asked, AcceptsHalf
  <1>2. QED
    BY <1>1, IInvCorrect, PTL

-----------------------------------------------------------------------------
LEMMA Multiple ==
  ASSUME NEW d \in Nat \ {0}, NEW n \in Nat PROVE d * n \in Nat /\ d * n >= n
  <1>1. (d - 1) \in Nat /\ d * n = ((d - 1) * n) + n
    OBVIOUS
  <1>2. (d - 1) * n \in Nat
    BY <1>1
  <1>3. QED
    BY <1>1, <1>2

(* Quotient and remainder are the only ones.                               *)
LEMMA Remainder ==
  ASSUME NEW n \in Nat \ {0}, NEW k \in Nat, NEW s \in 0 .. n - 1
  PROVE  ((k * n) + s) % n = s
  <1> DEFINE a == (k * n) + s
             q == a \div n
             r == a % n
  <1>1. a \in Nat
    OBVIOUS
  <1>2. q \in Nat /\ r \in 0 .. n - 1 /\ a = (q * n) + r
    BY <1>1, DivMod
  <1> HIDE DEF q, r
  <1>3. ~(k > q)
    <2>1. CASE k > q
      <3>1. k - q \in Nat \ {0}
        BY <1>2, <2>1
      <3>2. (k - q) * n >= n
        BY <3>1, Multiple
      <3>3. (k - q) * n = (k * n) - (q * n)
        BY <1>2
      <3>4. QED
        BY <1>2, <3>2, <3>3
    <2>2. QED
      BY <2>1
  <1>4. ~(q > k)
    <2>1. CASE q > k
      <3>1. q - k \in Nat \ {0}
        BY <1>2, <2>1
      <3>2. (q - k) * n >= n
        BY <3>1, Multiple
      <3>3. (q - k) * n = (q * n) - (k * n)
        BY <1>2
      <3>4. QED
        BY <1>2, <3>2, <3>3
    <2>2. QED
      BY <2>1
  <1>5. QED
    BY <1>2, <1>3, <1>4 DEF r

(* A draw that gives v, moved by w - v, is a draw that gives w: it stays   *)
(* below Truncation because that is a multiple of the size of the range.   *)
LEMMA ShiftedDraw ==
  ASSUME <<low, high>> \in Ranges, NEW v \in low .. high, NEW w \in low .. high,
         NEW raw \in Draws(v)
  PROVE  raw - v + w \in Draws(w)
  <1> DEFINE n == N(low, high)
             q == M \div n
             k == raw \div n
  <1>1. /\ M \in Nat \ {0} /\ low \in Nat /\ high \in Nat
        /\ n \in 1 .. M /\ n = high - low + 1 /\ (M % n) # 0
    BY SizeOfRange, GetRandomAssumption DEF Word
  <1>2. Truncation(n) = q * n /\ Truncation(n) < M /\ q \in Nat
    <2> HIDE DEF n
    <2>1. Truncation(n) = q * n /\ Truncation(n) \in 1 .. M - 1
      BY <1>1, TruncationIs
    <2>2. n \in Nat \ {0} /\ M \in Nat
      BY <1>1
    <2>3. q \in Nat
      BY <2>2, DivMod
    <2>4. QED
      BY <1>1, <2>1, <2>3
  <1>3. raw \in Nat /\ raw < Truncation(n) /\ (raw % n) + low = v
    BY <1>1, ResultInRange DEF Draws, Accepted, Word
  <1> HIDE DEF n, q
  <1>4. k \in Nat /\ (raw % n) \in 0 .. n - 1 /\ raw = (k * n) + (raw % n)
    <2>1. n \in Nat \ {0}
      BY <1>1
    <2>2. QED
      BY <1>3, <2>1, DivMod
  <1> HIDE DEF k
  <1>5. k < q
    <2>1. CASE ~(k < q)
      <3>1. CASE k = q
        <4>1. k * n = q * n /\ q * n \in Int
          BY <1>1, <1>2, <3>1
        <4>2. QED
          BY <1>2, <1>3, <1>4, <4>1
      <3>2. CASE k # q
        <4>1. k - q \in Nat \ {0}
          BY <1>2, <1>4, <2>1, <3>2
        <4>2. (k - q) * n >= n
          BY <1>1, <4>1, Multiple
        <4>3. (k - q) * n = (k * n) - (q * n)
          BY <1>1, <1>2, <1>4
        <4>4. (k * n) \in Int /\ (q * n) \in Int
          BY <1>1, <1>2, <1>4
        <4>5. QED
          BY <1>1, <1>2, <1>3, <1>4, <4>2, <4>3, <4>4
      <3>3. QED
        BY <3>1, <3>2
    <2>2. QED
      BY <2>1
  <1>6. (k * n) + n <= q * n
    <2>1. q - k \in Nat \ {0}
      BY <1>2, <1>4, <1>5
    <2>2. (q - k) * n >= n
      BY <1>1, <2>1, Multiple
    <2>3. (q - k) * n = (q * n) - (k * n)
      BY <1>1, <1>2, <1>4
    <2>4. (k * n) \in Int /\ (q * n) \in Int
      BY <1>1, <1>2, <1>4
    <2>5. QED
      BY <1>1, <2>2, <2>3, <2>4
  <1>7. w - low \in 0 .. n - 1 /\ k * n \in Nat
    BY <1>1, <1>4
  <1>8. raw - v + w = (k * n) + (w - low)
    BY <1>1, <1>3, <1>4, <1>7
  <1>9. (raw - v + w) % n = w - low
    <2>1. n \in Nat \ {0}
      BY <1>1
    <2>2. ((k * n) + (w - low)) % n = w - low
      BY <1>4, <1>7, <2>1, Remainder
    <2>3. QED
      BY <1>8, <2>2
  <1>10. raw - v + w \in Nat /\ raw - v + w < Truncation(n)
    BY <1>1, <1>2, <1>6, <1>7, <1>8
  <1>11. raw - v + w \in Word
    BY <1>1, <1>2, <1>10 DEF Word
  <1>12. QED
    BY <1>1, <1>9, <1>10, <1>11, ResultInRange DEF Draws, Accepted, n

(* The rejection leaves no bias, whatever the width of the words: every    *)
(* value of a range is the answer to equally many draws (random.c:16-18).  *)
THEOREM EveryValueEqually == Spec => []Unbiased
  <1>1. ASSUME IInv, pc = "done", NEW v \in low .. high, NEW w \in low .. high
        PROVE  Cardinality(Draws(v)) = Cardinality(Draws(w))
    <2>1. <<low, high>> \in Ranges
      BY <1>1 DEF IInv, Asked
    <2>2. v \in Int /\ w \in Int /\ Draws(v) \subseteq Int /\ M \in Nat
      BY <2>1, SizeOfRange, GetRandomAssumption DEF Word, Draws
    <2> DEFINE shift == [raw \in Draws(v) |-> raw - v + w]
    <2>3. shift \in [Draws(v) -> Draws(w)]
      BY <2>1, ShiftedDraw
    <2>4. \A x, y \in Draws(v) : shift[x] = shift[y] => x = y
      BY <2>2
    <2>5. \A y \in Draws(w) : \E x \in Draws(v) : shift[x] = y
      <3> TAKE y \in Draws(w)
      <3>1. y - w + v \in Draws(v) /\ y \in Int
        BY <2>1, <2>2, ShiftedDraw DEF Draws, Word
      <3>2. shift[y - w + v] = y
        BY <2>2, <3>1
      <3>3. QED
        BY <3>1, <3>2
    <2>6. ExistsBijection(Draws(v), Draws(w))
      <3>1. shift \in Bijection(Draws(v), Draws(w))
        BY <2>3, <2>4, <2>5, Fun_IsBij
      <3>2. QED
        BY <3>1 DEF ExistsBijection
    <2>7. IsFiniteSet(Draws(v))
      <3>1. IsFiniteSet(Word)
        BY <2>2, FS_Interval DEF Word
      <3>2. QED
        BY <3>1, FS_Subset DEF Draws
    <2>8. QED
      BY <2>6, <2>7, FS_Bijection
  <1>2. IInv => Unbiased
    BY <1>1 DEF Unbiased
  <1>3. QED
    BY <1>2, IInvCorrect, PTL
=============================================================================
