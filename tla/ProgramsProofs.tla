--------------------------- MODULE ProgramsProofs ---------------------------
(* Proofs about the search for an address, the conversions of Base58 and the  *)
(* builders of instructions, for every MaxBump, KeyLength and ByteRange and   *)
(* every request of IsRequest.                                                *)
EXTENDS Programs, ListProofs

-----------------------------------------------------------------------------
(* The search, for every set of off-curve bumps and every outcome of the seed *)
(* length check.                                                              *)

(* What the loop knows when it comes to a bump: none of the larger ones       *)
(* derives an address.                                                        *)
LargerOnesFail == \A b \in 0..MaxBump : b > bump => ~Derives(b)

IInv ==
    /\ TypeOK
    /\ LargerOnesFail
    /\ outcome = "found" => Derives(bump)
    /\ outcome = "error" => bump < 0

LEMMA InitIInv == Init => IInv
  BY BumpAssumption DEF Init, IInv, TypeOK, LargerOnesFail

(* Each iteration either takes the current bump or rules it out.              *)
LEMMA StepIInv == IInv /\ [Next]_vars => IInv'
  <1> SUFFICES ASSUME IInv, [Next]_vars
               PROVE  IInv'
    OBVIOUS
  <1> USE BumpAssumption DEF IInv, TypeOK
  <1>1. CASE Found
    BY <1>1 DEF Found, LargerOnesFail, Derives
  <1>2. CASE TryNext
    <2>1. bump' = bump - 1 /\ ~Derives(bump) /\ bump >= 0
      BY <1>2 DEF TryNext
    <2>2. TypeOK'
      BY <1>2, <2>1 DEF TryNext
    <2>3. LargerOnesFail'
      BY <1>2, <2>1 DEF TryNext, LargerOnesFail, Derives
    <2> QED
      BY <1>2, <2>1, <2>2, <2>3 DEF TryNext, Derives
  <1>3. CASE GiveUp
    BY <1>3 DEF GiveUp, LargerOnesFail, Derives
  <1>4. CASE UNCHANGED vars
    BY <1>4 DEF vars, LargerOnesFail, Derives
  <1> QED
    BY <1>1, <1>2, <1>3, <1>4 DEF Next, Finished

LEMMA Invariance == Spec => []IInv
  BY InitIInv, StepIInv, PTL DEF Spec

(* The loop variable stays a valid bump, or -1 at the end of the search.      *)
THEOREM TypeCorrect == Spec => []TypeOK
  <1>1. IInv => TypeOK
    BY DEF IInv
  <1> QED
    BY <1>1, Invariance, PTL

(* findProgramAddressSync returns the largest bump that is off the curve, and *)
(* throws only if a seed is too long or every address is on the curve.        *)
THEOREM FindsCanonicalBump == Spec => []CanonicalBump
  <1>1. IInv => CanonicalBump
    BY BumpAssumption DEF IInv, TypeOK, LargerOnesFail, CanonicalBump, Derives
  <1> QED
    BY <1>1, Invariance, PTL

-----------------------------------------------------------------------------
(* The digits of a number: what one round of a conversion does.              *)

(* The two conversions. *)
Bases(from, to) == \/ from = 256 /\ to = 58
                   \/ from = 58 /\ to = 256

(* One digit in a round: w is the worth of the higher ones, d the digit, and  *)
(* c what is carried to it.                                                   *)
Round(from, to, w, d, c, t) ==
    /\ t \in Nat /\ t \div to \in Nat /\ t % to \in 0..(to - 1)
    /\ to * w + d \in Nat /\ w * from \in Nat
    /\ (to * w + d) * from + c = to * (w * from + (t \div to)) + (t % to)
    /\ t \div to = 0 /\ d # 0 => t % to # 0

LEMMA RoundArithmetic ==
    ASSUME NEW from, NEW to, Bases(from, to), NEW w \in Nat, NEW d \in 0..(to - 1), NEW c \in Nat,
           NEW t, t = c + d * from
    PROVE  Round(from, to, w, d, c, t)
  <1>1. CASE from = 256 /\ to = 58
    <2> DEFINE q == t \div 58
               r == t % 58
    <2>1. t = c + d * 256 /\ d \in 0..57 /\ t \in Nat
      BY <1>1
    <2>2. q \in Nat /\ r \in 0..57 /\ t = 58 * q + r
      BY <2>1
    <2> HIDE DEF q, r
    <2>3. (58 * w + d) * 256 + c = 58 * (w * 256 + q) + r
      BY <2>1, <2>2
    <2>4. q = 0 /\ d # 0 => r # 0
      BY <2>1, <2>2
    <2> QED
      BY <1>1, <2>1, <2>2, <2>3, <2>4 DEF q, r, Round
  <1>2. CASE from = 58 /\ to = 256
    <2> DEFINE q == t \div 256
               r == t % 256
    <2>1. t = c + d * 58 /\ d \in 0..255 /\ t \in Nat
      BY <1>2
    <2>2. q \in Nat /\ r \in 0..255 /\ t = 256 * q + r
      BY <2>1
    <2> HIDE DEF q, r
    <2>3. (256 * w + d) * 58 + c = 256 * (w * 58 + q) + r
      BY <2>1, <2>2
    <2>4. q = 0 /\ d # 0 => r # 0
      BY <2>1, <2>2
    <2> QED
      BY <1>2, <2>1, <2>2, <2>3, <2>4 DEF q, r, Round
  <1> QED
    BY <1>1, <1>2 DEF Bases

(* What is carried out of the highest digit is split into digits. *)
LEMMA CarryArithmetic ==
    ASSUME NEW to, to \in {58, 256}, NEW c \in Nat
    PROVE  /\ c \div to \in Nat /\ c % to \in 0..(to - 1) /\ c = to * (c \div to) + (c % to)
           /\ c # 0 => (c \div to) < c /\ ((c \div to) # 0 \/ (c % to) # 0)
  <1>1. CASE to = 58
    BY <1>1
  <1>2. CASE to = 256
    BY <1>2
  <1> QED
    BY <1>1, <1>2

(* The digits of a carry, given those of the rest of it.                      *)
Carried(c, to, rest) == IF c = 0 THEN <<>> ELSE <<c % to>> \o rest

LEMMA CarryOutEquation ==
    ASSUME NEW to, to \in {58, 256}, NEW c \in Nat
    PROVE  CarryOut(c, to) = Carried(c, to, CarryOut(c \div to, to))
  <1> DEFINE D == Nat
             T == Seq(Nat)
             size == [n \in Nat |-> n]
             stop == {0}
             base == [n \in Nat |-> <<>>]
             prev == [n \in Nat |-> n \div to]
             digit(n) == <<n % to>>
             next == [n \in Nat |-> [t \in Seq(Nat) |-> digit(n) \o t]]
             from(h) == [n \in Nat |-> Carried(n, to, h[n \div to])]
             IsFrom(h) == h = from(h)
  <1>0. \A n \in Nat : /\ n \div to \in Nat /\ n % to \in Nat
                       /\ n # 0 => n \div to < n
    <2> SUFFICES ASSUME NEW n \in Nat
                 PROVE  n \div to \in Nat /\ n % to \in Nat /\ (n # 0 => n \div to < n)
      OBVIOUS
    <2>1. n \div to \in Nat /\ n % to \in 0..(to - 1) /\ (n # 0 => n \div to < n)
      BY CarryArithmetic
    <2> QED
      BY <2>1
  <1>1. size \in [D -> Nat] /\ stop \in SUBSET D /\ base \in [D -> T] /\ prev \in [D -> D]
    BY <1>0
  <1>2. next \in [D -> [T -> T]]
    <2>1. ASSUME NEW n \in Nat, NEW t \in Seq(Nat)
          PROVE  digit(n) \o t \in Seq(Nat)
      <3>1. digit(n) \in Seq(Nat)
        BY <1>0
      <3> HIDE DEF digit
      <3> QED
        BY <3>1, ConcatProperties
    <2> HIDE DEF digit
    <2> QED
      BY <2>1
  <1>3. ASSUME NEW n \in D, n \notin stop
        PROVE  size[prev[n]] < size[n]
    <2>1. n \in Nat /\ n # 0
      BY <1>3
    <2>2. n \div to \in Nat /\ n \div to < n
      BY <2>1, <1>0
    <2> QED
      BY <2>1, <2>2
  <1>4. \E f \in [D -> T] : IsRecursion(f, D, stop, base, prev, next)
    <2> HIDE DEF D, T, size, stop, base, prev, next
    <2> QED
      BY <1>1, <1>2, <1>3, RecursionExists
  <1>5. PICK f \in [D -> T] : IsRecursion(f, D, stop, base, prev, next)
    BY <1>4
  <1>6. \A n \in Nat : f[n] = Carried(n, to, f[n \div to])
    <2> SUFFICES ASSUME NEW n \in Nat
                 PROVE  f[n] = IF n = 0 THEN <<>> ELSE digit(n) \o f[n \div to]
      BY DEF Carried
    <2>1. f[n] = IF n \in stop THEN base[n] ELSE next[n][f[prev[n]]]
      BY <1>5 DEF IsRecursion
    <2>2. prev[n] = n \div to /\ f[prev[n]] \in Seq(Nat)
      BY <1>1, <1>5
    <2>3. next[n][f[prev[n]]] = digit(n) \o f[prev[n]]
      <3> HIDE DEF digit, prev
      <3> QED
        BY <2>2
    <2>4. base[n] = <<>> /\ (n \in stop <=> n = 0)
      OBVIOUS
    <2> HIDE DEF digit, prev, next, stop, base
    <2> QED
      BY <2>1, <2>2, <2>3, <2>4
  <1>7. IsFrom(f)
    BY <1>5, <1>6
  <1>8. \A x : CarryOut(x, to) = (CHOOSE h : IsFrom(h))[x]
    BY DEF CarryOut, Carried
  <1>9. IsFrom(CHOOSE h : IsFrom(h))
    <2> HIDE DEF IsFrom
    <2> QED
      BY <1>7
  <1> DEFINE g == CHOOSE h : IsFrom(h)
  <1>10. g = from(g)
    BY <1>9
  <1> HIDE DEF g
  <1>11. g[c] = Carried(c, to, g[c \div to])
    <2>1. from(g)[c] = Carried(c, to, g[c \div to])
      OBVIOUS
    <2> HIDE DEF from
    <2> QED
      BY <1>10, <2>1
  <1>12. \A x : CarryOut(x, to) = g[x]
    BY <1>8 DEF g
  <1> QED
    BY <1>11, <1>12

-----------------------------------------------------------------------------
(* The worth of digits whose lowest comes first: w[i] is that of the digits   *)
(* from the i-th on.                                                          *)
LowFirst(digits, base, w) ==
    /\ digits \in Seq(0..(base - 1))
    /\ w \in [1..(Len(digits) + 1) -> Nat]
    /\ w[Len(digits) + 1] = 0
    /\ \A i \in 1..Len(digits) : w[i] = base * w[i + 1] + digits[i]

IsLowFirst(digits, base, v) == \E w : LowFirst(digits, base, w) /\ w[1] = v

NoHighZero(digits) == Len(digits) > 0 => digits[Len(digits)] # 0

(* One more digit below the others.                                           *)
LEMMA OneLower ==
    ASSUME NEW base \in Nat, NEW digits, NEW v, IsLowFirst(digits, base, v), NEW d \in 0..(base - 1),
           NEW n \in Nat, n = base * v + d
    PROVE  IsLowFirst(<<d>> \o digits, base, n)
  <1>1. PICK w : LowFirst(digits, base, w) /\ w[1] = v
    BY DEF IsLowFirst
  <1> DEFINE size == Len(digits)
             all == <<d>> \o digits
             more == [i \in 1..(size + 2) |-> IF i = 1 THEN n ELSE w[i - 1]]
  <1>2. /\ size \in Nat /\ digits \in Seq(0..(base - 1)) /\ w \in [1..(size + 1) -> Nat] /\ w[size + 1] = 0
        /\ \A i \in 1..size : w[i] = base * w[i + 1] + digits[i]
    BY <1>1 DEF LowFirst
  <1>3. /\ all \in Seq(0..(base - 1)) /\ Len(all) = size + 1 /\ all[1] = d
        /\ \A i \in 1..size : all[i + 1] = digits[i]
    BY <1>2, InFront
  <1> HIDE DEF all, size
  <1>4. more \in [1..(Len(all) + 1) -> Nat] /\ more[Len(all) + 1] = 0 /\ more[1] = n
    BY <1>2, <1>3
  <1>5. ASSUME NEW i \in 1..Len(all)
        PROVE  more[i] = base * more[i + 1] + all[i]
    <2>1. more[i + 1] = w[i]
      BY <1>2, <1>3
    <2>2. CASE i = 1
      BY <1>1, <1>3, <1>4, <2>1, <2>2
    <2>3. CASE i # 1
      <3> DEFINE j == i - 1
      <3>1. j \in 1..size /\ i = j + 1
        BY <1>2, <1>3, <2>3
      <3> HIDE DEF j
      <3>2. more[i] = w[j]
        BY <1>2, <1>3, <2>3, <3>1
      <3>3. all[i] = digits[j] /\ w[j] = base * w[j + 1] + digits[j]
        BY <1>2, <1>3, <3>1
      <3> HIDE DEF more
      <3> QED
        BY <2>1, <3>1, <3>2, <3>3
    <2> QED
      BY <2>2, <2>3
  <1> HIDE DEF more
  <1>6. LowFirst(all, base, more)
    BY <1>3, <1>4, <1>5 DEF LowFirst
  <1> QED
    BY <1>4, <1>6 DEF IsLowFirst, all

(* The digits that are carried out are those of the carry, the highest is not *)
(* zero.                                                                      *)
CarriesOut(digits, to, c) == IsLowFirst(digits, to, c) /\ NoHighZero(digits) /\ (c = 0 => digits = <<>>)

LEMMA CarryOutDigits ==
    ASSUME NEW to, to \in {58, 256}, NEW carry \in Nat
    PROVE  CarriesOut(CarryOut(carry, to), to, carry)
  <1> DEFINE Right(c) == CarriesOut(CarryOut(c, to), to, c)
             Below == {k \in Nat : \A c \in Nat : c < k => Right(c)}
  <1>1. 0 \in Below
    <2>1. \A c \in Nat : ~(c < 0)
      OBVIOUS
    <2> HIDE DEF Right
    <2> QED
      BY <2>1
  <1>2. ASSUME NEW k \in Nat, k \in Below
        PROVE  k + 1 \in Below
    <2> SUFFICES ASSUME NEW c \in Nat, c < k + 1
                 PROVE  Right(c)
      <3> HIDE DEF Right
      <3> QED
        OBVIOUS
    <2>1. CASE c = 0
      <3> DEFINE w == [i \in 1..1 |-> 0]
      <3>1. CarryOut(c, to) = <<>>
        <4>1. CarryOut(c, to) = Carried(c, to, CarryOut(c \div to, to))
          BY CarryOutEquation
        <4> QED
          BY <2>1, <4>1 DEF Carried
      <3>2. LowFirst(<<>>, to, w) /\ w[1] = 0
        BY DEF LowFirst
      <3> HIDE DEF w
      <3>3. IsLowFirst(<<>>, to, 0)
        BY <3>2 DEF IsLowFirst
      <3> QED
        BY <2>1, <3>1, <3>3 DEF CarriesOut, NoHighZero
    <2>2. CASE c # 0
      <3> DEFINE q == c \div to
                 r == c % to
                 rest == CarryOut(q, to)
                 all == <<r>> \o rest
      <3>1. q \in Nat /\ q < c /\ r \in 0..(to - 1) /\ c = to * q + r /\ (q # 0 \/ r # 0)
        BY <2>2, CarryArithmetic
      <3>2. CarryOut(c, to) = all
        <4>1. CarryOut(c, to) = Carried(c, to, CarryOut(c \div to, to))
          BY CarryOutEquation
        <4> QED
          BY <2>2, <4>1 DEF Carried
      <3> HIDE DEF q, r
      <3>3. Right(q)
        <4> HIDE DEF Right
        <4> QED
          BY <1>2, <3>1
      <3>4. IsLowFirst(rest, to, q) /\ NoHighZero(rest) /\ (q = 0 => rest = <<>>)
        BY <3>3 DEF CarriesOut
      <3> HIDE DEF rest
      <3>5. IsLowFirst(all, to, c)
        <4>1. to \in Nat
          OBVIOUS
        <4> QED
          BY <3>1, <3>4, <4>1, OneLower
      <3>6. NoHighZero(all)
        <4>1. rest \in Seq(0..(to - 1))
          BY <3>4 DEF IsLowFirst, LowFirst
        <4>2. /\ Len(all) = Len(rest) + 1 /\ all[1] = r /\ Len(rest) \in Nat
              /\ \A i \in 1..Len(rest) : all[i + 1] = rest[i]
          BY <3>1, <4>1, InFront
        <4> HIDE DEF all
        <4>3. CASE Len(rest) = 0
          <5>1. q = 0
            <6>1. PICK w : LowFirst(rest, to, w) /\ w[1] = q
              BY <3>4 DEF IsLowFirst
            <6> QED
              BY <4>3, <6>1 DEF LowFirst
          <5> QED
            BY <3>1, <4>2, <4>3, <5>1 DEF NoHighZero
        <4>4. CASE Len(rest) # 0
          BY <3>4, <4>2, <4>4 DEF NoHighZero
        <4> QED
          BY <4>3, <4>4
      <3> QED
        BY <2>2, <3>2, <3>5, <3>6 DEF CarriesOut
    <2> QED
      BY <2>1, <2>2
  <1>3. \A k \in Nat : k \in Below
    <2> HIDE DEF Below
    <2> QED
      BY <1>1, <1>2, AllNumbers
  <1>4. carry + 1 \in Nat /\ carry < carry + 1
    OBVIOUS
  <1> HIDE DEF Right
  <1>5. Right(carry)
    BY <1>3, <1>4
  <1> QED
    BY <1>5 DEF Right

-----------------------------------------------------------------------------
(* All rounds of a conversion.                                               *)

(* What is carried from digit to digit in one round. *)
Carries(digits, next, from, to, carry) ==
    /\ carry \in [0..Len(digits) -> Nat]
    /\ carry[0] = next
    /\ \A j \in 1..Len(digits) : carry[j] = (carry[j - 1] + digits[j] * from) \div to

LowDigits(digits, from, to, carry) ==
    [j \in 1..Len(digits) |-> (carry[j - 1] + digits[j] * from) % to]

LEMMA TakeDigitEquation ==
    ASSUME NEW from, NEW to, Bases(from, to), NEW digits \in Seq(0..(to - 1)), NEW next \in Nat
    PROVE  \E carry : /\ Carries(digits, next, from, to, carry)
                      /\ TakeDigit(digits, next, from, to) =
                             LowDigits(digits, from, to, carry) \o CarryOut(carry[Len(digits)], to)
  <1> DEFINE n == Len(digits)
             IsCarry(f) == f = [j \in 0..n |-> IF j = 0 THEN next
                                               ELSE (f[j - 1] + digits[j] * from) \div to]
             carry == CHOOSE f : IsCarry(f)
             step == [j \in 1..n |-> [c \in Nat |-> (c + digits[j] * from) \div to]]
  <1>1. n \in Nat /\ from \in Nat /\ to \in Nat
    BY DEF Bases
  <1>2. TakeDigit(digits, next, from, to) =
            [j \in 1..n |-> (carry[j - 1] + digits[j] * from) % to] \o CarryOut(carry[n], to)
    BY DEF TakeDigit
  <1>3. \A j \in 1..n : digits[j] \in 0..(to - 1)
    BY <1>1
  <1> HIDE DEF n
  <1>4. ASSUME NEW j \in 1..n, NEW c \in Nat
        PROVE  (c + digits[j] * from) \div to \in Nat
    <2> DEFINE t == c + digits[j] * from
    <2>1. digits[j] \in 0..(to - 1) /\ t = c + digits[j] * from
      BY <1>3
    <2> HIDE DEF t
    <2>2. Round(from, to, 0, digits[j], c, t)
      <3>1. 0 \in Nat
        OBVIOUS
      <3> QED
        BY <2>1, <3>1, RoundArithmetic
    <2> QED
      BY <2>2 DEF t, Round
  <1>5. step \in [1..n -> [Nat -> Nat]]
    BY <1>4
  <1>6. \E f : IsCarry(f)
    <2>1. PICK f \in [0..n -> Nat] : f[0] = next /\ \A j \in 1..n : f[j] = step[j][f[j - 1]]
      <3> HIDE DEF step
      <3>1. \E f \in [0..n -> Nat] : AreRounds(f, next, step, n)
        BY <1>1, <1>5, SomeRounds
      <3> QED
        BY <3>1 DEF AreRounds
    <2>2. ASSUME NEW j \in 0..n
          PROVE  f[j] = IF j = 0 THEN next ELSE (f[j - 1] + digits[j] * from) \div to
      <3>1. CASE j = 0
        BY <2>1, <3>1
      <3>2. CASE j # 0
        <4>1. j \in 1..n /\ f[j - 1] \in Nat
          BY <1>1, <2>1, <3>2
        <4>2. f[j] = step[j][f[j - 1]]
          BY <2>1, <4>1
        <4>3. step[j][f[j - 1]] = (f[j - 1] + digits[j] * from) \div to
          BY <4>1
        <4> QED
          BY <3>2, <4>2, <4>3
      <3> QED
        BY <3>1, <3>2
    <2>3. f = [j \in 0..n |-> f[j]]
      BY <2>1
    <2>4. IsCarry(f)
      BY <2>2, <2>3, Zenon
    <2> QED
      BY <2>4
  <1>7. IsCarry(carry)
    BY <1>6, Zenon
  <1> HIDE DEF carry, step
  <1>8. \A j \in 0..n : carry[j] = IF j = 0 THEN next ELSE (carry[j - 1] + digits[j] * from) \div to
    BY <1>7, Zenon
  <1>9. carry[0] = next /\ \A j \in 1..n : carry[j] = (carry[j - 1] + digits[j] * from) \div to
    <2>1. 0 \in 0..n
      BY <1>1
    <2>2. \A j \in 1..n : j \in 0..n /\ j # 0
      BY <1>1
    <2> QED
      BY <1>8, <2>1, <2>2, Zenon
  <1> DEFINE Natural == {j \in Nat : j <= n => carry[j] \in Nat}
  <1>10. \A j \in Nat : j \in Natural
    <2>1. 0 \in Natural
      BY <1>9
    <2>2. ASSUME NEW j \in Nat, j \in Natural
          PROVE  j + 1 \in Natural
      <3> SUFFICES ASSUME j + 1 <= n
                   PROVE  carry[j + 1] \in Nat
        OBVIOUS
      <3> DEFINE k == j + 1
      <3>1. k \in 1..n /\ k - 1 = j /\ carry[j] \in Nat
        BY <1>1, <2>2
      <3> HIDE DEF k
      <3>2. carry[k] = (carry[j] + digits[k] * from) \div to
        BY <1>9, <3>1
      <3>3. carry[k] \in Nat
        BY <1>4, <3>1, <3>2
      <3> QED
        BY <3>3 DEF k
    <2> HIDE DEF Natural
    <2> QED
      BY <2>1, <2>2, AllNumbers
  <1>11. carry \in [0..n -> Nat]
    <2>1. carry = [j \in 0..n |-> IF j = 0 THEN next ELSE (carry[j - 1] + digits[j] * from) \div to]
      BY <1>7, Zenon
    <2>2. DOMAIN carry = 0..n
      BY <2>1, Zenon
    <2>3. \A j \in 0..n : carry[j] \in Nat
      BY <1>1, <1>10
    <2>4. carry = [j \in DOMAIN carry |-> carry[j]]
      BY <2>1, Zenon
    <2> QED
      BY <2>2, <2>3, <2>4
  <1>12. Carries(digits, next, from, to, carry)
    BY <1>9, <1>11 DEF Carries, n
  <1>13. TakeDigit(digits, next, from, to) =
             LowDigits(digits, from, to, carry) \o CarryOut(carry[Len(digits)], to)
    BY <1>2 DEF LowDigits, n
  <1> QED
    BY <1>12, <1>13

(* The digits so far, which are at least one. *)
Numeral(digits, base, v) ==
    IsLowFirst(digits, base, v) /\ Len(digits) >= 1 /\ (Len(digits) > 1 => NoHighZero(digits))

(* A round takes the value to value * from + next.                            *)
LEMMA OneRound ==
    ASSUME NEW from, NEW to, Bases(from, to), NEW digits, NEW v, Numeral(digits, to, v),
           NEW next \in Nat
    PROVE  Numeral(TakeDigit(digits, next, from, to), to, v * from + next)
  <1> DEFINE n == Len(digits)
             out == TakeDigit(digits, next, from, to)
  <1>1. PICK w : LowFirst(digits, to, w) /\ w[1] = v
    BY DEF Numeral, IsLowFirst
  <1>0. digits \in Seq(0..(to - 1)) /\ n \in Nat
    BY <1>1 DEF LowFirst
  <1>3. from \in Nat /\ to \in {58, 256} /\ to \in Nat
    BY DEF Bases
  <1>2. /\ digits \in Seq(0..(to - 1)) /\ n \in Nat /\ n >= 1
        /\ w \in [1..(n + 1) -> Nat] /\ w[n + 1] = 0
        /\ \A i \in 1..n : w[i] = to * w[i + 1] + digits[i]
        /\ \A i \in 1..n : digits[i] \in 0..(to - 1)
        /\ n > 1 => digits[n] # 0
    <2>1. /\ w \in [1..(n + 1) -> Nat] /\ w[n + 1] = 0
          /\ \A i \in 1..n : w[i] = to * w[i + 1] + digits[i]
      BY <1>1 DEF LowFirst
    <2>2. n >= 1 /\ (n > 1 => digits[n] # 0)
      BY <1>0 DEF Numeral, NoHighZero
    <2>3. \A i \in 1..n : digits[i] \in 0..(to - 1)
      BY <1>0, <1>3
    <2> QED
      BY <1>0, <2>1, <2>2, <2>3
  <1>4. PICK carry : /\ Carries(digits, next, from, to, carry)
                     /\ out = LowDigits(digits, from, to, carry) \o CarryOut(carry[n], to)
    BY <1>2, TakeDigitEquation
  <1>5. /\ carry \in [0..n -> Nat] /\ carry[0] = next
        /\ \A j \in 1..n : carry[j] = (carry[j - 1] + digits[j] * from) \div to
    BY <1>4 DEF Carries
  <1> DEFINE low == LowDigits(digits, from, to, carry)
             high == CarryOut(carry[n], to)
             m == Len(high)
  <1>6. CarriesOut(high, to, carry[n])
    <2>1. carry[n] \in Nat
      BY <1>2, <1>5
    <2> QED
      BY <1>3, <2>1, CarryOutDigits
  <1>7. PICK r : LowFirst(high, to, r) /\ r[1] = carry[n]
    BY <1>6 DEF CarriesOut, IsLowFirst
  <1>8. /\ high \in Seq(0..(to - 1)) /\ m \in Nat
        /\ r \in [1..(m + 1) -> Nat] /\ r[m + 1] = 0
        /\ \A i \in 1..m : r[i] = to * r[i + 1] + high[i]
    BY <1>7 DEF LowFirst
  <1> HIDE DEF n
  <1>9. \A j \in 1..n : /\ digits[j] \in 0..(to - 1) /\ carry[j - 1] \in Nat /\ carry[j] \in Nat
                        /\ w[j] \in Nat /\ w[j + 1] \in Nat
    <2> SUFFICES ASSUME NEW j \in 1..n
                 PROVE  /\ digits[j] \in 0..(to - 1) /\ carry[j - 1] \in Nat /\ carry[j] \in Nat
                        /\ w[j] \in Nat /\ w[j + 1] \in Nat
      OBVIOUS
    <2>1. j \in 0..n /\ j - 1 \in 0..n /\ j \in 1..(n + 1) /\ j + 1 \in 1..(n + 1)
      BY <1>2
    <2> QED
      BY <1>2, <1>5, <2>1
  <1>10. ASSUME NEW j \in 1..n
         PROVE  /\ low[j] \in 0..(to - 1)
                /\ w[j] * from + carry[j - 1] = to * (w[j + 1] * from + carry[j]) + low[j]
                /\ carry[j] = 0 /\ digits[j] # 0 => low[j] # 0
                /\ w[j] * from \in Nat
    <2> DEFINE t == carry[j - 1] + digits[j] * from
    <2>1. low[j] = t % to /\ carry[j] = t \div to
      BY <1>5 DEF LowDigits, n
    <2>2. w[j] = to * w[j + 1] + digits[j]
      BY <1>2
    <2> HIDE DEF low
    <2>3. t = carry[j - 1] + digits[j] * from
      OBVIOUS
    <2> HIDE DEF t
    <2>4. /\ t % to \in 0..(to - 1)
          /\ (to * w[j + 1] + digits[j]) * from + carry[j - 1] =
                 to * (w[j + 1] * from + (t \div to)) + (t % to)
          /\ (t \div to = 0 /\ digits[j] # 0 => t % to # 0)
      <3>1. w[j + 1] \in Nat /\ digits[j] \in 0..(to - 1) /\ carry[j - 1] \in Nat
        BY <1>9
      <3>2. Round(from, to, w[j + 1], digits[j], carry[j - 1], t)
        BY <2>3, <3>1, RoundArithmetic
      <3> QED
        BY <3>2 DEF Round
    <2>5. w[j] * from \in Nat
      BY <1>3, <1>9
    <2> QED
      BY <2>1, <2>2, <2>4, <2>5
  <1>11. low \in Seq(0..(to - 1)) /\ Len(low) = n
    <2>1. low = [j \in 1..n |-> low[j]]
      BY DEF LowDigits, n
    <2> HIDE DEF low
    <2>2. \A j \in 1..n : low[j] \in 0..(to - 1)
      BY <1>10
    <2> DEFINE S == 0..(to - 1)
    <2>3. low \in [1..n -> S]
      BY <2>1, <2>2
    <2> HIDE DEF S
    <2>4. low \in Seq(S) /\ Len(low) = n
      BY <1>2, <2>3
    <2> QED
      BY <2>4 DEF S
  <1> HIDE DEF low, high, m
  <1>12. /\ Joined(low, high) \in Seq(0..(to - 1)) /\ AreJoined(Joined(low, high), low, high)
    BY <1>8, <1>11, JoinedPlaces
  <1>13. out = Joined(low, high)
    BY <1>4 DEF Joined, low, high
  <1> HIDE DEF out
  <1>14. /\ out \in Seq(0..(to - 1)) /\ Len(out) = n + m
         /\ \A i \in 1..n : out[i] = low[i]
         /\ \A i \in 1..m : out[n + i] = high[i]
    BY <1>11, <1>12, <1>13 DEF AreJoined, m
  <1> DEFINE u == [i \in 1..(n + m + 1) |-> IF i <= n THEN w[i] * from + carry[i - 1] ELSE r[i - n]]
  <1>15. u \in [1..(Len(out) + 1) -> Nat]
    <2> SUFFICES ASSUME NEW i \in 1..(n + m + 1)
                 PROVE  (IF i <= n THEN w[i] * from + carry[i - 1] ELSE r[i - n]) \in Nat
      BY <1>14
    <2>1. CASE i <= n
      <3>1. i \in 1..n
        BY <1>2, <1>8, <2>1
      <3> QED
        BY <1>9, <1>10, <2>1, <3>1
    <2>2. CASE i > n
      <3>1. i - n \in 1..(m + 1)
        BY <1>2, <1>8, <2>2
      <3> QED
        BY <1>2, <1>8, <2>2, <3>1
    <2> QED
      BY <1>2, <2>1, <2>2
  <1>16. /\ u[1] = v * from + next
         /\ \A i \in 1..n : u[i] = w[i] * from + carry[i - 1]
         /\ \A i \in 1..(m + 1) : u[n + i] = r[i]
    <2>1. \A i \in 1..n : i \in 1..(n + m + 1) /\ i <= n
      BY <1>2, <1>8
    <2>2. \A i \in 1..(m + 1) : n + i \in 1..(n + m + 1) /\ ~(n + i <= n) /\ (n + i) - n = i
      BY <1>2, <1>8
    <2>3. \A i \in 1..n : u[i] = w[i] * from + carry[i - 1]
      BY <2>1
    <2>4. \A i \in 1..(m + 1) : u[n + i] = r[i]
      BY <2>2
    <2>5. u[1] = w[1] * from + carry[0]
      BY <1>2, <2>3
    <2> QED
      BY <1>1, <1>5, <2>3, <2>4, <2>5
  <1> HIDE DEF u
  <1>17. u[Len(out) + 1] = 0
    <2>1. n + (m + 1) = Len(out) + 1 /\ m + 1 \in 1..(m + 1)
      BY <1>2, <1>8, <1>14
    <2> QED
      BY <1>8, <1>16, <2>1
  <1>18. ASSUME NEW i \in 1..Len(out)
         PROVE  u[i] = to * u[i + 1] + out[i]
    <2>1. CASE i < n
      <3>1. i \in 1..n /\ i + 1 \in 1..n /\ (i + 1) - 1 = i
        BY <1>2, <2>1
      <3>2. u[i] = w[i] * from + carry[i - 1] /\ u[i + 1] = w[i + 1] * from + carry[i]
        BY <1>16, <3>1
      <3> QED
        BY <1>10, <1>14, <3>1, <3>2
    <2>2. CASE i = n
      <3>1. i \in 1..n /\ 1 \in 1..(m + 1)
        BY <1>2, <1>8, <2>2
      <3>2. u[i] = w[i] * from + carry[i - 1] /\ u[i + 1] = r[1]
        BY <1>16, <2>2, <3>1
      <3>3. w[i + 1] * from + carry[i] = u[i + 1]
        <4>1. w[i + 1] = 0 /\ 0 * from = 0
          BY <1>2, <1>3, <2>2
        <4>2. carry[i] = u[i + 1] /\ carry[i] \in Nat
          BY <1>7, <1>9, <2>2, <3>1, <3>2
        <4> QED
          BY <4>1, <4>2
      <3> QED
        BY <1>10, <1>14, <3>1, <3>2, <3>3
    <2>3. CASE i > n
      <3> DEFINE j == i - n
      <3>1. j \in 1..m /\ j \in 1..(m + 1) /\ j + 1 \in 1..(m + 1) /\ i = n + j /\ i + 1 = n + (j + 1)
        BY <1>2, <1>8, <1>14, <2>3
      <3> HIDE DEF j
      <3>2. u[i] = r[j] /\ u[i + 1] = r[j + 1] /\ out[i] = high[j]
        BY <1>14, <1>16, <3>1
      <3> QED
        BY <1>8, <3>1, <3>2
    <2> QED
      BY <1>2, <1>14, <2>1, <2>2, <2>3
  <1>19. IsLowFirst(out, to, v * from + next)
    <2>1. LowFirst(out, to, u)
      BY <1>14, <1>15, <1>17, <1>18 DEF LowFirst
    <2> QED
      BY <1>16, <2>1 DEF IsLowFirst
  <1>20. Len(out) >= 1
    BY <1>2, <1>8, <1>14
  <1>21. Len(out) > 1 => NoHighZero(out)
    <2> SUFFICES ASSUME Len(out) > 1
                 PROVE  out[Len(out)] # 0
      BY DEF NoHighZero
    <2>1. CASE m > 0
      <3>1. high[m] # 0
        BY <1>6, <2>1 DEF CarriesOut, NoHighZero, high, m
      <3>2. m \in 1..m /\ Len(out) = n + m
        BY <1>8, <1>14, <2>1
      <3>3. out[n + m] = high[m]
        BY <1>14, <3>2
      <3> QED
        BY <3>1, <3>2, <3>3
    <2>2. CASE m = 0
      <3>1. Len(out) = n /\ n > 1 /\ n \in 1..n
        BY <1>2, <1>14, <2>2
      <3>2. carry[n] = 0 /\ digits[n] # 0
        BY <1>2, <1>7, <1>8, <2>2, <3>1
      <3>3. out[n] = low[n] /\ low[n] # 0
        BY <1>10, <1>14, <3>1, <3>2
      <3> QED
        BY <3>1, <3>3
    <2> QED
      BY <1>8, <2>1, <2>2
  <1> QED
    BY <1>19, <1>20, <1>21 DEF Numeral, out

-----------------------------------------------------------------------------
(* What a sequence of digits is worth.                                       *)

(* The worth of digits whose highest comes first: of the first i of them.     *)
HighFirst(digits, base, v) ==
    /\ digits \in Seq(0..(base - 1))
    /\ v \in [0..Len(digits) -> Nat]
    /\ v[0] = 0
    /\ \A i \in 1..Len(digits) : v[i] = base * v[i - 1] + digits[i]

IsHighFirst(digits, base, n) == \E v : HighFirst(digits, base, v) /\ v[Len(digits)] = n

(* Every sequence of digits is worth a number.                                *)
LEMMA HighFirstExists ==
    ASSUME NEW base \in Nat, NEW digits \in Seq(0..(base - 1))
    PROVE  \E n \in Nat : IsHighFirst(digits, base, n)
  <1> DEFINE size == Len(digits)
             step == [i \in 1..size |-> [t \in Nat |-> base * t + digits[i]]]
  <1>1. size \in Nat /\ \A i \in 1..size : digits[i] \in Nat
    OBVIOUS
  <1> HIDE DEF size
  <1>2. step \in [1..size -> [Nat -> Nat]]
    BY <1>1
  <1>3. \E v \in [0..size -> Nat] : AreRounds(v, 0, step, size)
    <2> HIDE DEF step
    <2>1. 0 \in Nat
      OBVIOUS
    <2> QED
      BY <1>1, <1>2, <2>1, SomeRounds
  <1>4. PICK v \in [0..size -> Nat] : AreRounds(v, 0, step, size)
    BY <1>3
  <1>5. \A i \in 1..size : v[i] = base * v[i - 1] + digits[i]
    <2> SUFFICES ASSUME NEW i \in 1..size
                 PROVE  v[i] = base * v[i - 1] + digits[i]
      OBVIOUS
    <2>1. v[i - 1] \in Nat
      BY <1>1
    <2>2. v[i] = step[i][v[i - 1]]
      BY <1>4 DEF AreRounds
    <2>3. step[i][v[i - 1]] = base * v[i - 1] + digits[i]
      BY <2>1
    <2> QED
      BY <2>2, <2>3
  <1>6. HighFirst(digits, base, v)
    BY <1>4, <1>5 DEF HighFirst, AreRounds, size
  <1>7. v[size] \in Nat
    BY <1>1
  <1> QED
    BY <1>6, <1>7 DEF IsHighFirst, size

(* Digits converts: the rounds take in one digit after the other.             *)
LEMMA DigitsWorth ==
    ASSUME NEW from, NEW to, Bases(from, to), NEW in, NEW n, IsHighFirst(in, from, n)
    PROVE  Numeral(Digits(in, from, to), to, n)
  <1>1. PICK v : HighFirst(in, from, v) /\ v[Len(in)] = n
    BY DEF IsHighFirst
  <1> DEFINE size == Len(in)
             IsUpto(f) == f = [i \in 0..size |-> IF i = 0 THEN <<0>>
                                                 ELSE TakeDigit(f[i - 1], in[i], from, to)]
             upto == CHOOSE f : IsUpto(f)
             S == {t \in Seq(0..(to - 1)) : \E m \in Nat : Numeral(t, to, m)}
             step == [i \in 1..size |-> [t \in S |-> TakeDigit(t, in[i], from, to)]]
  <1>2. in \in Seq(0..(from - 1)) /\ size \in Nat /\ from \in Nat /\ to \in Nat /\ to > 0
    BY <1>1 DEF HighFirst, Bases
  <1>3. /\ \A i \in 1..size : in[i] \in Nat
        /\ v \in [0..size -> Nat] /\ v[0] = 0 /\ v[size] = n
        /\ \A i \in 1..size : v[i] = from * v[i - 1] + in[i]
    <2>1. \A i \in 1..size : in[i] \in 0..(from - 1)
      BY <1>2
    <2>2. \A i \in 1..size : in[i] \in Nat
      BY <1>2, <2>1
    <2> QED
      BY <1>1, <2>2 DEF HighFirst
  <1>4. Digits(in, from, to) = upto[size]
    BY DEF Digits
  <1> HIDE DEF size
  <1>5. \A t, m : Numeral(t, to, m) => t \in Seq(0..(to - 1)) /\ m \in Nat
    <2> SUFFICES ASSUME NEW t, NEW m, Numeral(t, to, m)
                 PROVE  t \in Seq(0..(to - 1)) /\ m \in Nat
      OBVIOUS
    <2>1. PICK w : LowFirst(t, to, w) /\ w[1] = m
      BY DEF Numeral, IsLowFirst
    <2>2. t \in Seq(0..(to - 1)) /\ Len(t) \in Nat /\ w \in [1..(Len(t) + 1) -> Nat]
      BY <2>1 DEF LowFirst
    <2> QED
      BY <2>1, <2>2
  <1>6. Numeral(<<0>>, to, 0)
    <2> DEFINE w == [i \in 1..2 |-> 0]
    <2>1. <<0>> \in Seq(0..(to - 1)) /\ Len(<<0>>) = 1 /\ <<0>>[1] = 0
      BY <1>2
    <2>2. w \in [1..(1 + 1) -> Nat] /\ w[1 + 1] = 0 /\ w[1] = 0
      OBVIOUS
    <2>3. to * 0 = 0
      BY <1>2
    <2> HIDE DEF w
    <2>4. LowFirst(<<0>>, to, w)
      BY <2>1, <2>2, <2>3 DEF LowFirst
    <2> QED
      BY <2>1, <2>2, <2>4 DEF IsLowFirst, Numeral
  <1>7. step \in [1..size -> [S -> S]]
    <2> SUFFICES ASSUME NEW i \in 1..size, NEW t \in S
                 PROVE  TakeDigit(t, in[i], from, to) \in S
      OBVIOUS
    <2>1. PICK m \in Nat : Numeral(t, to, m)
      OBVIOUS
    <2>2. Numeral(TakeDigit(t, in[i], from, to), to, m * from + in[i])
      BY <1>3, <2>1, OneRound
    <2> HIDE DEF S
    <2> QED
      BY <1>5, <2>2 DEF S
  <1>8. \E f : IsUpto(f)
    <2>1. <<0>> \in S
      BY <1>5, <1>6
    <2>2. \E f \in [0..size -> S] : AreRounds(f, <<0>>, step, size)
      <3> HIDE DEF S, step
      <3> QED
        BY <1>2, <1>7, <2>1, SomeRounds
    <2>3. PICK f \in [0..size -> S] : AreRounds(f, <<0>>, step, size)
      BY <2>2
    <2> HIDE DEF S
    <2>4. ASSUME NEW i \in 0..size
          PROVE  f[i] = IF i = 0 THEN <<0>> ELSE TakeDigit(f[i - 1], in[i], from, to)
      <3>1. CASE i = 0
        BY <2>3, <3>1 DEF AreRounds
      <3>2. CASE i # 0
        <4>1. i \in 1..size /\ f[i - 1] \in S
          BY <1>2, <2>3, <3>2
        <4>2. f[i] = step[i][f[i - 1]]
          BY <2>3, <4>1 DEF AreRounds
        <4>3. step[i][f[i - 1]] = TakeDigit(f[i - 1], in[i], from, to)
          BY <4>1
        <4> QED
          BY <3>2, <4>2, <4>3
      <3> QED
        BY <3>1, <3>2
    <2>5. f = [i \in 0..size |-> f[i]]
      BY <2>3
    <2>6. IsUpto(f)
      BY <2>4, <2>5, Zenon
    <2> QED
      BY <2>6
  <1>9. IsUpto(upto)
    BY <1>8, Zenon
  <1> HIDE DEF upto, S, step
  <1>10. \A i \in 0..size : upto[i] = IF i = 0 THEN <<0>> ELSE TakeDigit(upto[i - 1], in[i], from, to)
    BY <1>9, Zenon
  <1> DEFINE Right == {i \in Nat : i <= size => Numeral(upto[i], to, v[i])}
  <1>11. \A i \in Nat : i \in Right
    <2>1. 0 \in Right
      <3>1. upto[0] = <<0>>
        BY <1>2, <1>10
      <3> QED
        BY <1>3, <1>6, <3>1
    <2>2. ASSUME NEW i \in Nat, i \in Right
          PROVE  i + 1 \in Right
      <3> SUFFICES ASSUME i + 1 <= size
                   PROVE  Numeral(upto[i + 1], to, v[i + 1])
        OBVIOUS
      <3> DEFINE k == i + 1
      <3>1. k \in 1..size /\ k \in 0..size /\ k # 0 /\ k - 1 = i /\ i \in 0..size
        BY <1>2
      <3>2. Numeral(upto[i], to, v[i])
        BY <1>2, <2>2
      <3> HIDE DEF k
      <3>3. upto[k] = TakeDigit(upto[i], in[k], from, to)
        BY <1>10, <3>1
      <3>4. Numeral(upto[k], to, v[i] * from + in[k])
        BY <1>3, <3>1, <3>2, <3>3, OneRound
      <3>5. v[i] * from + in[k] = v[k]
        <4>1. v[k] = from * v[i] + in[k] /\ v[i] \in Nat
          BY <1>3, <3>1
        <4> QED
          BY <1>2, <4>1
      <3> QED
        BY <3>4, <3>5 DEF k
    <2> HIDE DEF Right
    <2> QED
      BY <2>1, <2>2, AllNumbers
  <1>12. Numeral(upto[size], to, v[size])
    BY <1>2, <1>11
  <1> QED
    BY <1>3, <1>4, <1>12

(* Turned around, the highest digit comes first. *)
LEMMA TurnedAround ==
    ASSUME NEW base \in Nat, NEW digits, NEW n, IsLowFirst(digits, base, n)
    PROVE  IsHighFirst(Reverse(digits), base, n)
  <1>1. PICK w : LowFirst(digits, base, w) /\ w[1] = n
    BY DEF IsLowFirst
  <1> DEFINE size == Len(digits)
             turned == Reverse(digits)
             v == [i \in 0..size |-> w[(size - i) + 1]]
             S == 0..(base - 1)
  <1>2. /\ digits \in Seq(S) /\ size \in Nat
        /\ w \in [1..(size + 1) -> Nat] /\ w[size + 1] = 0
        /\ \A i \in 1..size : w[i] = base * w[i + 1] + digits[i]
    BY <1>1 DEF LowFirst
  <1> HIDE DEF S
  <1>3. /\ turned \in Seq(S) /\ Len(turned) = size
        /\ \A i \in 1..size : turned[i] = digits[(size - i) + 1]
    BY <1>2 DEF Reverse
  <1> HIDE DEF size, turned
  <1>4. v \in [0..size -> Nat] /\ v[0] = 0 /\ v[size] = n
    <2>1. \A i \in 0..size : (size - i) + 1 \in 1..(size + 1)
      BY <1>2
    <2>2. v \in [0..size -> Nat]
      BY <1>2, <2>1
    <2>3. v[0] = w[size + 1] /\ v[size] = w[1]
      BY <1>2
    <2> QED
      BY <1>1, <1>2, <2>2, <2>3
  <1>5. ASSUME NEW i \in 1..size
        PROVE  v[i] = base * v[i - 1] + turned[i]
    <2> DEFINE k == (size - i) + 1
    <2>1. k \in 1..size /\ (size - (i - 1)) + 1 = k + 1 /\ i \in 0..size /\ i - 1 \in 0..size
      BY <1>2
    <2>2. v[i] = w[k] /\ v[i - 1] = w[k + 1]
      BY <2>1
    <2>3. turned[i] = digits[k]
      BY <1>3
    <2>4. w[k] = base * w[k + 1] + digits[k]
      BY <1>2, <2>1
    <2> HIDE DEF v, k
    <2> QED
      BY <2>2, <2>3, <2>4
  <1> HIDE DEF v
  <1>6. HighFirst(turned, base, v)
    BY <1>3, <1>4, <1>5 DEF HighFirst, S
  <1> QED
    BY <1>3, <1>4, <1>6 DEF IsHighFirst, turned

-----------------------------------------------------------------------------
(* Zeros in front.                                                           *)

(* There are k zeros in front, and what follows is not a zero.                *)
BeginsWithZeros(digits, k) ==
    /\ k \in 0..Len(digits)
    /\ \A i \in 1..k : digits[i] = 0
    /\ k < Len(digits) => digits[k + 1] # 0

(* Zeros counts them. *)
LEMMA ZerosInFront ==
    ASSUME NEW digits \in Seq(Nat)
    PROVE  BeginsWithZeros(digits, Zeros(digits))
  <1> DEFINE n == Len(digits)
             all == Append(digits, 1)
             I == {i \in 1..(n + 1) : all[i] # 0}
             first == Min(I)
  <1>1. /\ n \in Nat /\ Len(all) = n + 1 /\ all[n + 1] = 1
        /\ \A i \in 1..n : all[i] = digits[i]
    OBVIOUS
  <1>2. Zeros(digits) = (IF I # {} THEN first ELSE 0) - 1
    <2>1. I = {i \in 1..Len(all) : all[i] # 0}
      BY <1>1
    <2> HIDE DEF all, n
    <2> QED
      BY <2>1 DEF Zeros, SelectInSeq, all
  <1> HIDE DEF n, all
  <1>3. n + 1 \in I
    BY <1>1
  <1>4. \E i \in I : \A j \in I : i <= j
    <2>1. I \in SUBSET Nat /\ I # {}
      BY <1>1, <1>3
    <2> HIDE DEF I
    <2> QED
      BY <2>1, LeastNumber
  <1>5. first \in I /\ \A j \in I : first <= j
    <2> HIDE DEF I
    <2> QED
      BY <1>4 DEF Min
  <1>6. Zeros(digits) = first - 1
    BY <1>2, <1>3
  <1> HIDE DEF first
  <1>7. first \in 1..(n + 1) /\ all[first] # 0
    BY <1>5
  <1>8. \A i \in 1..(first - 1) : digits[i] = 0
    BY <1>1, <1>5, <1>7
  <1>9. first - 1 < n => digits[(first - 1) + 1] # 0
    BY <1>1, <1>7
  <1> QED
    BY <1>1, <1>6, <1>7, <1>8, <1>9 DEF BeginsWithZeros, n

LEMMA OneCount ==
    ASSUME NEW digits \in Seq(Nat), NEW j, NEW k, BeginsWithZeros(digits, j), BeginsWithZeros(digits, k)
    PROVE  j = k
  BY DEF BeginsWithZeros

(* What is left without them. *)
LEMMA TheRest ==
    ASSUME NEW base \in Nat, NEW digits \in Seq(0..(base - 1)), NEW k, k = Zeros(digits)
    PROVE  /\ BeginsWithZeros(digits, k)
           /\ WithoutZeros(digits) \in Seq(0..(base - 1))
           /\ Len(WithoutZeros(digits)) = Len(digits) - k
           /\ \A i \in 1..(Len(digits) - k) : WithoutZeros(digits)[i] = digits[k + i]
           /\ BeginsWithZeros(WithoutZeros(digits), 0)
  <1> DEFINE S == 0..(base - 1)
             n == Len(digits)
             rest == WithoutZeros(digits)
  <1>1. digits \in Seq(S) /\ n \in Nat /\ digits \in Seq(Nat)
    <2>1. S \subseteq Nat
      OBVIOUS
    <2> HIDE DEF S
    <2> QED
      BY <2>1, WiderSeq DEF S
  <1>2. BeginsWithZeros(digits, k) /\ k \in 0..n
    BY <1>1, ZerosInFront DEF BeginsWithZeros
  <1>3. rest = SubSeq(digits, k + 1, n)
    BY DEF WithoutZeros
  <1> HIDE DEF rest, n, S
  <1>4. rest \in Seq(S) /\ IsPart(rest, digits, k + 1, n)
    <2>1. k + 1 \in Nat /\ 1 <= k + 1 /\ k + 1 <= n + 1 /\ n <= Len(digits)
      BY <1>1, <1>2 DEF n
    <2> QED
      BY <1>1, <1>3, <2>1, PartOfList
  <1>5. Len(rest) = n - k /\ \A i \in 1..(n - k) : rest[i] = digits[k + i]
    BY <1>1, <1>2, <1>4 DEF IsPart
  <1>6. BeginsWithZeros(rest, 0)
    <2> SUFFICES ASSUME 0 < Len(rest)
                 PROVE  rest[1] # 0
      BY <1>1, <1>2, <1>5 DEF BeginsWithZeros
    <2>1. 1 \in 1..(n - k) /\ k < n
      BY <1>1, <1>2, <1>5
    <2>2. rest[1] = digits[k + 1] /\ digits[k + 1] # 0
      BY <1>2, <1>5, <2>1 DEF BeginsWithZeros, n
    <2> QED
      BY <2>2
  <1> QED
    BY <1>2, <1>4, <1>5, <1>6 DEF rest, n, S

(* They are worth nothing. *)
LEMMA ZerosAreWorthNothing ==
    ASSUME NEW base \in Nat, NEW digits, NEW n, IsHighFirst(digits, base, n)
    PROVE  IsHighFirst(WithoutZeros(digits), base, n)
  <1>1. PICK v : HighFirst(digits, base, v) /\ v[Len(digits)] = n
    BY DEF IsHighFirst
  <1> DEFINE S == 0..(base - 1)
             size == Len(digits)
             k == Zeros(digits)
             rest == WithoutZeros(digits)
             more == [i \in 0..(size - k) |-> v[k + i]]
  <1>2. /\ digits \in Seq(S) /\ size \in Nat
        /\ v \in [0..size -> Nat] /\ v[0] = 0 /\ v[size] = n
        /\ \A i \in 1..size : v[i] = base * v[i - 1] + digits[i]
    BY <1>1 DEF HighFirst
  <1>3. /\ BeginsWithZeros(digits, k) /\ rest \in Seq(S) /\ Len(rest) = size - k
        /\ \A i \in 1..(size - k) : rest[i] = digits[k + i]
    BY <1>2, TheRest
  <1> HIDE DEF S, size, k, rest
  <1>4. k \in 0..size /\ k \in Nat /\ \A i \in 1..k : digits[i] = 0
    BY <1>2, <1>3 DEF BeginsWithZeros, size
  <1> DEFINE Nothing == {i \in Nat : i <= k => v[i] = 0}
  <1>5. k \in Nothing
    <2>1. 0 \in Nothing
      BY <1>2
    <2>2. ASSUME NEW i \in Nat, i \in Nothing
          PROVE  i + 1 \in Nothing
      <3> SUFFICES ASSUME i + 1 <= k
                   PROVE  v[i + 1] = 0
        OBVIOUS
      <3> DEFINE j == i + 1
      <3>1. j \in 1..size /\ j \in 1..k /\ j - 1 = i /\ v[i] = 0
        BY <1>2, <1>4, <2>2
      <3> HIDE DEF j
      <3>2. v[j] = base * v[i] + digits[j] /\ digits[j] = 0 /\ base * 0 = 0
        BY <1>2, <1>4, <3>1
      <3>3. v[j] = 0
        BY <3>1, <3>2
      <3> QED
        BY <3>3 DEF j
    <2> HIDE DEF Nothing
    <2> QED
      BY <1>4, <2>1, <2>2, AllNumbers
  <1>6. more \in [0..(size - k) -> Nat] /\ more[0] = 0 /\ more[size - k] = n
    <2>1. \A i \in 0..(size - k) : k + i \in 0..size
      BY <1>2, <1>4
    <2>2. v[k] = 0 /\ k + 0 = k /\ k + (size - k) = size /\ 0 \in 0..(size - k) /\ size - k \in 0..(size - k)
      BY <1>2, <1>4, <1>5
    <2> QED
      BY <1>2, <2>1, <2>2
  <1>7. ASSUME NEW i \in 1..(size - k)
        PROVE  more[i] = base * more[i - 1] + rest[i]
    <2> DEFINE j == k + i
    <2>1. /\ j \in 1..size /\ j - 1 = k + (i - 1) /\ i \in 0..(size - k) /\ i - 1 \in 0..(size - k)
      BY <1>2, <1>4
    <2>2. more[i] = v[j] /\ more[i - 1] = v[j - 1] /\ rest[i] = digits[j]
      BY <1>3, <2>1
    <2>3. v[j] = base * v[j - 1] + digits[j]
      BY <1>2, <2>1
    <2> HIDE DEF more, j
    <2> QED
      BY <2>2, <2>3
  <1> HIDE DEF more
  <1>8. HighFirst(rest, base, more)
    BY <1>3, <1>6, <1>7 DEF HighFirst, S
  <1> QED
    BY <1>3, <1>6, <1>8 DEF IsHighFirst, rest

(* Nor are those that are put in front. *)
AfterZeros(k, digits) == [i \in 1..k |-> 0] \o digits

LEMMA ZerosPutInFront ==
    ASSUME NEW base \in Nat \ {0}, NEW digits \in Seq(0..(base - 1)), NEW k \in Nat
    PROVE  /\ AfterZeros(k, digits) \in Seq(0..(base - 1))
           /\ Len(AfterZeros(k, digits)) = k + Len(digits)
           /\ \A i \in 1..k : AfterZeros(k, digits)[i] = 0
           /\ \A i \in 1..Len(digits) : AfterZeros(k, digits)[k + i] = digits[i]
  <1> DEFINE S == 0..(base - 1)
             zeros == [i \in 1..k |-> 0]
  <1>1. 0 \in S /\ digits \in Seq(S)
    OBVIOUS
  <1> HIDE DEF S
  <1>2. zeros \in Seq(S) /\ Len(zeros) = k /\ \A i \in 1..k : zeros[i] = 0
    BY <1>1
  <1> HIDE DEF zeros
  <1>3. Joined(zeros, digits) \in Seq(S) /\ AreJoined(Joined(zeros, digits), zeros, digits)
    BY <1>1, <1>2, JoinedPlaces
  <1>4. AfterZeros(k, digits) = Joined(zeros, digits)
    BY DEF AfterZeros, Joined, zeros
  <1> QED
    BY <1>2, <1>3, <1>4 DEF AreJoined, S

LEMMA ZerosInFrontAreWorthNothing ==
    ASSUME NEW base \in Nat \ {0}, NEW digits, NEW n, IsHighFirst(digits, base, n), NEW k \in Nat
    PROVE  IsHighFirst(AfterZeros(k, digits), base, n)
  <1>1. PICK v : HighFirst(digits, base, v) /\ v[Len(digits)] = n
    BY DEF IsHighFirst
  <1> DEFINE S == 0..(base - 1)
             size == Len(digits)
             all == AfterZeros(k, digits)
             more == [i \in 0..(k + size) |-> IF i < k THEN 0 ELSE v[i - k]]
  <1>2. /\ digits \in Seq(S) /\ size \in Nat
        /\ v \in [0..size -> Nat] /\ v[0] = 0 /\ v[size] = n
        /\ \A i \in 1..size : v[i] = base * v[i - 1] + digits[i]
    BY <1>1 DEF HighFirst
  <1>3. /\ all \in Seq(S) /\ Len(all) = k + size
        /\ \A i \in 1..k : all[i] = 0
        /\ \A i \in 1..size : all[k + i] = digits[i]
    BY <1>2, ZerosPutInFront
  <1> HIDE DEF S, size, all
  <1>4. /\ \A i \in 0..k : more[i] = 0
        /\ \A i \in 0..size : more[k + i] = v[i]
    <2>1. \A i \in 0..size : k + i \in 0..(k + size) /\ ~(k + i < k) /\ (k + i) - k = i
      BY <1>2
    <2>2. \A i \in 0..size : more[k + i] = v[i]
      BY <2>1
    <2>3. \A i \in 0..k : i < k => more[i] = 0
      BY <1>2
    <2>4. more[k] = 0
      <3>1. more[k + 0] = v[0] /\ k + 0 = k
        BY <1>2, <2>2
      <3> QED
        BY <1>2, <3>1
    <2>5. \A i \in 0..k : i < k \/ i = k
      OBVIOUS
    <2> QED
      BY <2>2, <2>3, <2>4, <2>5
  <1>5. more \in [0..(k + size) -> Nat]
    <2> SUFFICES ASSUME NEW i \in 0..(k + size)
                 PROVE  (IF i < k THEN 0 ELSE v[i - k]) \in Nat
      OBVIOUS
    <2>1. ~(i < k) => i - k \in 0..size
      BY <1>2
    <2> QED
      BY <1>2, <2>1
  <1> HIDE DEF more
  <1>6. more[0] = 0 /\ more[k + size] = n
    BY <1>2, <1>4
  <1>7. ASSUME NEW i \in 1..(k + size)
        PROVE  more[i] = base * more[i - 1] + all[i]
    <2>1. CASE i <= k
      <3>1. i \in 1..k /\ i \in 0..k /\ i - 1 \in 0..k
        BY <1>2, <2>1
      <3>2. more[i] = 0 /\ more[i - 1] = 0 /\ all[i] = 0 /\ base * 0 = 0
        BY <1>3, <1>4, <3>1
      <3> QED
        BY <3>2
    <2>2. CASE i > k
      <3> DEFINE j == i - k
      <3>1. j \in 1..size /\ j \in 0..size /\ j - 1 \in 0..size /\ i = k + j /\ i - 1 = k + (j - 1)
        BY <1>2, <2>2
      <3> HIDE DEF j
      <3>2. more[i] = v[j] /\ more[i - 1] = v[j - 1] /\ all[i] = digits[j]
        BY <1>3, <1>4, <3>1
      <3> QED
        BY <1>2, <3>1, <3>2
    <2> QED
      BY <1>2, <2>1, <2>2
  <1>8. HighFirst(all, base, more)
    BY <1>3, <1>5, <1>6, <1>7 DEF HighFirst, S
  <1> QED
    BY <1>3, <1>6, <1>8 DEF IsHighFirst, all

-----------------------------------------------------------------------------
(* Of the digits of a number, with no zero in front, there is one sequence.  *)

(* A number has one sequence of digits without zeros in front: one digit      *)
(* after the other is what is left of it, from the lowest up.                 *)
LEMMA NoLessThanOne ==
    ASSUME NEW b \in {58, 256}, NEW z, NEW worth, HighFirst(z, b, worth), BeginsWithZeros(z, 0),
           NEW i \in 1..Len(z)
    PROVE  worth[i] > 0
  <1> DEFINE n == Len(z)
             Positive == {j \in Nat : j < n => worth[j + 1] > 0}
  <1>1. /\ z \in Seq(0..(b - 1)) /\ n \in Nat
        /\ worth \in [0..n -> Nat] /\ worth[0] = 0
        /\ \A j \in 1..n : worth[j] = b * worth[j - 1] + z[j]
    BY DEF HighFirst
  <1>2. \A j \in 1..n : z[j] \in Nat
    BY <1>1
  <1>3. 0 < n => z[1] # 0
    BY DEF BeginsWithZeros
  <1> HIDE DEF n
  <1>4. 0 \in Positive
    <2> SUFFICES ASSUME 0 < n
                 PROVE  worth[1] > 0
      OBVIOUS
    <2>1. 1 \in 1..n /\ 1 - 1 = 0
      BY <1>1
    <2>2. worth[1] = b * worth[0] + z[1]
      BY <1>1, <2>1
    <2>3. z[1] \in Nat /\ z[1] # 0
      BY <1>2, <1>3, <2>1
    <2>4. worth[1] = b * 0 + z[1]
      BY <1>1, <2>2
    <2>5. CASE b = 58
      BY <2>3, <2>4, <2>5
    <2>6. CASE b = 256
      BY <2>3, <2>4, <2>6
    <2> QED
      BY <2>5, <2>6
  <1>5. ASSUME NEW j \in Nat, j \in Positive
        PROVE  j + 1 \in Positive
    <2> SUFFICES ASSUME j + 1 < n
                 PROVE  worth[(j + 1) + 1] > 0
      OBVIOUS
    <2> DEFINE k == (j + 1) + 1
    <2>1. k \in 1..n /\ k - 1 = j + 1 /\ worth[j + 1] > 0 /\ worth[j + 1] \in Nat
      BY <1>1, <1>5
    <2> HIDE DEF k
    <2>2. worth[k] = b * worth[j + 1] + z[k]
      BY <1>1, <2>1
    <2>3. worth[k] > 0
      <3>1. z[k] \in Nat
        BY <1>2, <2>1
      <3>2. CASE b = 58
        BY <2>1, <2>2, <3>1, <3>2
      <3>3. CASE b = 256
        BY <2>1, <2>2, <3>1, <3>3
      <3> QED
        BY <3>2, <3>3
    <2> QED
      BY <2>3 DEF k
  <1>6. \A j \in Nat : j \in Positive
    <2> HIDE DEF Positive
    <2> QED
      BY <1>4, <1>5, AllNumbers
  <1> QED
    <2>1. i - 1 \in Nat /\ i - 1 < n /\ (i - 1) + 1 = i
      BY <1>1 DEF n
    <2> QED
      BY <1>6, <2>1

(* The lowest digits are the same, and what is left above them. *)
SameFromBelow(x, v, y, w, k) ==
    /\ k <= Len(x) /\ k <= Len(y) => v[Len(x) - k] = w[Len(y) - k]
    /\ k < Len(x) /\ k < Len(y) => x[Len(x) - k] = y[Len(y) - k]

LEMMA LowestAreTheSame ==
    ASSUME NEW base \in {58, 256}, NEW x, NEW v, HighFirst(x, base, v),
           NEW y, NEW w, HighFirst(y, base, w), v[Len(x)] = w[Len(y)], NEW k \in Nat
    PROVE  SameFromBelow(x, v, y, w, k)
  <1> DEFINE m == Len(x)
             n == Len(y)
             Same == {j \in Nat : j <= m /\ j <= n => v[m - j] = w[n - j]}
  <1>1. /\ x \in Seq(0..(base - 1)) /\ m \in Nat /\ v \in [0..m -> Nat]
        /\ \A j \in 1..m : v[j] = base * v[j - 1] + x[j]
    BY DEF HighFirst
  <1>2. /\ y \in Seq(0..(base - 1)) /\ n \in Nat /\ w \in [0..n -> Nat]
        /\ \A j \in 1..n : w[j] = base * w[j - 1] + y[j]
    BY DEF HighFirst
  <1>3. /\ \A j \in 1..m : x[j] \in 0..(base - 1)
        /\ \A j \in 1..n : y[j] \in 0..(base - 1)
    <2> DEFINE S == 0..(base - 1)
    <2>1. x \in Seq(S) /\ y \in Seq(S)
      BY <1>1, <1>2
    <2> HIDE DEF S
    <2>2. (\A j \in 1..m : x[j] \in S) /\ (\A j \in 1..n : y[j] \in S)
      BY <2>1
    <2> QED
      BY <2>2 DEF S
  <1>4. v[m] = w[n]
    OBVIOUS
  <1> HIDE DEF m, n
  <1>5. ASSUME NEW j \in Nat, j < m, j < n, v[m - j] = w[n - j]
        PROVE  v[m - (j + 1)] = w[n - (j + 1)] /\ x[m - j] = y[n - j]
    <2> DEFINE p == m - j
               q == n - j
    <2>1. /\ p \in 1..m /\ q \in 1..n /\ p - 1 = m - (j + 1) /\ q - 1 = n - (j + 1)
          /\ p - 1 \in 0..m /\ q - 1 \in 0..n
      BY <1>1, <1>2, <1>5
    <2>2. v[p] = w[q]
      BY <1>5
    <2> HIDE DEF p, q
    <2>3. /\ v[p] = base * v[p - 1] + x[p] /\ w[q] = base * w[q - 1] + y[q]
          /\ v[p - 1] \in Nat /\ w[q - 1] \in Nat
          /\ x[p] \in 0..(base - 1) /\ y[q] \in 0..(base - 1)
      BY <1>1, <1>2, <1>3, <2>1
    <2>4. base * v[p - 1] + x[p] = base * w[q - 1] + y[q]
      BY <2>2, <2>3
    <2> DEFINE a == v[p - 1]
               c == w[q - 1]
               d == x[p]
               e == y[q]
    <2>5. a = c /\ d = e
      <3>0. /\ a \in Nat /\ c \in Nat /\ d \in 0..(base - 1) /\ e \in 0..(base - 1)
            /\ base * a + d = base * c + e
        BY <2>3, <2>4
      <3> HIDE DEF a, c, d, e
      <3>1. CASE base = 58
        <4>1. d \in 0..57 /\ e \in 0..57 /\ 58 * a + d = 58 * c + e
          BY <3>0, <3>1
        <4> QED
          BY <3>0, <4>1
      <3>2. CASE base = 256
        <4>1. d \in 0..255 /\ e \in 0..255 /\ 256 * a + d = 256 * c + e
          BY <3>0, <3>2
        <4> QED
          BY <3>0, <4>1
      <3> QED
        BY <3>1, <3>2
    <2> QED
      BY <2>1, <2>5 DEF p, q
  <1>6. \A j \in Nat : j \in Same
    <2>1. 0 \in Same
      <3>1. m - 0 = m /\ n - 0 = n
        BY <1>1, <1>2
      <3> QED
        BY <1>4, <3>1
    <2>2. ASSUME NEW j \in Nat, j \in Same
          PROVE  j + 1 \in Same
      <3> SUFFICES ASSUME j + 1 <= m, j + 1 <= n
                   PROVE  v[m - (j + 1)] = w[n - (j + 1)]
        OBVIOUS
      <3>1. j < m /\ j < n /\ v[m - j] = w[n - j]
        BY <1>1, <1>2, <2>2
      <3> QED
        BY <1>5, <3>1
    <2> HIDE DEF Same
    <2> QED
      BY <2>1, <2>2, AllNumbers
  <1>7. k <= m /\ k <= n => v[m - k] = w[n - k]
    BY <1>6
  <1>8. k < m /\ k < n => x[m - k] = y[n - k]
    <2> SUFFICES ASSUME k < m, k < n
                 PROVE  x[m - k] = y[n - k]
      OBVIOUS
    <2>1. v[m - k] = w[n - k]
      BY <1>1, <1>2, <1>7
    <2> QED
      BY <1>5, <2>1
  <1> QED
    BY <1>7, <1>8 DEF SameFromBelow, m, n

LEMMA NotLonger ==
    ASSUME NEW base \in {58, 256}, NEW x, NEW v, HighFirst(x, base, v),
           NEW y, NEW w, HighFirst(y, base, w), v[Len(x)] = w[Len(y)], BeginsWithZeros(y, 0)
    PROVE  Len(y) <= Len(x)
  <1> SUFFICES ASSUME Len(x) < Len(y)
               PROVE  FALSE
    BY DEF HighFirst
  <1> DEFINE m == Len(x)
             n == Len(y)
  <1>1. m \in Nat /\ n \in Nat /\ v[0] = 0 /\ m < n
    BY DEF HighFirst
  <1>2. SameFromBelow(x, v, y, w, m)
    BY <1>1, LowestAreTheSame
  <1>3. v[m - m] = w[n - m]
    <2>1. m <= m /\ m <= n
      BY <1>1
    <2> QED
      BY <1>2, <2>1 DEF SameFromBelow
  <1>4. n - m \in 1..n
    BY <1>1
  <1> DEFINE p == n - m
  <1>5. w[p] > 0
    <2>1. p \in 1..Len(y)
      BY <1>4
    <2> HIDE DEF p
    <2> QED
      BY <2>1, NoLessThanOne
  <1>6. m - m = 0
    BY <1>1
  <1> QED
    BY <1>1, <1>3, <1>5, <1>6

LEMMA OneNumeral ==
    ASSUME NEW base \in {58, 256}, NEW n, NEW x, IsHighFirst(x, base, n), BeginsWithZeros(x, 0),
           NEW y, IsHighFirst(y, base, n), BeginsWithZeros(y, 0)
    PROVE  x = y
  <1>1. PICK v : HighFirst(x, base, v) /\ v[Len(x)] = n
    BY DEF IsHighFirst
  <1>2. PICK w : HighFirst(y, base, w) /\ w[Len(y)] = n
    BY DEF IsHighFirst
  <1> DEFINE S == 0..(base - 1)
             size == Len(x)
  <1>3. x \in Seq(S) /\ y \in Seq(S) /\ size \in Nat /\ Len(y) \in Nat
    BY <1>1, <1>2 DEF HighFirst
  <1>4. Len(y) = size
    <2>1. Len(y) <= Len(x)
      BY <1>1, <1>2, NotLonger
    <2>2. Len(x) <= Len(y)
      BY <1>1, <1>2, NotLonger
    <2> QED
      BY <1>3, <2>1, <2>2
  <1>5. ASSUME NEW i \in 1..size
        PROVE  x[i] = y[i]
    <2> DEFINE k == size - i
    <2>1. k \in Nat /\ k < size /\ size - k = i
      BY <1>3
    <2> HIDE DEF k
    <2>2. SameFromBelow(x, v, y, w, k)
      BY <1>1, <1>2, <2>1, LowestAreTheSame
    <2> QED
      BY <1>4, <2>1, <2>2 DEF SameFromBelow
  <1> HIDE DEF S
  <1> QED
    BY <1>3, <1>4, <1>5, SeqEqual

-----------------------------------------------------------------------------
(* What Rebase returns: the zeros of the input, and then the digits of the    *)
(* same number.                                                               *)
IsRebased(out, in, to, n) ==
    /\ out \in Seq(0..(to - 1))
    /\ Zeros(out) = Zeros(in)
    /\ IsHighFirst(out, to, n)
    /\ \E rest : /\ IsHighFirst(rest, to, n) /\ BeginsWithZeros(rest, 0)
                 /\ out = AfterZeros(Zeros(in), rest)

LEMMA RebasedIs ==
    ASSUME NEW from, NEW to, Bases(from, to), NEW in, NEW n, IsHighFirst(in, from, n)
    PROVE  IsRebased(Rebase(in, from, to), in, to, n)
  <1> DEFINE d == Digits(in, from, to)
             turned == Reverse(d)
             rest == WithoutZeros(turned)
             k == Zeros(in)
             out == Rebase(in, from, to)
             S == 0..(to - 1)
  <1>1. from \in Nat /\ to \in Nat \ {0}
    BY DEF Bases
  <1>2. IsHighFirst(turned, to, n)
    <2>1. Numeral(d, to, n)
      BY DigitsWorth
    <2> QED
      BY <1>1, <2>1, TurnedAround DEF Numeral
  <1>3. turned \in Seq(S)
    BY <1>2 DEF IsHighFirst, HighFirst
  <1>4. in \in Seq(Nat) /\ k \in Nat
    <2>1. in \in Seq(0..(from - 1))
      BY DEF IsHighFirst, HighFirst
    <2>2. 0..(from - 1) \subseteq Nat
      BY <1>1
    <2>3. in \in Seq(Nat)
      BY <2>1, <2>2, WiderSeq
    <2>4. BeginsWithZeros(in, Zeros(in))
      BY <2>3, ZerosInFront
    <2> QED
      BY <2>3, <2>4 DEF BeginsWithZeros
  <1> HIDE DEF turned, d
  <1>5. rest \in Seq(S) /\ BeginsWithZeros(rest, 0)
    BY <1>1, <1>3, TheRest
  <1>6. IsHighFirst(rest, to, n)
    BY <1>1, <1>2, ZerosAreWorthNothing
  <1>7. out = AfterZeros(k, rest)
    BY DEF Rebase, AfterZeros, turned, d
  <1> HIDE DEF rest, k, out
  <1>8. IsHighFirst(out, to, n)
    BY <1>1, <1>4, <1>6, <1>7, ZerosInFrontAreWorthNothing
  <1>9. /\ out \in Seq(S) /\ Len(out) = k + Len(rest)
        /\ \A i \in 1..k : out[i] = 0
        /\ \A i \in 1..Len(rest) : out[k + i] = rest[i]
    BY <1>1, <1>4, <1>5, <1>7, ZerosPutInFront
  <1>10. Zeros(out) = k
    <2>1. out \in Seq(Nat)
      <3>1. S \subseteq Nat
        BY <1>1
      <3> HIDE DEF S
      <3> QED
        BY <1>9, <3>1, WiderSeq
    <2>2. BeginsWithZeros(out, k)
      <3>1. k \in 0..Len(out)
        BY <1>4, <1>5, <1>9
      <3>2. ASSUME k < Len(out)
            PROVE  out[k + 1] # 0
        <4>1. 0 < Len(rest) /\ 1 \in 1..Len(rest)
          BY <1>4, <1>5, <1>9, <3>2
        <4>2. rest[1] # 0 /\ out[k + 1] = rest[1]
          BY <1>5, <1>9, <4>1 DEF BeginsWithZeros
        <4> QED
          BY <4>2
      <3> QED
        BY <1>9, <3>1, <3>2 DEF BeginsWithZeros
    <2>3. BeginsWithZeros(out, Zeros(out))
      BY <2>1, ZerosInFront
    <2> QED
      BY <2>1, <2>2, <2>3, OneCount
  <1> QED
    BY <1>5, <1>6, <1>7, <1>8, <1>9, <1>10 DEF IsRebased, out, k

(* Base58 loses nothing: what is converted to the other base and back is what *)
(* it was, its zeros in front included.                                       *)
LEMMA RebaseBack ==
    ASSUME NEW from, NEW to, Bases(from, to), NEW in \in Seq(0..(from - 1))
    PROVE  /\ Rebase(in, from, to) \in Seq(0..(to - 1))
           /\ Rebase(Rebase(in, from, to), to, from) = in
  <1> DEFINE out == Rebase(in, from, to)
             back == Rebase(out, to, from)
             k == Zeros(in)
             S == 0..(from - 1)
             rest == WithoutZeros(in)
  <1>1. from \in Nat \ {0} /\ from \in {58, 256} /\ Bases(to, from)
    <2>1. CASE from = 256 /\ to = 58
      BY <2>1 DEF Bases
    <2>2. CASE from = 58 /\ to = 256
      BY <2>2 DEF Bases
    <2> QED
      BY <2>1, <2>2 DEF Bases
  <1>2. PICK n \in Nat : IsHighFirst(in, from, n)
    BY <1>1, HighFirstExists
  <1>3. IsRebased(out, in, to, n)
    BY <1>2, RebasedIs
  <1> HIDE DEF out
  <1>4. out \in Seq(0..(to - 1)) /\ Zeros(out) = k /\ IsHighFirst(out, to, n)
    BY <1>3 DEF IsRebased
  <1>5. IsRebased(back, out, from, n)
    BY <1>1, <1>4, RebasedIs
  <1>6. PICK other : /\ IsHighFirst(other, from, n) /\ BeginsWithZeros(other, 0)
                     /\ back = AfterZeros(k, other)
    BY <1>4, <1>5 DEF IsRebased
  <1>7. /\ BeginsWithZeros(in, k) /\ rest \in Seq(S) /\ Len(rest) = Len(in) - k
        /\ \A i \in 1..(Len(in) - k) : rest[i] = in[k + i]
        /\ BeginsWithZeros(rest, 0)
    BY <1>1, TheRest
  <1>8. IsHighFirst(rest, from, n)
    BY <1>1, <1>2, ZerosAreWorthNothing
  <1> HIDE DEF rest, k, S, back
  <1>9. other = rest
    BY <1>1, <1>6, <1>7, <1>8, OneNumeral
  <1>10. Len(in) \in Nat /\ k \in 0..Len(in) /\ \A i \in 1..k : in[i] = 0
    BY <1>7 DEF BeginsWithZeros
  <1>11. /\ back \in Seq(S) /\ Len(back) = k + Len(rest)
         /\ \A i \in 1..k : back[i] = 0
         /\ \A i \in 1..Len(rest) : back[k + i] = rest[i]
    <2>1. rest \in Seq(0..(from - 1)) /\ k \in Nat
      BY <1>7, <1>10 DEF S
    <2> DEFINE all == AfterZeros(k, rest)
    <2>2. back = all
      BY <1>6, <1>9
    <2>3. /\ all \in Seq(0..(from - 1)) /\ Len(all) = k + Len(rest)
          /\ \A i \in 1..k : all[i] = 0
          /\ \A i \in 1..Len(rest) : all[k + i] = rest[i]
      <3>1. from \in Nat \ {0}
        BY <1>1
      <3> QED
        BY <2>1, <3>1, ZerosPutInFront
    <2> QED
      BY <2>2, <2>3 DEF S
  <1>12. \A i \in 1..Len(in) : back[i] = in[i]
    <2> SUFFICES ASSUME NEW i \in 1..Len(in)
                 PROVE  back[i] = in[i]
      OBVIOUS
    <2>1. CASE i <= k
      <3>1. i \in 1..k
        BY <1>10, <2>1
      <3> QED
        BY <1>10, <1>11, <3>1
    <2>2. CASE i > k
      <3> DEFINE j == i - k
      <3>1. j \in 1..Len(rest) /\ j \in 1..(Len(in) - k) /\ i = k + j
        BY <1>7, <1>10, <2>2
      <3> HIDE DEF j
      <3> QED
        BY <1>7, <1>11, <3>1
    <2> QED
      BY <1>10, <2>1, <2>2
  <1>13. Len(back) = Len(in) /\ in \in Seq(S)
    BY <1>7, <1>10, <1>11 DEF S
  <1>14. back = in
    BY <1>11, <1>12, <1>13, SeqEqual
  <1> QED
    BY <1>4, <1>14 DEF back, out

-----------------------------------------------------------------------------
(* How many digits there are: the size of the buffer.                        *)

(* f are the powers of a base. *)
Powers(f, b, n) ==
    /\ f \in [0..n -> Nat]
    /\ f[0] = 1
    /\ \A i \in 1..n : f[i] = b * f[i - 1]

LEMMA PowersExist ==
    ASSUME NEW b \in Nat, NEW n \in Nat
    PROVE  \E f : Powers(f, b, n)
  <1> DEFINE step == [i \in 1..n |-> [t \in Nat |-> b * t]]
  <1>1. step \in [1..n -> [Nat -> Nat]]
    OBVIOUS
  <1>2. \E f \in [0..n -> Nat] : AreRounds(f, 1, step, n)
    <2> HIDE DEF step
    <2>1. 1 \in Nat
      OBVIOUS
    <2> QED
      BY <1>1, <2>1, SomeRounds
  <1>3. PICK f \in [0..n -> Nat] : AreRounds(f, 1, step, n)
    BY <1>2
  <1>4. \A i \in 1..n : f[i] = b * f[i - 1]
    <2> SUFFICES ASSUME NEW i \in 1..n
                 PROVE  f[i] = b * f[i - 1]
      OBVIOUS
    <2>1. f[i - 1] \in Nat
      OBVIOUS
    <2>2. f[i] = step[i][f[i - 1]]
      BY <1>3 DEF AreRounds
    <2>3. step[i][f[i - 1]] = b * f[i - 1]
      BY <2>1
    <2> QED
      BY <2>2, <2>3
  <1> QED
    BY <1>3, <1>4 DEF Powers, AreRounds

(* The next powers of each base, as multiples of one of them. *)

Next256(f, i) ==
    /\ f[i + 1] = 256 * f[i]
    /\ f[i + 2] = 65536 * f[i]
    /\ f[i + 3] = 16777216 * f[i]
    /\ f[i + 4] = 4294967296 * f[i]
    /\ f[i + 5] = 1099511627776 * f[i]
    /\ f[i + 6] = 281474976710656 * f[i]
    /\ f[i + 7] = 72057594037927936 * f[i]
    /\ f[i + 8] = 18446744073709551616 * f[i]
    /\ f[i + 9] = 4722366482869645213696 * f[i]
    /\ f[i + 10] = 1208925819614629174706176 * f[i]
    /\ f[i + 11] = 309485009821345068724781056 * f[i]
    /\ f[i + 12] = 79228162514264337593543950336 * f[i]
    /\ f[i + 13] = 20282409603651670423947251286016 * f[i]
    /\ f[i + 14] = 5192296858534827628530496329220096 * f[i]
    /\ f[i + 15] = 1329227995784915872903807060280344576 * f[i]
    /\ f[i + 16] = 340282366920938463463374607431768211456 * f[i]
    /\ f[i + 17] = 87112285931760246646623899502532662132736 * f[i]
    /\ f[i + 18] = 22300745198530623141535718272648361505980416 * f[i]
    /\ f[i + 19] = 5708990770823839524233143877797980545530986496 * f[i]

LEMMA NextPowersOf256 ==
    ASSUME NEW n \in Nat, NEW f, Powers(f, 256, n), NEW i \in Nat, i + 19 <= n
    PROVE  f[i] \in Nat /\ Next256(f, i)
  <1>1. f[i] \in Nat
    <2>1. i \in 0..n
      OBVIOUS
    <2> QED
      BY <2>1 DEF Powers
  <1>2. \A j \in 0..(n - 1) : f[j + 1] = 256 * f[j]
    <2> SUFFICES ASSUME NEW j \in 0..(n - 1)
                 PROVE  f[j + 1] = 256 * f[j]
      OBVIOUS
    <2>1. j + 1 \in 1..n /\ (j + 1) - 1 = j
      OBVIOUS
    <2> QED
      BY <2>1 DEF Powers
  <1>3. f[i + 1] = 256 * f[i]
    BY <1>2
  <1>4. f[i + 2] = 65536 * f[i]
    <2>1. f[(i + 1) + 1] = 256 * f[i + 1] /\ (i + 1) + 1 = i + 2
      BY <1>2
    <2> QED
      BY <1>1, <1>3, <2>1
  <1>5. f[i + 3] = 16777216 * f[i]
    <2>1. f[(i + 2) + 1] = 256 * f[i + 2] /\ (i + 2) + 1 = i + 3
      BY <1>2
    <2> QED
      BY <1>1, <1>4, <2>1
  <1>6. f[i + 4] = 4294967296 * f[i]
    <2>1. f[(i + 3) + 1] = 256 * f[i + 3] /\ (i + 3) + 1 = i + 4
      BY <1>2
    <2> QED
      BY <1>1, <1>5, <2>1
  <1>7. f[i + 5] = 1099511627776 * f[i]
    <2>1. f[(i + 4) + 1] = 256 * f[i + 4] /\ (i + 4) + 1 = i + 5
      BY <1>2
    <2> QED
      BY <1>1, <1>6, <2>1
  <1>8. f[i + 6] = 281474976710656 * f[i]
    <2>1. f[(i + 5) + 1] = 256 * f[i + 5] /\ (i + 5) + 1 = i + 6
      BY <1>2
    <2> QED
      BY <1>1, <1>7, <2>1
  <1>9. f[i + 7] = 72057594037927936 * f[i]
    <2>1. f[(i + 6) + 1] = 256 * f[i + 6] /\ (i + 6) + 1 = i + 7
      BY <1>2
    <2> QED
      BY <1>1, <1>8, <2>1
  <1>10. f[i + 8] = 18446744073709551616 * f[i]
    <2>1. f[(i + 7) + 1] = 256 * f[i + 7] /\ (i + 7) + 1 = i + 8
      BY <1>2
    <2> QED
      BY <1>1, <1>9, <2>1
  <1>11. f[i + 9] = 4722366482869645213696 * f[i]
    <2>1. f[(i + 8) + 1] = 256 * f[i + 8] /\ (i + 8) + 1 = i + 9
      BY <1>2
    <2> QED
      BY <1>1, <1>10, <2>1
  <1>12. f[i + 10] = 1208925819614629174706176 * f[i]
    <2>1. f[(i + 9) + 1] = 256 * f[i + 9] /\ (i + 9) + 1 = i + 10
      BY <1>2
    <2> QED
      BY <1>1, <1>11, <2>1
  <1>13. f[i + 11] = 309485009821345068724781056 * f[i]
    <2>1. f[(i + 10) + 1] = 256 * f[i + 10] /\ (i + 10) + 1 = i + 11
      BY <1>2
    <2> QED
      BY <1>1, <1>12, <2>1
  <1>14. f[i + 12] = 79228162514264337593543950336 * f[i]
    <2>1. f[(i + 11) + 1] = 256 * f[i + 11] /\ (i + 11) + 1 = i + 12
      BY <1>2
    <2> QED
      BY <1>1, <1>13, <2>1
  <1>15. f[i + 13] = 20282409603651670423947251286016 * f[i]
    <2>1. f[(i + 12) + 1] = 256 * f[i + 12] /\ (i + 12) + 1 = i + 13
      BY <1>2
    <2> QED
      BY <1>1, <1>14, <2>1
  <1>16. f[i + 14] = 5192296858534827628530496329220096 * f[i]
    <2>1. f[(i + 13) + 1] = 256 * f[i + 13] /\ (i + 13) + 1 = i + 14
      BY <1>2
    <2> QED
      BY <1>1, <1>15, <2>1
  <1>17. f[i + 15] = 1329227995784915872903807060280344576 * f[i]
    <2>1. f[(i + 14) + 1] = 256 * f[i + 14] /\ (i + 14) + 1 = i + 15
      BY <1>2
    <2> QED
      BY <1>1, <1>16, <2>1
  <1>18. f[i + 16] = 340282366920938463463374607431768211456 * f[i]
    <2>1. f[(i + 15) + 1] = 256 * f[i + 15] /\ (i + 15) + 1 = i + 16
      BY <1>2
    <2> QED
      BY <1>1, <1>17, <2>1
  <1>19. f[i + 17] = 87112285931760246646623899502532662132736 * f[i]
    <2>1. f[(i + 16) + 1] = 256 * f[i + 16] /\ (i + 16) + 1 = i + 17
      BY <1>2
    <2> QED
      BY <1>1, <1>18, <2>1
  <1>20. f[i + 18] = 22300745198530623141535718272648361505980416 * f[i]
    <2>1. f[(i + 17) + 1] = 256 * f[i + 17] /\ (i + 17) + 1 = i + 18
      BY <1>2
    <2> QED
      BY <1>1, <1>19, <2>1
  <1>21. f[i + 19] = 5708990770823839524233143877797980545530986496 * f[i]
    <2>1. f[(i + 18) + 1] = 256 * f[i + 18] /\ (i + 18) + 1 = i + 19
      BY <1>2
    <2> QED
      BY <1>1, <1>20, <2>1
  <1> QED
    BY <1>1, <1>3, <1>4, <1>5, <1>6, <1>7, <1>8, <1>9, <1>10, <1>11, <1>12, <1>13, <1>14,
       <1>15, <1>16, <1>17, <1>18, <1>19, <1>20, <1>21 DEF Next256

Next58(f, i) ==
    /\ f[i + 1] = 58 * f[i]
    /\ f[i + 2] = 3364 * f[i]
    /\ f[i + 3] = 195112 * f[i]
    /\ f[i + 4] = 11316496 * f[i]
    /\ f[i + 5] = 656356768 * f[i]
    /\ f[i + 6] = 38068692544 * f[i]
    /\ f[i + 7] = 2207984167552 * f[i]
    /\ f[i + 8] = 128063081718016 * f[i]
    /\ f[i + 9] = 7427658739644928 * f[i]
    /\ f[i + 10] = 430804206899405824 * f[i]
    /\ f[i + 11] = 24986644000165537792 * f[i]
    /\ f[i + 12] = 1449225352009601191936 * f[i]
    /\ f[i + 13] = 84055070416556869132288 * f[i]
    /\ f[i + 14] = 4875194084160298409672704 * f[i]
    /\ f[i + 15] = 282761256881297307761016832 * f[i]
    /\ f[i + 16] = 16400152899115243850138976256 * f[i]
    /\ f[i + 17] = 951208868148684143308060622848 * f[i]
    /\ f[i + 18] = 55170114352623680311867516125184 * f[i]
    /\ f[i + 19] = 3199866632452173458088315935260672 * f[i]
    /\ f[i + 20] = 185592264682226060569122324245118976 * f[i]
    /\ f[i + 21] = 10764351351569111513009094806216900608 * f[i]
    /\ f[i + 22] = 624332378391008467754527498760580235264 * f[i]
    /\ f[i + 23] = 36211277946678491129762594928113653645312 * f[i]
    /\ f[i + 24] = 2100254120907352485526230505830591911428096 * f[i]
    /\ f[i + 25] = 121814739012626444160521369338174330862829568 * f[i]
    /\ f[i + 26] = 7065254862732333761310239421614111190044114944 * f[i]

LEMMA NextPowersOf58 ==
    ASSUME NEW n \in Nat, NEW f, Powers(f, 58, n), NEW i \in Nat, i + 26 <= n
    PROVE  f[i] \in Nat /\ Next58(f, i)
  <1>1. f[i] \in Nat
    <2>1. i \in 0..n
      OBVIOUS
    <2> QED
      BY <2>1 DEF Powers
  <1>2. \A j \in 0..(n - 1) : f[j + 1] = 58 * f[j]
    <2> SUFFICES ASSUME NEW j \in 0..(n - 1)
                 PROVE  f[j + 1] = 58 * f[j]
      OBVIOUS
    <2>1. j + 1 \in 1..n /\ (j + 1) - 1 = j
      OBVIOUS
    <2> QED
      BY <2>1 DEF Powers
  <1>3. f[i + 1] = 58 * f[i]
    BY <1>2
  <1>4. f[i + 2] = 3364 * f[i]
    <2>1. f[(i + 1) + 1] = 58 * f[i + 1] /\ (i + 1) + 1 = i + 2
      BY <1>2
    <2> QED
      BY <1>1, <1>3, <2>1
  <1>5. f[i + 3] = 195112 * f[i]
    <2>1. f[(i + 2) + 1] = 58 * f[i + 2] /\ (i + 2) + 1 = i + 3
      BY <1>2
    <2> QED
      BY <1>1, <1>4, <2>1
  <1>6. f[i + 4] = 11316496 * f[i]
    <2>1. f[(i + 3) + 1] = 58 * f[i + 3] /\ (i + 3) + 1 = i + 4
      BY <1>2
    <2> QED
      BY <1>1, <1>5, <2>1
  <1>7. f[i + 5] = 656356768 * f[i]
    <2>1. f[(i + 4) + 1] = 58 * f[i + 4] /\ (i + 4) + 1 = i + 5
      BY <1>2
    <2> QED
      BY <1>1, <1>6, <2>1
  <1>8. f[i + 6] = 38068692544 * f[i]
    <2>1. f[(i + 5) + 1] = 58 * f[i + 5] /\ (i + 5) + 1 = i + 6
      BY <1>2
    <2> QED
      BY <1>1, <1>7, <2>1
  <1>9. f[i + 7] = 2207984167552 * f[i]
    <2>1. f[(i + 6) + 1] = 58 * f[i + 6] /\ (i + 6) + 1 = i + 7
      BY <1>2
    <2> QED
      BY <1>1, <1>8, <2>1
  <1>10. f[i + 8] = 128063081718016 * f[i]
    <2>1. f[(i + 7) + 1] = 58 * f[i + 7] /\ (i + 7) + 1 = i + 8
      BY <1>2
    <2> QED
      BY <1>1, <1>9, <2>1
  <1>11. f[i + 9] = 7427658739644928 * f[i]
    <2>1. f[(i + 8) + 1] = 58 * f[i + 8] /\ (i + 8) + 1 = i + 9
      BY <1>2
    <2> QED
      BY <1>1, <1>10, <2>1
  <1>12. f[i + 10] = 430804206899405824 * f[i]
    <2>1. f[(i + 9) + 1] = 58 * f[i + 9] /\ (i + 9) + 1 = i + 10
      BY <1>2
    <2> QED
      BY <1>1, <1>11, <2>1
  <1>13. f[i + 11] = 24986644000165537792 * f[i]
    <2>1. f[(i + 10) + 1] = 58 * f[i + 10] /\ (i + 10) + 1 = i + 11
      BY <1>2
    <2> QED
      BY <1>1, <1>12, <2>1
  <1>14. f[i + 12] = 1449225352009601191936 * f[i]
    <2>1. f[(i + 11) + 1] = 58 * f[i + 11] /\ (i + 11) + 1 = i + 12
      BY <1>2
    <2> QED
      BY <1>1, <1>13, <2>1
  <1>15. f[i + 13] = 84055070416556869132288 * f[i]
    <2>1. f[(i + 12) + 1] = 58 * f[i + 12] /\ (i + 12) + 1 = i + 13
      BY <1>2
    <2> QED
      BY <1>1, <1>14, <2>1
  <1>16. f[i + 14] = 4875194084160298409672704 * f[i]
    <2>1. f[(i + 13) + 1] = 58 * f[i + 13] /\ (i + 13) + 1 = i + 14
      BY <1>2
    <2> QED
      BY <1>1, <1>15, <2>1
  <1>17. f[i + 15] = 282761256881297307761016832 * f[i]
    <2>1. f[(i + 14) + 1] = 58 * f[i + 14] /\ (i + 14) + 1 = i + 15
      BY <1>2
    <2> QED
      BY <1>1, <1>16, <2>1
  <1>18. f[i + 16] = 16400152899115243850138976256 * f[i]
    <2>1. f[(i + 15) + 1] = 58 * f[i + 15] /\ (i + 15) + 1 = i + 16
      BY <1>2
    <2> QED
      BY <1>1, <1>17, <2>1
  <1>19. f[i + 17] = 951208868148684143308060622848 * f[i]
    <2>1. f[(i + 16) + 1] = 58 * f[i + 16] /\ (i + 16) + 1 = i + 17
      BY <1>2
    <2> QED
      BY <1>1, <1>18, <2>1
  <1>20. f[i + 18] = 55170114352623680311867516125184 * f[i]
    <2>1. f[(i + 17) + 1] = 58 * f[i + 17] /\ (i + 17) + 1 = i + 18
      BY <1>2
    <2> QED
      BY <1>1, <1>19, <2>1
  <1>21. f[i + 19] = 3199866632452173458088315935260672 * f[i]
    <2>1. f[(i + 18) + 1] = 58 * f[i + 18] /\ (i + 18) + 1 = i + 19
      BY <1>2
    <2> QED
      BY <1>1, <1>20, <2>1
  <1>22. f[i + 20] = 185592264682226060569122324245118976 * f[i]
    <2>1. f[(i + 19) + 1] = 58 * f[i + 19] /\ (i + 19) + 1 = i + 20
      BY <1>2
    <2> QED
      BY <1>1, <1>21, <2>1
  <1>23. f[i + 21] = 10764351351569111513009094806216900608 * f[i]
    <2>1. f[(i + 20) + 1] = 58 * f[i + 20] /\ (i + 20) + 1 = i + 21
      BY <1>2
    <2> QED
      BY <1>1, <1>22, <2>1
  <1>24. f[i + 22] = 624332378391008467754527498760580235264 * f[i]
    <2>1. f[(i + 21) + 1] = 58 * f[i + 21] /\ (i + 21) + 1 = i + 22
      BY <1>2
    <2> QED
      BY <1>1, <1>23, <2>1
  <1>25. f[i + 23] = 36211277946678491129762594928113653645312 * f[i]
    <2>1. f[(i + 22) + 1] = 58 * f[i + 22] /\ (i + 22) + 1 = i + 23
      BY <1>2
    <2> QED
      BY <1>1, <1>24, <2>1
  <1>26. f[i + 24] = 2100254120907352485526230505830591911428096 * f[i]
    <2>1. f[(i + 23) + 1] = 58 * f[i + 23] /\ (i + 23) + 1 = i + 24
      BY <1>2
    <2> QED
      BY <1>1, <1>25, <2>1
  <1>27. f[i + 25] = 121814739012626444160521369338174330862829568 * f[i]
    <2>1. f[(i + 24) + 1] = 58 * f[i + 24] /\ (i + 24) + 1 = i + 25
      BY <1>2
    <2> QED
      BY <1>1, <1>26, <2>1
  <1>28. f[i + 26] = 7065254862732333761310239421614111190044114944 * f[i]
    <2>1. f[(i + 25) + 1] = 58 * f[i + 25] /\ (i + 25) + 1 = i + 26
      BY <1>2
    <2> QED
      BY <1>1, <1>27, <2>1
  <1> QED
    BY <1>1, <1>3, <1>4, <1>5, <1>6, <1>7, <1>8, <1>9, <1>10, <1>11, <1>12, <1>13, <1>14,
       <1>15, <1>16, <1>17, <1>18, <1>19, <1>20, <1>21, <1>22, <1>23, <1>24, <1>25,
       <1>26, <1>27, <1>28 DEF Next58

(* Of 19 bytes more than a multiple of 19, as encode() reckons. *)
Places(r) == (137 * r) \div 100 + 1

LEMMA PowersCompare ==
    ASSUME NEW n \in Nat, NEW f, Powers(f, 256, n), NEW m \in Nat, NEW g, Powers(g, 58, m),
           NEW i \in Nat, i + 19 <= n, NEW j \in Nat, j + 26 <= m, f[i] <= g[j]
    PROVE  /\ f[i + 19] <= g[j + 26]
           /\ \A r \in 0..18 : f[i + r] <= g[j + Places(r)]
  <1>1. f[i] \in Nat /\ Next256(f, i)
    BY NextPowersOf256
  <1>2. g[j] \in Nat /\ Next58(g, j)
    BY NextPowersOf58
  <1>3. f[i + 19] <= g[j + 26]
    BY <1>1, <1>2 DEF Next256, Next58
  <1>4. ASSUME NEW r \in 0..18
        PROVE  f[i + r] <= g[j + Places(r)]
    <2>1. CASE r = 0
      <3>1. j + Places(r) = j + 1 /\ i + r = i + 0
        BY <2>1 DEF Places
      <3>2. g[j + 1] = 58 * g[j] /\ i + 0 = i
        BY <1>2 DEF Next58
      <3> QED
        BY <1>1, <1>2, <3>1, <3>2
    <2>2. CASE r = 1
      <3>1. j + Places(r) = j + 2 /\ i + r = i + 1
        BY <2>2 DEF Places
      <3>2. f[i + 1] = 256 * f[i] /\ g[j + 2] = 3364 * g[j]
        BY <1>1, <1>2 DEF Next256, Next58
      <3> QED
        BY <1>1, <1>2, <3>1, <3>2
    <2>3. CASE r = 2
      <3>1. j + Places(r) = j + 3 /\ i + r = i + 2
        BY <2>3 DEF Places
      <3>2. f[i + 2] = 65536 * f[i] /\ g[j + 3] = 195112 * g[j]
        BY <1>1, <1>2 DEF Next256, Next58
      <3> QED
        BY <1>1, <1>2, <3>1, <3>2
    <2>4. CASE r = 3
      <3>1. j + Places(r) = j + 5 /\ i + r = i + 3
        BY <2>4 DEF Places
      <3>2. f[i + 3] = 16777216 * f[i] /\ g[j + 5] = 656356768 * g[j]
        BY <1>1, <1>2 DEF Next256, Next58
      <3> QED
        BY <1>1, <1>2, <3>1, <3>2
    <2>5. CASE r = 4
      <3>1. j + Places(r) = j + 6 /\ i + r = i + 4
        BY <2>5 DEF Places
      <3>2. f[i + 4] = 4294967296 * f[i] /\ g[j + 6] = 38068692544 * g[j]
        BY <1>1, <1>2 DEF Next256, Next58
      <3> QED
        BY <1>1, <1>2, <3>1, <3>2
    <2>6. CASE r = 5
      <3>1. j + Places(r) = j + 7 /\ i + r = i + 5
        BY <2>6 DEF Places
      <3>2. f[i + 5] = 1099511627776 * f[i] /\ g[j + 7] = 2207984167552 * g[j]
        BY <1>1, <1>2 DEF Next256, Next58
      <3> QED
        BY <1>1, <1>2, <3>1, <3>2
    <2>7. CASE r = 6
      <3>1. j + Places(r) = j + 9 /\ i + r = i + 6
        BY <2>7 DEF Places
      <3>2. f[i + 6] = 281474976710656 * f[i] /\ g[j + 9] = 7427658739644928 * g[j]
        BY <1>1, <1>2 DEF Next256, Next58
      <3> QED
        BY <1>1, <1>2, <3>1, <3>2
    <2>8. CASE r = 7
      <3>1. j + Places(r) = j + 10 /\ i + r = i + 7
        BY <2>8 DEF Places
      <3>2. f[i + 7] = 72057594037927936 * f[i] /\ g[j + 10] = 430804206899405824 * g[j]
        BY <1>1, <1>2 DEF Next256, Next58
      <3> QED
        BY <1>1, <1>2, <3>1, <3>2
    <2>9. CASE r = 8
      <3>1. j + Places(r) = j + 11 /\ i + r = i + 8
        BY <2>9 DEF Places
      <3>2. f[i + 8] = 18446744073709551616 * f[i] /\ g[j + 11] = 24986644000165537792 * g[j]
        BY <1>1, <1>2 DEF Next256, Next58
      <3> QED
        BY <1>1, <1>2, <3>1, <3>2
    <2>10. CASE r = 9
      <3>1. j + Places(r) = j + 13 /\ i + r = i + 9
        BY <2>10 DEF Places
      <3>2. f[i + 9] = 4722366482869645213696 * f[i] /\ g[j + 13] = 84055070416556869132288 * g[j]
        BY <1>1, <1>2 DEF Next256, Next58
      <3> QED
        BY <1>1, <1>2, <3>1, <3>2
    <2>11. CASE r = 10
      <3>1. j + Places(r) = j + 14 /\ i + r = i + 10
        BY <2>11 DEF Places
      <3>2. f[i + 10] = 1208925819614629174706176 * f[i] /\ g[j + 14] = 4875194084160298409672704 * g[j]
        BY <1>1, <1>2 DEF Next256, Next58
      <3> QED
        BY <1>1, <1>2, <3>1, <3>2
    <2>12. CASE r = 11
      <3>1. j + Places(r) = j + 16 /\ i + r = i + 11
        BY <2>12 DEF Places
      <3>2. f[i + 11] = 309485009821345068724781056 * f[i] /\ g[j + 16] = 16400152899115243850138976256 * g[j]
        BY <1>1, <1>2 DEF Next256, Next58
      <3> QED
        BY <1>1, <1>2, <3>1, <3>2
    <2>13. CASE r = 12
      <3>1. j + Places(r) = j + 17 /\ i + r = i + 12
        BY <2>13 DEF Places
      <3>2. f[i + 12] = 79228162514264337593543950336 * f[i] /\ g[j + 17] = 951208868148684143308060622848 * g[j]
        BY <1>1, <1>2 DEF Next256, Next58
      <3> QED
        BY <1>1, <1>2, <3>1, <3>2
    <2>14. CASE r = 13
      <3>1. j + Places(r) = j + 18 /\ i + r = i + 13
        BY <2>14 DEF Places
      <3>2. f[i + 13] = 20282409603651670423947251286016 * f[i] /\ g[j + 18] = 55170114352623680311867516125184 * g[j]
        BY <1>1, <1>2 DEF Next256, Next58
      <3> QED
        BY <1>1, <1>2, <3>1, <3>2
    <2>15. CASE r = 14
      <3>1. j + Places(r) = j + 20 /\ i + r = i + 14
        BY <2>15 DEF Places
      <3>2. f[i + 14] = 5192296858534827628530496329220096 * f[i] /\ g[j + 20] = 185592264682226060569122324245118976 * g[j]
        BY <1>1, <1>2 DEF Next256, Next58
      <3> QED
        BY <1>1, <1>2, <3>1, <3>2
    <2>16. CASE r = 15
      <3>1. j + Places(r) = j + 21 /\ i + r = i + 15
        BY <2>16 DEF Places
      <3>2. f[i + 15] = 1329227995784915872903807060280344576 * f[i] /\ g[j + 21] = 10764351351569111513009094806216900608 * g[j]
        BY <1>1, <1>2 DEF Next256, Next58
      <3> QED
        BY <1>1, <1>2, <3>1, <3>2
    <2>17. CASE r = 16
      <3>1. j + Places(r) = j + 22 /\ i + r = i + 16
        BY <2>17 DEF Places
      <3>2. f[i + 16] = 340282366920938463463374607431768211456 * f[i] /\ g[j + 22] = 624332378391008467754527498760580235264 * g[j]
        BY <1>1, <1>2 DEF Next256, Next58
      <3> QED
        BY <1>1, <1>2, <3>1, <3>2
    <2>18. CASE r = 17
      <3>1. j + Places(r) = j + 24 /\ i + r = i + 17
        BY <2>18 DEF Places
      <3>2. f[i + 17] = 87112285931760246646623899502532662132736 * f[i] /\ g[j + 24] = 2100254120907352485526230505830591911428096 * g[j]
        BY <1>1, <1>2 DEF Next256, Next58
      <3> QED
        BY <1>1, <1>2, <3>1, <3>2
    <2>19. CASE r = 18
      <3>1. j + Places(r) = j + 25 /\ i + r = i + 18
        BY <2>19 DEF Places
      <3>2. f[i + 18] = 22300745198530623141535718272648361505980416 * f[i] /\ g[j + 25] = 121814739012626444160521369338174330862829568 * g[j]
        BY <1>1, <1>2 DEF Next256, Next58
      <3> QED
        BY <1>1, <1>2, <3>1, <3>2
    <2> QED
      BY <2>1, <2>2, <2>3, <2>4, <2>5, <2>6, <2>7, <2>8, <2>9, <2>10, <2>11, <2>12, <2>13, <2>14, <2>15, <2>16, <2>17, <2>18, <2>19
  <1> QED
    BY <1>3, <1>4

(* The numerals of every length. *)
LEMMA PowersOfAllLengths ==
    ASSUME NEW n \in Nat, NEW f, Powers(f, 256, n), NEW m \in Nat, NEW g, Powers(g, 58, m),
           NEW rows \in Nat, 19 * rows + 19 <= n, 26 * rows + 26 <= m, NEW r \in 0..18
    PROVE  f[19 * rows + r] <= g[26 * rows + Places(r)]
  <1> DEFINE Compared == {k \in Nat : k <= rows => f[19 * k] <= g[26 * k]}
  <1>1. f[0] = 1 /\ g[0] = 1
    BY DEF Powers
  <1>2. 0 \in Compared
    BY <1>1
  <1>3. ASSUME NEW k \in Nat, k \in Compared
        PROVE  k + 1 \in Compared
    <2> SUFFICES ASSUME k + 1 <= rows
                 PROVE  f[19 * (k + 1)] <= g[26 * (k + 1)]
      OBVIOUS
    <2> DEFINE i == 19 * k
               j == 26 * k
    <2>1. /\ i \in Nat /\ i + 19 <= n /\ j \in Nat /\ j + 26 <= m
          /\ 19 * (k + 1) = i + 19 /\ 26 * (k + 1) = j + 26 /\ f[i] <= g[j]
      BY <1>3
    <2> HIDE DEF i, j
    <2>2. f[i + 19] <= g[j + 26]
      BY <2>1, PowersCompare
    <2> QED
      BY <2>1, <2>2
  <1>4. rows \in Compared
    <2> HIDE DEF Compared
    <2> QED
      BY <1>2, <1>3, AllNumbers
  <1> DEFINE i == 19 * rows
             j == 26 * rows
  <1>5. i \in Nat /\ i + 19 <= n /\ j \in Nat /\ j + 26 <= m /\ f[i] <= g[j]
    BY <1>4
  <1> HIDE DEF i, j
  <1>6. f[i + r] <= g[j + Places(r)]
    BY <1>5, PowersCompare
  <1> QED
    BY <1>6 DEF i, j

(* A power is not less than a lower one. *)
LEMMA HigherPowers ==
    ASSUME NEW n \in Nat, NEW g, Powers(g, 58, n), NEW i \in 0..n, NEW j \in i..n
    PROVE  g[i] <= g[j]
  <1> DEFINE Above == {k \in Nat : i + k <= n => g[i] <= g[i + k]}
  <1>1. /\ g \in [0..n -> Nat]
        /\ \A k \in 1..n : g[k] = 58 * g[k - 1]
    BY DEF Powers
  <1>2. 0 \in Above
    BY <1>1
  <1>3. ASSUME NEW k \in Nat, k \in Above
        PROVE  k + 1 \in Above
    <2> SUFFICES ASSUME i + (k + 1) <= n
                 PROVE  g[i] <= g[i + (k + 1)]
      OBVIOUS
    <2> DEFINE l == i + (k + 1)
    <2>1. l \in 1..n /\ l - 1 = i + k /\ l - 1 \in 0..n /\ g[i] <= g[i + k]
      BY <1>3
    <2> HIDE DEF l
    <2>2. g[l] = 58 * g[l - 1] /\ g[l - 1] \in Nat /\ g[i] \in Nat
      BY <1>1, <2>1
    <2>3. g[i] <= g[l]
      BY <2>1, <2>2
    <2> QED
      BY <2>3 DEF l
  <1>4. j - i \in Above
    <2>1. j - i \in Nat
      OBVIOUS
    <2> HIDE DEF Above
    <2> QED
      BY <1>2, <1>3, <2>1, AllNumbers
  <1>5. i + (j - i) = j
    OBVIOUS
  <1> QED
    BY <1>4, <1>5

(* A number of bytes is less than the power of their count.                   *)
LEMMA BytesBelowPower ==
    ASSUME NEW in, NEW v, HighFirst(in, 256, v), NEW n \in Nat, Len(in) <= n, NEW f, Powers(f, 256, n)
    PROVE  v[Len(in)] < f[Len(in)]
  <1> DEFINE size == Len(in)
             Less == {i \in Nat : i <= size => v[i] < f[i]}
             S == 0..(256 - 1)
  <1>1. /\ in \in Seq(S) /\ size \in Nat /\ v \in [0..size -> Nat] /\ v[0] = 0
        /\ \A i \in 1..size : v[i] = 256 * v[i - 1] + in[i]
    BY DEF HighFirst
  <1>2. \A i \in 1..size : in[i] \in Nat /\ in[i] <= 255
    <2>1. \A b \in S : b \in Nat /\ b <= 255
      OBVIOUS
    <2> HIDE DEF S
    <2>2. \A i \in 1..size : in[i] \in S
      BY <1>1
    <2> QED
      BY <2>1, <2>2
  <1>3. /\ f \in [0..n -> Nat] /\ f[0] = 1
        /\ \A i \in 1..n : f[i] = 256 * f[i - 1]
    BY DEF Powers
  <1>4. size <= n
    OBVIOUS
  <1> HIDE DEF size
  <1>5. 0 \in Less
    BY <1>1, <1>3
  <1>6. ASSUME NEW i \in Nat, i \in Less
        PROVE  i + 1 \in Less
    <2> SUFFICES ASSUME i + 1 <= size
                 PROVE  v[i + 1] < f[i + 1]
      OBVIOUS
    <2> DEFINE k == i + 1
    <2>1. /\ k \in 1..size /\ k \in 1..n /\ k - 1 = i /\ i \in 0..size /\ i \in 0..n /\ v[i] < f[i]
      BY <1>1, <1>4, <1>6
    <2> HIDE DEF k
    <2>2. v[k] = 256 * v[i] + in[k] /\ f[k] = 256 * f[i]
      BY <1>1, <1>3, <2>1
    <2>3. v[i] \in Nat /\ f[i] \in Nat /\ in[k] \in Nat /\ in[k] <= 255
      BY <1>1, <1>2, <1>3, <2>1
    <2>4. v[k] < f[k]
      BY <2>1, <2>2, <2>3
    <2> QED
      BY <2>4 DEF k
  <1>7. size \in Less
    <2> HIDE DEF Less
    <2> QED
      BY <1>1, <1>5, <1>6, AllNumbers
  <1> QED
    BY <1>1, <1>7 DEF size

(* A number with a digit at this place is not less than the power of it.      *)
LEMMA DigitsAbovePower ==
    ASSUME NEW d, NEW w, LowFirst(d, 58, w), Len(d) >= 1, NoHighZero(d),
           NEW n \in Nat, Len(d) <= n + 1, NEW g, Powers(g, 58, n)
    PROVE  g[Len(d) - 1] <= w[1]
  <1> DEFINE size == Len(d)
             More == {k \in Nat : k < size => g[k] <= w[size - k]}
             S == 0..(58 - 1)
  <1>1. /\ d \in Seq(S) /\ size \in Nat /\ w \in [1..(size + 1) -> Nat] /\ w[size + 1] = 0
        /\ \A i \in 1..size : w[i] = 58 * w[i + 1] + d[i]
    BY DEF LowFirst
  <1>2. (\A i \in 1..size : d[i] \in Nat) /\ d[size] # 0
    <2>1. \A b \in S : b \in Nat
      OBVIOUS
    <2>2. d[size] # 0
      BY <1>1 DEF NoHighZero
    <2> HIDE DEF S
    <2>3. \A i \in 1..size : d[i] \in S
      BY <1>1
    <2> QED
      BY <2>1, <2>2, <2>3
  <1>3. /\ g \in [0..n -> Nat] /\ g[0] = 1
        /\ \A i \in 1..n : g[i] = 58 * g[i - 1]
    BY DEF Powers
  <1>4. size >= 1 /\ size <= n + 1
    OBVIOUS
  <1> HIDE DEF size
  <1>5. 0 \in More
    <2>1. size \in 1..size /\ size - 0 = size
      BY <1>1, <1>4
    <2>2. w[size] = 58 * w[size + 1] + d[size] /\ d[size] \in Nat
      BY <1>1, <1>2, <2>1
    <2>3. w[size] >= 1
      <3>1. w[size] = 58 * 0 + d[size]
        BY <1>1, <2>2
      <3> QED
        BY <1>2, <2>2, <3>1
    <2> QED
      BY <1>3, <2>1, <2>3
  <1>6. ASSUME NEW k \in Nat, k \in More
        PROVE  k + 1 \in More
    <2> SUFFICES ASSUME k + 1 < size
                 PROVE  g[k + 1] <= w[size - (k + 1)]
      OBVIOUS
    <2> DEFINE i == size - (k + 1)
               l == k + 1
    <2>1. /\ i \in 1..size /\ i + 1 = size - k /\ i + 1 \in 1..(size + 1)
          /\ l \in 1..n /\ l - 1 = k /\ k \in 0..n /\ g[k] <= w[size - k]
      BY <1>1, <1>4, <1>6
    <2> HIDE DEF i, l
    <2>2. w[i] = 58 * w[i + 1] + d[i] /\ g[l] = 58 * g[k]
      BY <1>1, <1>3, <2>1
    <2>3. w[i + 1] \in Nat /\ g[k] \in Nat /\ d[i] \in Nat /\ g[k] <= w[i + 1]
      BY <1>1, <1>2, <1>3, <2>1
    <2>4. g[l] <= w[i]
      BY <2>2, <2>3
    <2> QED
      BY <2>4 DEF i, l
  <1>7. size - 1 \in More
    <2>1. size - 1 \in Nat
      BY <1>1, <1>4
    <2> HIDE DEF More
    <2> QED
      BY <1>5, <1>6, <2>1, AllNumbers
  <1>8. size - 1 < size /\ size - (size - 1) = 1
    BY <1>1
  <1> QED
    BY <1>7, <1>8 DEF size

(* The buffer of encode holds the digits of every input.                      *)
LEMMA EncodedFits ==
    ASSUME NEW in \in Seq(0..255)
    PROVE  Len(Digits(in, 256, 58)) <= BufferSize(Len(in))
  <1> DEFINE d == Digits(in, 256, 58)
             size == Len(in)
             count == Len(d)
             rows == size \div 19
             r == size % 19
             n == 19 * rows + 19
             m == 26 * rows + 26 + count
  <1>1. Bases(256, 58)
    BY DEF Bases
  <1>2. PICK x \in Nat : IsHighFirst(in, 256, x)
    <2>1. in \in Seq(0..(256 - 1)) /\ 256 \in Nat
      <3>1. 255 = 256 - 1
        OBVIOUS
      <3> QED
        BY <3>1
    <2> QED
      BY <2>1, HighFirstExists
  <1>3. Numeral(d, 58, x)
    BY <1>1, <1>2, DigitsWorth
  <1>4. PICK v : HighFirst(in, 256, v) /\ v[Len(in)] = x
    BY <1>2 DEF IsHighFirst
  <1>5. PICK w : LowFirst(d, 58, w) /\ w[1] = x
    BY <1>3 DEF Numeral, IsLowFirst
  <1>6. size \in Nat /\ count \in Nat /\ count >= 1 /\ (count > 1 => NoHighZero(d))
    BY <1>3, <1>5 DEF Numeral, LowFirst
  <1> HIDE DEF d, size, count
  <1>7. rows \in Nat /\ r \in 0..18 /\ size = 19 * rows + r
    BY <1>6
  <1> HIDE DEF rows, r
  <1>8. /\ 26 * rows + Places(r) <= BufferSize(size) /\ BufferSize(size) \in Nat
        /\ Places(r) \in Nat /\ 1 <= Places(r) /\ Places(r) <= 25
    <2>1. Places(r) = (137 * r) \div 100 + 1 /\ Places(r) \in 1..25
      BY <1>7 DEF Places
    <2>2. (size * 137) \div 100 >= 26 * rows + (137 * r) \div 100
      BY <1>7
    <2> QED
      BY <1>6, <1>7, <2>1, <2>2 DEF BufferSize
  <1> SUFFICES ASSUME BufferSize(size) < count
               PROVE  FALSE
    BY <1>6, <1>7, <1>8 DEF BufferSize, d, size, count
  <1>9. n \in Nat /\ m \in Nat /\ count <= m + 1 /\ size <= n
    BY <1>6, <1>7
  <1>10. PICK f : Powers(f, 256, n)
    <2> HIDE DEF n, m
    <2>1. 256 \in Nat
      OBVIOUS
    <2> QED
      BY <1>9, <2>1, PowersExist
  <1>11. PICK g : Powers(g, 58, m)
    <2> HIDE DEF n, m
    <2>1. 58 \in Nat
      OBVIOUS
    <2> QED
      BY <1>9, <2>1, PowersExist
  <1> DEFINE e == 26 * rows + Places(r)
  <1>12. f[size] <= g[e]
    <2>1. 19 * rows + 19 <= n /\ 26 * rows + 26 <= m
      BY <1>6, <1>7
    <2> HIDE DEF n, m
    <2>2. f[19 * rows + r] <= g[26 * rows + Places(r)]
      BY <1>7, <1>9, <1>10, <1>11, <2>1, PowersOfAllLengths
    <2> QED
      BY <1>7, <2>2
  <1>13. e \in Nat /\ e >= 1 /\ e <= count - 1 /\ e \in 0..m /\ count - 1 \in e..m
    <2>1. BufferSize(size) \in Nat
      BY <1>8
    <2>2. e \in Nat /\ e >= 1 /\ e <= BufferSize(size) /\ e <= 26 * rows + 26
      BY <1>7, <1>8
    <2> HIDE DEF e
    <2>3. e <= count - 1
      BY <1>6, <2>1, <2>2
    <2>4. e <= m /\ count - 1 <= m
      BY <1>6, <1>7, <2>2
    <2> QED
      BY <1>6, <1>9, <2>2, <2>3, <2>4
  <1> HIDE DEF e, n, m
  <1> DEFINE last == count - 1
  <1>14. g[e] <= g[last]
    <2>1. last \in e..m
      BY <1>13
    <2> HIDE DEF last
    <2> QED
      BY <1>9, <1>11, <1>13, <2>1, HigherPowers
  <1>15. x < f[size]
    BY <1>4, <1>9, <1>10, BytesBelowPower DEF size
  <1>16. g[last] <= x
    <2>1. NoHighZero(d)
      <3>1. count > 1
        BY <1>6, <1>13
      <3> QED
        BY <1>6, <3>1
    <2> QED
      BY <1>5, <1>6, <1>9, <1>11, <2>1, DigitsAbovePower DEF count
  <1>17. f[size] \in Nat /\ g[e] \in Nat /\ g[last] \in Nat
    <2>1. size \in 0..n /\ e \in 0..m /\ last \in 0..m
      BY <1>6, <1>9, <1>13
    <2> QED
      BY <1>10, <1>11, <2>1 DEF Powers
  <1> QED
    BY <1>12, <1>14, <1>15, <1>16, <1>17

-----------------------------------------------------------------------------
(* Keys and their texts.                                                     *)

(* A number and what is left of it after one byte. *)
Splits(x, range) ==
    /\ x \div range \in Nat
    /\ x % range \in 0..(range - 1)
    /\ (x \div range) * range + (x % range) = x

LEMMA ByteOff ==
    ASSUME NEW range \in Nat \ {0}, NEW x \in Nat
    PROVE  Splits(x, range)
  <1>1. x \div range \in Nat
    OBVIOUS
  <1>2. x % range \in 0..(range - 1)
    OBVIOUS
  <1>3. x = range * (x \div range) + (x % range)
    OBVIOUS
  <1> QED
    BY <1>1, <1>2, <1>3 DEF Splits

(* A shift by one byte after the other. *)
IsShift(f, value, count, range) ==
    /\ f \in [0..count -> Nat]
    /\ f[0] = value
    /\ \A i \in 1..count : f[i] = f[i - 1] \div range

LEMMA ShiftExists ==
    ASSUME NEW range \in Nat \ {0}, NEW value \in Nat, NEW count \in Nat
    PROVE  \E f : IsShift(f, value, count, range)
  <1> DEFINE step == [i \in 1..count |-> [t \in Nat |-> t \div range]]
  <1>1. \A t \in Nat : t \div range \in Nat
    BY ByteOff DEF Splits
  <1>2. step \in [1..count -> [Nat -> Nat]]
    BY <1>1
  <1>3. \E f \in [0..count -> Nat] : AreRounds(f, value, step, count)
    <2> HIDE DEF step
    <2> QED
      BY <1>2, SomeRounds
  <1>4. PICK f \in [0..count -> Nat] : AreRounds(f, value, step, count)
    BY <1>3
  <1>5. \A i \in 1..count : f[i] = f[i - 1] \div range
    <2> SUFFICES ASSUME NEW i \in 1..count
                 PROVE  f[i] = f[i - 1] \div range
      OBVIOUS
    <2>1. f[i - 1] \in Nat
      OBVIOUS
    <2>2. f[i] = step[i][f[i - 1]]
      BY <1>4 DEF AreRounds
    <2>3. step[i][f[i - 1]] = f[i - 1] \div range
      BY <2>1
    <2> QED
      BY <2>2, <2>3
  <1> QED
    BY <1>4, <1>5 DEF IsShift, AreRounds

LEMMA ShiftedIsShift ==
    ASSUME NEW range \in Nat \ {0}, NEW value \in Nat, NEW count \in Nat,
           NEW f, IsShift(f, value, count, range), NEW i \in 0..count
    PROVE  Shifted(value, i, range) = f[i]
  <1> DEFINE IsBy(g) == g = [j \in 0..i |-> IF j = 0 THEN value ELSE g[j - 1] \div range]
             by == CHOOSE g : IsBy(g)
             part == [j \in 0..i |-> f[j]]
  <1>1. Shifted(value, i, range) = by[i]
    BY DEF Shifted
  <1>2. /\ f \in [0..count -> Nat] /\ f[0] = value
        /\ \A j \in 1..count : f[j] = f[j - 1] \div range
    BY DEF IsShift
  <1>3. IsBy(part)
    <2>1. ASSUME NEW j \in 0..i
          PROVE  part[j] = IF j = 0 THEN value ELSE part[j - 1] \div range
      BY <1>2
    <2>2. part = [j \in 0..i |-> part[j]]
      OBVIOUS
    <2> HIDE DEF part
    <2> QED
      BY <2>1, <2>2, Zenon
  <1>4. IsBy(by)
    BY <1>3, Zenon
  <1> HIDE DEF by
  <1>5. \A j \in 0..i : by[j] = IF j = 0 THEN value ELSE by[j - 1] \div range
    BY <1>4, Zenon
  <1> DEFINE Same == {j \in Nat : j <= i => by[j] = f[j]}
  <1>6. \A j \in Nat : j \in Same
    <2>1. 0 \in Same
      BY <1>2, <1>5
    <2>2. ASSUME NEW j \in Nat, j \in Same
          PROVE  j + 1 \in Same
      <3> SUFFICES ASSUME j + 1 <= i
                   PROVE  by[j + 1] = f[j + 1]
        OBVIOUS
      <3> DEFINE k == j + 1
      <3>1. k \in 0..i /\ k # 0 /\ k \in 1..count /\ k - 1 = j /\ by[j] = f[j]
        BY <2>2
      <3> HIDE DEF k
      <3>2. by[k] = by[j] \div range
        BY <1>5, <3>1, Zenon
      <3>3. f[k] = f[j] \div range
        BY <1>2, <3>1
      <3>4. by[k] = f[k]
        BY <3>1, <3>2, <3>3, Zenon
      <3> QED
        BY <3>4 DEF k
    <2> HIDE DEF Same
    <2> QED
      BY <2>1, <2>2, AllNumbers
  <1>7. by[i] = f[i]
    BY <1>6
  <1> QED
    BY <1>1, <1>7

(* Shifted, without the function it is defined by. *)
LEMMA ShiftedBy ==
    ASSUME NEW range \in Nat \ {0}, NEW value \in Nat, NEW i \in Nat
    PROVE  /\ Shifted(value, i, range) \in Nat
           /\ Shifted(value, 0, range) = value
           /\ Shifted(value, i + 1, range) = Shifted(value, i, range) \div range
  <1> DEFINE n == i + 1
  <1>1. PICK f : IsShift(f, value, n, range)
    BY ShiftExists
  <1>2. \A j \in 0..n : Shifted(value, j, range) = f[j]
    <2> HIDE DEF n
    <2>1. n \in Nat
      BY DEF n
    <2> QED
      BY <1>1, <2>1, ShiftedIsShift
  <1>3. 0 \in 0..n /\ i \in 0..n /\ n \in 0..n /\ n \in 1..n /\ n - 1 = i
    OBVIOUS
  <1>4. Shifted(value, 0, range) = f[0] /\ Shifted(value, i, range) = f[i] /\ Shifted(value, n, range) = f[n]
    BY <1>2, <1>3
  <1> HIDE DEF n
  <1>5. f[0] = value /\ f[i] \in Nat /\ f[n] = f[i] \div range
    BY <1>1, <1>3 DEF IsShift
  <1> QED
    BY <1>4, <1>5 DEF n

-----------------------------------------------------------------------------
(* Keys.                                                                      *)

(* There is nothing to convert. *)
LEMMA NothingRebased ==
    ASSUME NEW from, NEW to, Bases(from, to)
    PROVE  Rebase(<<>>, from, to) = <<>>
  <1> DEFINE none == <<>>
             v == [i \in 0..0 |-> 0]
  <1>1. \A base \in Nat : none \in Seq(0..(base - 1)) /\ Len(none) = 0
    OBVIOUS
  <1>2. v \in [0..0 -> Nat] /\ v[0] = 0
    OBVIOUS
  <1> HIDE DEF none, v
  <1>3. \A base \in Nat : IsHighFirst(none, base, 0)
    <2> SUFFICES ASSUME NEW base \in Nat
                 PROVE  IsHighFirst(none, base, 0)
      OBVIOUS
    <2>1. HighFirst(none, base, v)
      BY <1>1, <1>2 DEF HighFirst
    <2> QED
      BY <1>1, <1>2, <2>1 DEF IsHighFirst
  <1>4. BeginsWithZeros(none, 0)
    BY <1>1 DEF BeginsWithZeros
  <1>5. from \in Nat /\ to \in Nat \ {0} /\ to \in {58, 256}
    BY DEF Bases
  <1> DEFINE out == Rebase(none, from, to)
  <1>6. IsRebased(out, none, to, 0)
    BY <1>3, <1>5, RebasedIs
  <1> HIDE DEF out
  <1>7. PICK rest : /\ IsHighFirst(rest, to, 0) /\ BeginsWithZeros(rest, 0)
                    /\ out = AfterZeros(Zeros(none), rest)
    BY <1>6 DEF IsRebased
  <1>8. rest = none
    BY <1>3, <1>4, <1>5, <1>7, OneNumeral
  <1>9. Zeros(none) = 0
    <2>1. none \in Seq(Nat)
      BY DEF none
    <2>2. BeginsWithZeros(none, Zeros(none))
      BY <2>1, ZerosInFront
    <2> QED
      BY <1>4, <2>1, <2>2, OneCount
  <1>10. out = AfterZeros(0, <<>>)
    BY <1>7, <1>8, <1>9 DEF none
  <1>11. [i \in 1..0 |-> 0] = <<>>
    OBVIOUS
  <1>12. <<>> \o <<>> = <<>>
    BY JoinedLists, <<>> \in Seq(Nat) DEF Joined
  <1>13. AfterZeros(0, <<>>) = <<>>
    BY <1>11, <1>12 DEF AfterZeros
  <1> QED
    BY <1>10, <1>13 DEF out, none

(* RebaseBack for each of the two conversions. *)
LEMMA BytesBack ==
    ASSUME NEW bytes \in Seq(0..255)
    PROVE  Rebase(bytes, 256, 58) \in Seq(0..57) /\ Rebase(Rebase(bytes, 256, 58), 58, 256) = bytes
  <1> DEFINE from == 256
             to == 58
  <1>1. Bases(from, to) /\ 0..(from - 1) = 0..255 /\ 0..(to - 1) = 0..57
    BY DEF Bases
  <1> HIDE DEF from, to
  <1>2. bytes \in Seq(0..(from - 1))
    BY <1>1
  <1>3. /\ Rebase(bytes, from, to) \in Seq(0..(to - 1))
        /\ Rebase(Rebase(bytes, from, to), to, from) = bytes
    BY <1>1, <1>2, RebaseBack
  <1> QED
    BY <1>1, <1>3 DEF from, to

LEMMA TextBack ==
    ASSUME NEW text \in Seq(0..57)
    PROVE  Rebase(text, 58, 256) \in Seq(0..255) /\ Rebase(Rebase(text, 58, 256), 256, 58) = text
  <1> DEFINE from == 58
             to == 256
  <1>1. Bases(from, to) /\ 0..(from - 1) = 0..57 /\ 0..(to - 1) = 0..255
    BY DEF Bases
  <1> HIDE DEF from, to
  <1>2. text \in Seq(0..(from - 1))
    BY <1>1
  <1>3. /\ Rebase(text, from, to) \in Seq(0..(to - 1))
        /\ Rebase(Rebase(text, from, to), to, from) = text
    BY <1>1, <1>2, RebaseBack
  <1> QED
    BY <1>1, <1>3 DEF from, to

(* A key is that many bytes, and not none. *)
LEMMA KeysAreBytes ==
    /\ NoKey \notin PublicKeys
    /\ \A key \in PublicKeys : key \in Seq(0..255) /\ Len(key) = KeyLength
    /\ \A bytes \in Seq(0..255) : Len(bytes) = KeyLength => bytes \in PublicKeys
  <1>1. KeyLength \in Nat \ {0}
    BY RangeAssumption
  <1>2. \A key \in PublicKeys : key \in Seq(0..255) /\ Len(key) = KeyLength
    BY <1>1 DEF PublicKeys
  <1>3. \A bytes \in Seq(0..255) : Len(bytes) = KeyLength => bytes \in PublicKeys
    <2> SUFFICES ASSUME NEW bytes \in Seq(0..255), Len(bytes) = KeyLength
                 PROVE  bytes \in PublicKeys
      OBVIOUS
    <2>1. bytes \in [1..Len(bytes) -> 0..255]
      BY LenProperties
    <2> QED
      BY <2>1 DEF PublicKeys
  <1>4. NoKey \notin PublicKeys
    BY <1>1, <1>2 DEF NoKey
  <1> QED
    BY <1>2, <1>3, <1>4

(* A key is read from its text. *)
LEMMA KeyReadBack ==
    ASSUME NEW key \in PublicKeys
    PROVE  PublicKeyFromText(Encode(key)) = key
  <1> DEFINE text == Encode(key)
  <1>1. key \in Seq(0..255) /\ Len(key) = KeyLength /\ KeyLength \in Nat \ {0} /\ key # <<>>
    BY KeysAreBytes, RangeAssumption
  <1>2. Bases(58, 256)
    BY DEF Bases
  <1>3. text = Rebase(key, 256, 58)
    BY <1>1 DEF Encode
  <1>4. text \in Seq(0..57) /\ Rebase(text, 58, 256) = key
    BY <1>1, <1>3, BytesBack
  <1> HIDE DEF text
  <1>5. text # <<>>
    BY <1>1, <1>2, <1>4, NothingRebased
  <1>6. Valid(text)
    <2> DEFINE S == 0..57
    <2>1. \A d \in S : d # Foreign
      BY DEF Foreign
    <2> HIDE DEF S
    <2>2. text \in Seq(S) /\ DOMAIN text = 1..Len(text)
      BY <1>4 DEF S
    <2>3. \A i \in 1..Len(text) : text[i] \in S
      BY <2>2, ElementOfSeq
    <2> QED
      BY <2>1, <2>2, <2>3 DEF Valid
  <1>7. Decode(text) = key
    BY <1>4, <1>5 DEF Decode
  <1> QED
    BY <1>1, <1>6, <1>7 DEF PublicKeyFromText, text

(* A text that a key is read from is the text of that key.                    *)
LEMMA ReadTextIsOfKey ==
    ASSUME NEW text \in Seq({Foreign} \cup 0..57), PublicKeyFromText(text) # NoKey
    PROVE  text \in KeyTexts
  <1> DEFINE key == Decode(text)
  <1>1. Valid(text) /\ Len(key) = KeyLength /\ KeyLength \in Nat \ {0}
    BY RangeAssumption DEF PublicKeyFromText
  <1>2. text # <<>> /\ key = Rebase(text, 58, 256)
    BY <1>1 DEF Decode
  <1>4. text \in Seq(0..57)
    <2> DEFINE S == 0..57
               T == {Foreign} \cup 0..57
    <2>1. \A d \in T : d # Foreign => d \in S
      OBVIOUS
    <2> HIDE DEF S, T
    <2>2. text \in Seq(T) /\ Len(text) \in Nat /\ DOMAIN text = 1..Len(text)
      BY DEF T
    <2>3. \A i \in 1..Len(text) : text[i] \in T
      BY <2>2, ElementOfSeq
    <2>4. \A i \in 1..Len(text) : text[i] \in S
      BY <1>1, <2>1, <2>2, <2>3 DEF Valid
    <2>5. text = [i \in 1..Len(text) |-> text[i]]
      BY <2>2
    <2>6. text \in [1..Len(text) -> S]
      BY <2>4, <2>5
    <2>7. text \in Seq(S)
      BY <2>2, <2>6
    <2> QED
      BY <2>7 DEF S
  <1> HIDE DEF key
  <1>5. key \in Seq(0..255) /\ Rebase(key, 256, 58) = text
    BY <1>2, <1>4, TextBack
  <1>6. key \in PublicKeys /\ key # <<>>
    BY <1>1, <1>5, KeysAreBytes
  <1>7. Encode(key) = text
    BY <1>5, <1>6 DEF Encode
  <1> QED
    BY <1>6, <1>7 DEF KeyTexts

(* The key that is read is the one that the text means.                       *)
LEMMA MeaningRead ==
    ASSUME NEW text \in Seq({Foreign} \cup 0..57), NEW key, Means(text, key)
    PROVE  /\ PublicKeyFromText(text) = key
           /\ key # NoKey => key \in PublicKeys /\ Encode(key) = text
  <1>1. CASE key = NoKey
    BY <1>1, ReadTextIsOfKey DEF Means
  <1>2. CASE key # NoKey
    BY <1>2, KeyReadBack DEF Means
  <1> QED
    BY <1>1, <1>2

(* The keys that are spelled out: each is one, but for that of the recent     *)
(* blockhashes.                                                               *)
LEMMA NumbersAreKeys ==
    ASSUME NEW value \in Nat
    PROVE  PublicKeyFromNumber(value) \in PublicKeys
  <1>1. ASSUME NEW i \in 1..KeyLength
        PROVE  Shifted(value, KeyLength - i, 256) % 256 \in 0..255
    <2> DEFINE j == KeyLength - i
    <2>1. j \in Nat /\ 256 \in Nat \ {0}
      BY RangeAssumption
    <2> HIDE DEF j
    <2>2. Shifted(value, j, 256) \in Nat
      BY <2>1, ShiftedBy
    <2>3. Shifted(value, j, 256) % 256 \in 0..255
      BY <2>2
    <2> QED
      BY <2>3 DEF j
  <1> QED
    BY <1>1 DEF PublicKeyFromNumber, PublicKeys

LEMMA KnownKeys ==
    ASSUME NEW name \in {"system", "token", "associated", "budget", "rent"}
    PROVE  KnownKey(name) \in PublicKeys
  <1> DEFINE key == PublicKeyFromNumber(Known[name])
  <1>1. Known[name] \in Nat
    BY DEF Known
  <1>2. key \in PublicKeys
    BY <1>1, NumbersAreKeys
  <1> HIDE DEF key
  <1>3. Encode(key) \in Seq(0..57)
    <2>1. key \in Seq(0..255) /\ key # <<>>
      BY <1>2, KeysAreBytes DEF NoKey
    <2> QED
      BY <2>1, BytesBack DEF Encode
  <1>4. KnownText(name) = Encode(key)
    <2>1. KnownText(name) = Encode(key) \o <<>>
      BY DEF KnownText, key
    <2> QED
      BY <1>3, <2>1
  <1> QED
    BY <1>2, <1>4, KeyReadBack DEF KnownKey

LEMMA RecentIsNoKey == KnownKey("recent") = NoKey
  <1> DEFINE key == PublicKeyFromNumber(Known["recent"])
             text == Encode(key)
             all == text \o <<Foreign>>
  <1>1. text \in Seq(Int)
    <2>1. Known["recent"] \in Nat
      BY DEF Known
    <2>2. key \in PublicKeys
      BY <2>1, NumbersAreKeys
    <2> HIDE DEF key
    <2>3. key \in Seq(0..255) /\ key # <<>>
      BY <2>2, KeysAreBytes DEF NoKey
    <2>4. Rebase(key, 256, 58) \in Seq(0..57)
      BY <2>3, BytesBack
    <2> DEFINE S == 0..57
               L == Int
               digits == Rebase(key, 256, 58)
    <2>5. S \subseteq L /\ digits \in Seq(S)
      BY <2>4
    <2>6. text = digits
      BY <2>3 DEF Encode
    <2> HIDE DEF S, L, digits, text
    <2>7. digits \in Seq(L)
      BY <2>5, WiderSeq
    <2> QED
      BY <2>6, <2>7 DEF L
  <1>2. KnownText("recent") = all
    BY DEF KnownText
  <1> HIDE DEF text
  <1>3. Len(text) + 1 \in DOMAIN all /\ all[Len(text) + 1] = Foreign
    BY <1>1 DEF Foreign
  <1> HIDE DEF all
  <1>4. ~Valid(all)
    BY <1>3 DEF Valid
  <1> QED
    BY <1>2, <1>4 DEF KnownKey, PublicKeyFromText

-----------------------------------------------------------------------------
(* What the program on the chain reads.                                       *)

(* A byte of the data, or none past its end. *)
LEMMA BytesAre ==
    ASSUME NEW data \in Seq(Nat), NEW at \in Nat, NEW width \in Nat
    PROVE  /\ Bytes(data, at, width) \in Seq(Nat) /\ Len(Bytes(data, at, width)) = width
           /\ \A i \in 1..width : at + i <= Len(data) => Bytes(data, at, width)[i] = data[at + i]
  <1>1. \A i \in 1..width : at + i <= Len(data) => data[at + i] \in Nat
    OBVIOUS
  <1>2. \A i \in 1..width : (IF at + i <= Len(data) THEN data[at + i] ELSE 0) \in Nat
    BY <1>1
  <1>3. Bytes(data, at, width) \in [1..width -> Nat]
    BY <1>2 DEF Bytes
  <1> QED
    BY <1>3 DEF Bytes

(* The number so far, from the highest byte down. *)
IsUint(f, data, at, width) ==
    /\ f \in [0..width -> Nat]
    /\ f[0] = 0
    /\ \A i \in 1..width : f[i] = f[i - 1] * ByteRange + Bytes(data, at, width)[width - i + 1]

LEMMA UintIsRead ==
    ASSUME NEW data \in Seq(Nat), NEW at \in Nat, NEW width \in Nat
    PROVE  \E f : IsUint(f, data, at, width) /\ UintAt(data, at, width) = f[width]
  <1> DEFINE bytes == Bytes(data, at, width)
             step == [i \in 1..width |-> [t \in Nat |-> t * ByteRange + bytes[width - i + 1]]]
             IsUpto(g) == g = [i \in 0..width |->
                                  IF i = 0 THEN 0 ELSE g[i - 1] * ByteRange + bytes[width - i + 1]]
             upto == CHOOSE g : IsUpto(g)
  <1>1. ByteRange \in Nat
    BY RangeAssumption
  <1>2. \A i \in 1..width : bytes[width - i + 1] \in Nat
    <2>1. bytes \in Seq(Nat) /\ Len(bytes) = width
      BY BytesAre
    <2> HIDE DEF bytes
    <2>2. \A i \in 1..width : width - i + 1 \in 1..Len(bytes)
      BY <2>1
    <2> QED
      BY <2>1, <2>2
  <1>3. UintAt(data, at, width) = upto[width]
    BY DEF UintAt
  <1> HIDE DEF bytes
  <1>4. step \in [1..width -> [Nat -> Nat]]
    <2> SUFFICES ASSUME NEW i \in 1..width, NEW t \in Nat
                 PROVE  t * ByteRange + bytes[width - i + 1] \in Nat
      OBVIOUS
    <2>1. t * ByteRange \in Nat
      BY <1>1
    <2> QED
      BY <1>2, <2>1
  <1>5. \E f \in [0..width -> Nat] : AreRounds(f, 0, step, width)
    <2> HIDE DEF step
    <2>1. 0 \in Nat
      OBVIOUS
    <2> QED
      BY <1>4, <2>1, SomeRounds
  <1>6. PICK f \in [0..width -> Nat] : AreRounds(f, 0, step, width)
    BY <1>5
  <1>7. \A i \in 1..width : f[i] = f[i - 1] * ByteRange + bytes[width - i + 1]
    <2> SUFFICES ASSUME NEW i \in 1..width
                 PROVE  f[i] = f[i - 1] * ByteRange + bytes[width - i + 1]
      OBVIOUS
    <2>1. f[i - 1] \in Nat
      OBVIOUS
    <2>2. f[i] = step[i][f[i - 1]]
      BY <1>6 DEF AreRounds
    <2>3. step[i][f[i - 1]] = f[i - 1] * ByteRange + bytes[width - i + 1]
      BY <2>1
    <2> QED
      BY <2>2, <2>3
  <1>8. f[0] = 0
    BY <1>6 DEF AreRounds
  <1>9. IsUpto(f)
    <2>1. ASSUME NEW i \in 0..width
          PROVE  f[i] = IF i = 0 THEN 0 ELSE f[i - 1] * ByteRange + bytes[width - i + 1]
      <3>1. CASE i = 0
        BY <1>8, <3>1
      <3>2. CASE i # 0
        <4>1. i \in 1..width
          BY <3>2
        <4> QED
          BY <1>7, <3>2, <4>1, Zenon
      <3> QED
        BY <3>1, <3>2
    <2>2. f = [i \in 0..width |-> f[i]]
      OBVIOUS
    <2> QED
      BY <2>1, <2>2, Zenon
  <1>10. IsUpto(upto)
    BY <1>9, Zenon
  <1> HIDE DEF upto
  <1>11. \A i \in 0..width : upto[i] = IF i = 0 THEN 0 ELSE upto[i - 1] * ByteRange + bytes[width - i + 1]
    BY <1>10, Zenon
  <1> DEFINE Same == {i \in Nat : i <= width => upto[i] = f[i]}
  <1>12. \A i \in Nat : i \in Same
    <2>1. 0 \in Same
      BY <1>8, <1>11
    <2>2. ASSUME NEW i \in Nat, i \in Same
          PROVE  i + 1 \in Same
      <3> SUFFICES ASSUME i + 1 <= width
                   PROVE  upto[i + 1] = f[i + 1]
        OBVIOUS
      <3> DEFINE k == i + 1
      <3>1. k \in 0..width /\ k # 0 /\ k \in 1..width /\ k - 1 = i /\ upto[i] = f[i]
        BY <2>2
      <3> HIDE DEF k
      <3>2. upto[k] = upto[k - 1] * ByteRange + bytes[width - k + 1]
        BY <1>11, <3>1, Zenon
      <3>3. f[k] = f[k - 1] * ByteRange + bytes[width - k + 1]
        BY <1>7, <3>1
      <3>4. upto[k - 1] = f[k - 1]
        BY <3>1
      <3>5. upto[k] = f[k]
        BY <3>2, <3>3, <3>4, Zenon
      <3> QED
        BY <3>5 DEF k
    <2> HIDE DEF Same
    <2> QED
      BY <2>1, <2>2, AllNumbers
  <1>13. upto[width] = f[width]
    BY <1>12
  <1>14. IsUint(f, data, at, width)
    BY <1>7, <1>8 DEF IsUint, bytes
  <1> QED
    BY <1>3, <1>13, <1>14

(* A part of the data. *)
Holds(data, at, part) ==
    \A i \in 1..Len(part) : at + i <= Len(data) /\ data[at + i] = part[i]

(* A number that was written is read. *)
LEMMA UintReadBack ==
    ASSUME NEW data \in Seq(Nat), NEW at \in Nat, NEW width \in Nat,
           NEW value, FitsIn(value, width), Holds(data, at, WriteUint(value, width))
    PROVE  UintAt(data, at, width) = value
  <1> DEFINE R == ByteRange
             part == WriteUint(value, width)
             bytes == Bytes(data, at, width)
  <1>1. R \in Nat \ {0} /\ value \in Nat /\ Shifted(value, width, R) = 0
    BY RangeAssumption DEF FitsIn
  <1>2. PICK f : IsUint(f, data, at, width) /\ UintAt(data, at, width) = f[width]
    BY UintIsRead
  <1>3. /\ f \in [0..width -> Nat] /\ f[0] = 0
        /\ \A i \in 1..width : f[i] = f[i - 1] * R + bytes[width - i + 1]
    BY <1>2 DEF IsUint
  <1>4. \A i \in 1..width : bytes[i] = Shifted(value, i - 1, R) % R
    <2>1. \A i \in 1..width : at + i <= Len(data) => bytes[i] = data[at + i]
      BY BytesAre
    <2>2. part = [i \in 1..width |-> Shifted(value, i - 1, R) % R]
      BY DEF WriteUint
    <2>3. Len(part) = width /\ \A i \in 1..width : part[i] = Shifted(value, i - 1, R) % R
      BY <2>2
    <2>4. \A i \in 1..width : at + i <= Len(data) /\ data[at + i] = part[i]
      <3> HIDE DEF part
      <3> QED
        BY <2>3 DEF Holds, part
    <2> HIDE DEF bytes, part
    <2> QED
      BY <2>1, <2>3, <2>4
  <1> HIDE DEF R, part, bytes
  <1> DEFINE Right == {i \in Nat : i <= width => f[i] = Shifted(value, width - i, R)}
  <1>5. \A i \in Nat : i \in Right
    <2>1. 0 \in Right
      <3>1. width - 0 = width
        OBVIOUS
      <3> QED
        BY <1>1, <1>3, <3>1
    <2>2. ASSUME NEW i \in Nat, i \in Right
          PROVE  i + 1 \in Right
      <3> SUFFICES ASSUME i + 1 <= width
                   PROVE  f[i + 1] = Shifted(value, width - (i + 1), R)
        OBVIOUS
      <3> DEFINE k == i + 1
                 j == width - k
                 x == Shifted(value, j, R)
      <3>1. /\ k \in 1..width /\ k - 1 = i /\ j \in Nat /\ width - i = j + 1
            /\ width - k + 1 = j + 1 /\ j + 1 \in 1..width /\ (j + 1) - 1 = j
        OBVIOUS
      <3>2. f[i] = Shifted(value, width - i, R)
        BY <2>2
      <3> HIDE DEF k, j
      <3>3. f[k] = f[i] * R + bytes[j + 1]
        BY <1>3, <3>1
      <3>4. bytes[j + 1] = x % R
        BY <1>4, <3>1
      <3>5. x \in Nat /\ Shifted(value, j + 1, R) = x \div R
        BY <1>1, <3>1, ShiftedBy
      <3> HIDE DEF x
      <3>6. Splits(x, R)
        BY <1>1, <3>5, ByteOff
      <3>7. f[i] = x \div R
        BY <3>1, <3>2, <3>5
      <3>8. f[k] = x
        BY <3>3, <3>4, <3>6, <3>7 DEF Splits
      <3> QED
        BY <3>8 DEF k, j, x
    <2> HIDE DEF Right
    <2> QED
      BY <2>1, <2>2, AllNumbers
  <1>6. f[width] = Shifted(value, 0, R)
    <2>1. width - width = 0
      OBVIOUS
    <2>2. f[width] = Shifted(value, width - width, R)
      BY <1>5
    <2> QED
      BY <2>1, <2>2
  <1>7. Shifted(value, 0, R) = value
    BY <1>1, 0 \in Nat, ShiftedBy
  <1> QED
    BY <1>2, <1>6, <1>7

(* A tag fits in every width. *)
LEMMA TagsFit ==
    ASSUME NEW value \in 0..12, NEW width \in {1, 4}
    PROVE  FitsIn(value, width)
  <1> DEFINE R == ByteRange
  <1>1. R \in Nat \ {0} /\ value \in Nat /\ value < R
    BY RangeAssumption
  <1> HIDE DEF R
  <1>2. value \div R = 0 /\ 0 \div R = 0
    BY <1>1
  <1>3. /\ Shifted(value, 0, R) = value
        /\ Shifted(value, 0 + 1, R) = Shifted(value, 0, R) \div R
        /\ Shifted(value, 1 + 1, R) = Shifted(value, 1, R) \div R
        /\ Shifted(value, 2 + 1, R) = Shifted(value, 2, R) \div R
        /\ Shifted(value, 3 + 1, R) = Shifted(value, 3, R) \div R
    BY <1>1, ShiftedBy
  <1>4. Shifted(value, 1, R) = 0 /\ Shifted(value, 4, R) = 0
    BY <1>2, <1>3
  <1> QED
    BY <1>1, <1>4 DEF FitsIn, R

-----------------------------------------------------------------------------
(* Fields.                                                                   *)

(* What a field is, and what is written for it. *)
Fields == [kind : {"uint", "bytes", "string"}, width : Nat, value : Seq(Nat)]

Written(field) ==
    CASE field.kind = "uint" -> WriteUint(field.value[1], field.width)
      [] field.kind = "bytes" -> field.value
      [] field.kind = "string" -> WriteString(field.value)

(* The value of a field that can be written. *)
IsField(field) ==
    /\ field \in Fields
    /\ field.kind = "uint" => Len(field.value) = 1 /\ FitsIn(field.value[1], field.width)
    /\ field.kind = "bytes" => Len(field.value) = field.width
    /\ field.kind = "string" => field.width = 4 /\ FitsIn(Len(field.value), 4)

Reading == [at : Nat, values : Seq(Seq(Nat))]

LEMMA WrittenUint ==
    ASSUME NEW value \in Nat, NEW width \in Nat
    PROVE  WriteUint(value, width) \in Seq(Nat) /\ Len(WriteUint(value, width)) = width
  <1> DEFINE R == ByteRange
  <1>1. R \in Nat \ {0}
    BY RangeAssumption
  <1>2. ASSUME NEW i \in 1..width
        PROVE  Shifted(value, i - 1, R) % R \in Nat
    <2> DEFINE j == i - 1
    <2>1. j \in Nat
      OBVIOUS
    <2> HIDE DEF j, R
    <2>2. Shifted(value, j, R) \in Nat
      BY <1>1, <2>1, ShiftedBy
    <2>3. Shifted(value, j, R) % R \in 0..(R - 1)
      BY <1>1, <2>2
    <2> QED
      BY <1>1, <2>3 DEF j
  <1>3. WriteUint(value, width) \in [1..width -> Nat]
    BY <1>2 DEF WriteUint
  <1> QED
    BY <1>3

LEMMA UintIsNatural ==
    ASSUME NEW data \in Seq(Nat), NEW at \in Nat, NEW width \in Nat
    PROVE  UintAt(data, at, width) \in Nat
  <1>1. PICK f : IsUint(f, data, at, width) /\ UintAt(data, at, width) = f[width]
    BY UintIsRead
  <1>2. width \in 0..width
    OBVIOUS
  <1> QED
    BY <1>1, <1>2 DEF IsUint

(* What reading one field does. *)
Reads(at, values) == [at |-> at, values |-> values]

LEMMA OneFieldRead ==
    ASSUME NEW data \in Seq(Nat), NEW acc \in Reading, NEW field \in Fields
    PROVE  /\ ReadField(data, acc, field) \in Reading
           /\ field.kind = "uint" =>
                  ReadField(data, acc, field) =
                      Reads(acc.at + field.width,
                            Append(acc.values, <<UintAt(data, acc.at, field.width)>>))
           /\ field.kind = "bytes" =>
                  ReadField(data, acc, field) =
                      Reads(acc.at + field.width,
                            Append(acc.values, Bytes(data, acc.at, field.width)))
           /\ field.kind = "string" =>
                  ReadField(data, acc, field) =
                      Reads(acc.at + field.width + UintAt(data, acc.at, field.width),
                            Append(acc.values, Bytes(data, acc.at + field.width,
                                                     UintAt(data, acc.at, field.width))))
  <1>1. /\ acc.at \in Nat /\ acc.values \in Seq(Seq(Nat)) /\ field.width \in Nat
        /\ field.kind \in {"uint", "bytes", "string"}
    BY DEF Reading, Fields
  <1> DEFINE length == UintAt(data, acc.at, field.width)
             after == acc.at + field.width
  <1>2. length \in Nat
    BY <1>1, UintIsNatural
  <1> HIDE DEF length
  <1>3. after \in Nat /\ after + length \in Nat
    BY <1>1, <1>2
  <1>4. Bytes(data, acc.at, field.width) \in Seq(Nat)
    BY <1>1, BytesAre
  <1>5. Bytes(data, after, length) \in Seq(Nat)
    <2> HIDE DEF after
    <2> QED
      BY <1>2, <1>3, BytesAre
  <1>6. \A at \in Nat, value \in Seq(Nat) : Reads(at, Append(acc.values, value)) \in Reading
    BY <1>1 DEF Reading, Reads
  <1>7. CASE field.kind = "uint"
    <2>1. ReadField(data, acc, field) = Reads(after, Append(acc.values, <<length>>))
      BY <1>7 DEF ReadField, Reads, length
    <2>2. <<length>> \in Seq(Nat)
      BY <1>2
    <2> QED
      BY <1>3, <1>6, <1>7, <2>1, <2>2 DEF length
  <1>8. CASE field.kind = "bytes"
    <2>1. ReadField(data, acc, field) = Reads(after, Append(acc.values, Bytes(data, acc.at, field.width)))
      BY <1>8 DEF ReadField, Reads
    <2> QED
      BY <1>3, <1>4, <1>6, <1>8, <2>1
  <1>9. CASE field.kind = "string"
    <2>1. ReadField(data, acc, field) =
              Reads(after + length, Append(acc.values, Bytes(data, after, length)))
      BY <1>9 DEF ReadField, Reads, length
    <2> QED
      BY <1>3, <1>5, <1>6, <1>9, <2>1 DEF length
  <1> QED
    BY <1>1, <1>7, <1>8, <1>9

(* The bytes of what is held are read as they are.                            *)
LEMMA BytesReadBack ==
    ASSUME NEW data \in Seq(Nat), NEW at \in Nat, NEW bytes \in Seq(Nat), Holds(data, at, bytes)
    PROVE  Bytes(data, at, Len(bytes)) = bytes
  <1> DEFINE width == Len(bytes)
             read == Bytes(data, at, width)
  <1>1. width \in Nat
    OBVIOUS
  <1>2. \A i \in 1..width : at + i <= Len(data) /\ data[at + i] = bytes[i]
    BY DEF Holds
  <1> HIDE DEF width
  <1>3. /\ read \in Seq(Nat) /\ Len(read) = width
        /\ \A i \in 1..width : at + i <= Len(data) => read[i] = data[at + i]
    BY <1>1, BytesAre
  <1> HIDE DEF read
  <1>4. \A i \in 1..width : read[i] = bytes[i]
    BY <1>2, <1>3
  <1>5. read = bytes
    BY <1>3, <1>4, SeqEqual DEF width
  <1> QED
    BY <1>5 DEF read, width

(* A number that was written is read.                                         *)
LEMMA UintFieldReadBack ==
    ASSUME NEW data \in Seq(Nat), NEW acc \in Reading, NEW field \in Fields, IsField(field),
           field.kind = "uint", Holds(data, acc.at, Written(field))
    PROVE  /\ Written(field) \in Seq(Nat)
           /\ ReadField(data, acc, field) =
                  Reads(acc.at + Len(Written(field)), Append(acc.values, field.value))
  <1> DEFINE at == acc.at
             width == field.width
             value == field.value
             number == value[1]
  <1>1. at \in Nat /\ width \in Nat /\ value \in Seq(Nat)
    BY DEF Reading, Fields
  <1>2. Len(value) = 1 /\ FitsIn(number, width) /\ Written(field) = WriteUint(number, width)
    BY DEF IsField, Written
  <1>3. value = <<number>>
    BY <1>1, <1>2
  <1>4. Holds(data, at, WriteUint(number, width))
    BY <1>2
  <1>5. ReadField(data, acc, field) =
            Reads(at + width, Append(acc.values, <<UintAt(data, at, width)>>))
    BY OneFieldRead
  <1> HIDE DEF at, width, number, value
  <1>6. number \in Nat
    BY <1>2 DEF FitsIn
  <1>7. Written(field) \in Seq(Nat) /\ Len(Written(field)) = width
    BY <1>1, <1>2, <1>6, WrittenUint
  <1>8. UintAt(data, at, width) = number
    BY <1>1, <1>2, <1>4, UintReadBack
  <1>9. ReadField(data, acc, field) = Reads(at + Len(Written(field)), Append(acc.values, value))
    BY <1>3, <1>5, <1>7, <1>8
  <1> QED
    BY <1>7, <1>9 DEF at, value

(* A key is read.                                                             *)
LEMMA BytesFieldReadBack ==
    ASSUME NEW data \in Seq(Nat), NEW acc \in Reading, NEW field \in Fields, IsField(field),
           field.kind = "bytes", Holds(data, acc.at, Written(field))
    PROVE  /\ Written(field) \in Seq(Nat)
           /\ ReadField(data, acc, field) =
                  Reads(acc.at + Len(Written(field)), Append(acc.values, field.value))
  <1> DEFINE at == acc.at
             width == field.width
             value == field.value
  <1>1. at \in Nat /\ width \in Nat /\ value \in Seq(Nat)
    BY DEF Reading, Fields
  <1>2. Len(value) = width /\ Written(field) = value
    BY DEF IsField, Written
  <1>3. ReadField(data, acc, field) = Reads(at + width, Append(acc.values, Bytes(data, at, width)))
    BY OneFieldRead
  <1>4. Holds(data, at, value)
    BY <1>2
  <1> HIDE DEF at, width, value
  <1>5. Bytes(data, at, width) = value
    BY <1>1, <1>2, <1>4, BytesReadBack
  <1>6. ReadField(data, acc, field) = Reads(at + Len(Written(field)), Append(acc.values, value))
    BY <1>2, <1>3, <1>5
  <1> QED
    BY <1>1, <1>2, <1>6 DEF at, value

(* What holds one list after another holds each of them.                      *)
LEMMA HoldsBoth ==
    ASSUME NEW data \in Seq(Nat), NEW at \in Nat, NEW a \in Seq(Nat), NEW b \in Seq(Nat),
           Holds(data, at, Joined(a, b))
    PROVE  Holds(data, at, a) /\ Holds(data, at + Len(a), b)
  <1> DEFINE all == Joined(a, b)
             first == Len(a)
             second == Len(b)
  <1>1. first \in Nat /\ second \in Nat
    OBVIOUS
  <1>2. AreJoined(all, a, b)
    BY JoinedPlaces
  <1>3. \A i \in 1..Len(all) : at + i <= Len(data) /\ data[at + i] = all[i]
    BY DEF Holds
  <1> HIDE DEF all
  <1>4. /\ Len(all) = first + second
        /\ \A i \in 1..first : all[i] = a[i]
        /\ \A i \in 1..second : all[first + i] = b[i]
    BY <1>2 DEF AreJoined
  <1> HIDE DEF first, second
  <1>5. ASSUME NEW i \in 1..first
        PROVE  at + i <= Len(data) /\ data[at + i] = a[i]
    <2>1. i \in 1..Len(all)
      BY <1>1, <1>4
    <2> QED
      BY <1>3, <1>4, <2>1
  <1>6. ASSUME NEW i \in 1..second
        PROVE  (at + first) + i <= Len(data) /\ data[(at + first) + i] = b[i]
    <2> DEFINE j == first + i
    <2>1. j \in 1..Len(all) /\ (at + first) + i = at + j
      BY <1>1, <1>4
    <2>2. all[j] = b[i]
      BY <1>4
    <2> HIDE DEF j
    <2> QED
      BY <1>3, <2>1, <2>2
  <1> QED
    BY <1>5, <1>6 DEF Holds, first, second

(* A string is read: its length, then as many bytes.                          *)
LEMMA StringFieldReadBack ==
    ASSUME NEW data \in Seq(Nat), NEW acc \in Reading, NEW field \in Fields, IsField(field),
           field.kind = "string", Holds(data, acc.at, Written(field))
    PROVE  /\ Written(field) \in Seq(Nat)
           /\ ReadField(data, acc, field) =
                  Reads(acc.at + Len(Written(field)), Append(acc.values, field.value))
  <1> DEFINE at == acc.at
             width == field.width
             value == field.value
             size == Len(value)
             head == WriteUint(size, width)
             all == Joined(head, value)
             read == UintAt(data, at, width)
             after == at + width
  <1>1. at \in Nat /\ width \in Nat /\ value \in Seq(Nat) /\ size \in Nat
    BY DEF Reading, Fields
  <1>2. width = 4 /\ FitsIn(size, width)
    BY DEF IsField
  <1>3. Written(field) = all
    <2>1. Written(field) = WriteUint(Len(value), 4) \o value
      BY DEF Written, WriteString, U32
    <2> QED
      BY <1>2, <2>1 DEF Joined
  <1>4. ReadField(data, acc, field) =
            Reads(after + read, Append(acc.values, Bytes(data, after, read)))
    BY OneFieldRead
  <1>5. after \in Nat
    BY <1>1
  <1> HIDE DEF at, width, size
  <1>6. head \in Seq(Nat) /\ Len(head) = width
    BY <1>1, WrittenUint
  <1>7. Holds(data, at, all)
    BY <1>3 DEF at
  <1> HIDE DEF value
  <1>8. Holds(data, at, head) /\ Holds(data, at + Len(head), value)
    <2> HIDE DEF head
    <2> QED
      BY <1>1, <1>6, <1>7, HoldsBoth
  <1>9. read = size
    BY <1>1, <1>2, <1>8, UintReadBack
  <1> HIDE DEF read, head
  <1>10. Bytes(data, after, size) = value
    <2>1. Holds(data, after, value)
      BY <1>6, <1>8
    <2> HIDE DEF after
    <2> QED
      BY <1>1, <1>5, <2>1, BytesReadBack DEF size
  <1>11. all \in Seq(Nat) /\ Len(all) = width + size
    BY <1>1, <1>6, JoinedPlaces DEF AreJoined, size
  <1> HIDE DEF all
  <1>12. after + read = at + Len(all)
    BY <1>1, <1>9, <1>11
  <1> HIDE DEF after
  <1>13. ReadField(data, acc, field) = Reads(at + Len(all), Append(acc.values, value))
    BY <1>4, <1>9, <1>10, <1>12
  <1> QED
    BY <1>3, <1>11, <1>13 DEF at, value

(* A field that was written is read: what is read moves behind it.            *)
LEMMA FieldReadBack ==
    ASSUME NEW data \in Seq(Nat), NEW acc \in Reading, NEW field, IsField(field),
           Holds(data, acc.at, Written(field))
    PROVE  /\ Written(field) \in Seq(Nat)
           /\ ReadField(data, acc, field) =
                  Reads(acc.at + Len(Written(field)), Append(acc.values, field.value))
  <1>1. field \in Fields
    BY DEF IsField
  <1>2. field.kind \in {"uint", "bytes", "string"}
    BY <1>1 DEF Fields
  <1>3. CASE field.kind = "uint"
    BY <1>1, <1>3, UintFieldReadBack
  <1>4. CASE field.kind = "bytes"
    BY <1>1, <1>4, BytesFieldReadBack
  <1>5. CASE field.kind = "string"
    BY <1>1, <1>5, StringFieldReadBack
  <1> QED
    BY <1>2, <1>3, <1>4, <1>5

(* One field after the other. *)
IsReading(f, data, fields) ==
    /\ f \in [0..Len(fields) -> Reading]
    /\ f[0] = [at |-> 0, values |-> <<>>]
    /\ \A i \in 1..Len(fields) : f[i] = ReadField(data, f[i - 1], fields[i])

LEMMA ReadingExists ==
    ASSUME NEW data \in Seq(Nat), NEW fields \in Seq(Fields)
    PROVE  \E f : IsReading(f, data, fields)
  <1> DEFINE n == Len(fields)
             none == [at |-> 0, values |-> <<>>]
             step == [i \in 1..n |-> [t \in Reading |-> ReadField(data, t, fields[i])]]
  <1>1. n \in Nat /\ \A i \in 1..n : fields[i] \in Fields
    OBVIOUS
  <1> HIDE DEF n
  <1>2. none \in Reading
    BY DEF Reading
  <1>3. step \in [1..n -> [Reading -> Reading]]
    BY <1>1, OneFieldRead
  <1>4. \E f \in [0..n -> Reading] : AreRounds(f, none, step, n)
    <2> HIDE DEF step, none
    <2> QED
      BY <1>1, <1>2, <1>3, SomeRounds
  <1>5. PICK f \in [0..n -> Reading] : AreRounds(f, none, step, n)
    BY <1>4
  <1>6. \A i \in 1..n : f[i] = ReadField(data, f[i - 1], fields[i])
    <2> SUFFICES ASSUME NEW i \in 1..n
                 PROVE  f[i] = ReadField(data, f[i - 1], fields[i])
      OBVIOUS
    <2>1. f[i - 1] \in Reading
      BY <1>1
    <2>2. f[i] = step[i][f[i - 1]]
      BY <1>5 DEF AreRounds
    <2>3. step[i][f[i - 1]] = ReadField(data, f[i - 1], fields[i])
      BY <2>1
    <2> QED
      BY <2>2, <2>3
  <1> QED
    BY <1>5, <1>6 DEF IsReading, AreRounds, n

(* ReadFields, of any first part of the fields.                               *)
LEMMA FirstFieldsRead ==
    ASSUME NEW data \in Seq(Nat), NEW all \in Seq(Fields), NEW f, IsReading(f, data, all),
           NEW fields \in Seq(Fields), Len(fields) <= Len(all),
           \A i \in 1..Len(fields) : fields[i] = all[i]
    PROVE  ReadFields(data, fields) = f[Len(fields)]
  <1> DEFINE n == Len(fields)
             none == [at |-> 0, values |-> <<>>]
             IsUpto(g) == g = [i \in 0..n |-> IF i = 0 THEN [at |-> 0, values |-> <<>>]
                                              ELSE ReadField(data, g[i - 1], fields[i])]
             upto == CHOOSE g : IsUpto(g)
             part == [i \in 0..n |-> f[i]]
  <1>1. ReadFields(data, fields) = upto[n]
    BY DEF ReadFields
  <1>2. /\ n \in Nat /\ Len(all) \in Nat /\ n <= Len(all) /\ f[0] = none
        /\ \A i \in 1..n : f[i] = ReadField(data, f[i - 1], fields[i])
    <2>1. n \in Nat /\ Len(all) \in Nat /\ n <= Len(all)
      OBVIOUS
    <2>2. \A i \in 1..n : i \in 1..Len(all) /\ fields[i] = all[i]
      BY <2>1
    <2>3. f[0] = none /\ \A i \in 1..Len(all) : f[i] = ReadField(data, f[i - 1], all[i])
      BY DEF IsReading
    <2> HIDE DEF n
    <2>4. \A i \in 1..n : f[i] = ReadField(data, f[i - 1], fields[i])
      BY <2>2, <2>3, Zenon
    <2> QED
      BY <2>1, <2>3, <2>4
  <1> HIDE DEF n
  <1>3. IsUpto(part)
    <2>1. ASSUME NEW i \in 0..n
          PROVE  part[i] = IF i = 0 THEN [at |-> 0, values |-> <<>>]
                           ELSE ReadField(data, part[i - 1], fields[i])
      <3>1. part[i] = f[i]
        OBVIOUS
      <3>2. CASE i = 0
        BY <1>2, <3>1, <3>2
      <3>3. CASE i # 0
        <4>1. i \in 1..n /\ i - 1 \in 0..n
          BY <1>2, <3>3
        <4>2. part[i - 1] = f[i - 1]
          BY <4>1
        <4>3. f[i] = ReadField(data, f[i - 1], fields[i])
          BY <1>2, <4>1
        <4> HIDE DEF part
        <4> QED
          BY <3>1, <3>3, <4>2, <4>3, Zenon
      <3> QED
        BY <3>2, <3>3
    <2>2. part = [i \in 0..n |-> part[i]]
      OBVIOUS
    <2> HIDE DEF part
    <2> QED
      BY <2>1, <2>2, Zenon
  <1>4. IsUpto(upto)
    BY <1>3, Zenon
  <1> HIDE DEF upto, part
  <1>5. \A i \in 0..n : upto[i] = IF i = 0 THEN [at |-> 0, values |-> <<>>]
                                  ELSE ReadField(data, upto[i - 1], fields[i])
    BY <1>4, Zenon
  <1> DEFINE Same == {i \in Nat : i <= n => upto[i] = f[i]}
  <1>6. \A i \in Nat : i \in Same
    <2>1. 0 \in Same
      <3>1. 0 \in 0..n
        BY <1>2
      <3>2. upto[0] = none
        BY <1>5, <3>1, Zenon
      <3> QED
        BY <1>2, <3>2
    <2>2. ASSUME NEW i \in Nat, i \in Same
          PROVE  i + 1 \in Same
      <3> SUFFICES ASSUME i + 1 <= n
                   PROVE  upto[i + 1] = f[i + 1]
        OBVIOUS
      <3> DEFINE k == i + 1
      <3>1. k \in 0..n /\ k # 0 /\ k \in 1..n /\ k - 1 = i /\ upto[i] = f[i]
        BY <1>2, <2>2
      <3> HIDE DEF k
      <3>2. upto[k] = ReadField(data, upto[k - 1], fields[k])
        BY <1>5, <3>1, Zenon
      <3>3. f[k] = ReadField(data, f[k - 1], fields[k])
        BY <1>2, <3>1
      <3>4. upto[k] = f[k]
        BY <3>1, <3>2, <3>3, Zenon
      <3> QED
        BY <3>4 DEF k
    <2> HIDE DEF Same
    <2> QED
      BY <2>1, <2>2, AllNumbers
  <1>7. upto[n] = f[n]
    BY <1>2, <1>6
  <1> QED
    BY <1>1, <1>7 DEF n

LEMMA NoFieldsRead ==
    ASSUME NEW data \in Seq(Nat)
    PROVE  ReadFields(data, <<>>) = Reads(0, <<>>)
  <1> DEFINE none == <<>>
  <1>1. none \in Seq(Fields) /\ Len(none) = 0
    OBVIOUS
  <1> HIDE DEF none
  <1>2. PICK f : IsReading(f, data, none)
    BY <1>1, ReadingExists
  <1>3. ReadFields(data, none) = f[Len(none)]
    <2>1. Len(none) <= Len(none) /\ \A i \in 1..Len(none) : none[i] = none[i]
      BY <1>1
    <2> QED
      BY <1>1, <1>2, <2>1, FirstFieldsRead
  <1> QED
    BY <1>1, <1>2, <1>3 DEF IsReading, Reads, none

LEMMA OneMoreFieldRead ==
    ASSUME NEW data \in Seq(Nat), NEW fields \in Seq(Fields), NEW field \in Fields
    PROVE  /\ ReadFields(data, fields) \in Reading
           /\ ReadFields(data, Append(fields, field)) =
                  ReadField(data, ReadFields(data, fields), field)
  <1> DEFINE n == Len(fields)
             all == Append(fields, field)
  <1>1. /\ n \in Nat /\ all \in Seq(Fields) /\ Len(all) = n + 1 /\ all[n + 1] = field
        /\ \A i \in 1..n : fields[i] = all[i]
    OBVIOUS
  <1> HIDE DEF all
  <1>2. PICK f : IsReading(f, data, all)
    BY <1>1, ReadingExists
  <1>3. ReadFields(data, fields) = f[n]
    <2>1. Len(fields) <= Len(all)
      BY <1>1
    <2> QED
      BY <1>1, <1>2, <2>1, FirstFieldsRead
  <1>4. ReadFields(data, all) = f[n + 1]
    <2>1. Len(all) <= Len(all) /\ \A i \in 1..Len(all) : all[i] = all[i]
      BY <1>1
    <2>2. ReadFields(data, all) = f[Len(all)]
      BY <1>1, <1>2, <2>1, FirstFieldsRead
    <2> QED
      BY <1>1, <2>2
  <1>5. f[n] \in Reading /\ f[n + 1] = ReadField(data, f[n], field)
    <2>1. n \in 0..Len(all) /\ n + 1 \in 1..Len(all) /\ (n + 1) - 1 = n
      BY <1>1
    <2> QED
      BY <1>1, <1>2, <2>1 DEF IsReading
  <1> QED
    BY <1>3, <1>4, <1>5 DEF all

-----------------------------------------------------------------------------
(* What is written is read.                                                  *)

(* What is written for a field is bytes.                                      *)
LEMMA WrittenIsBytes ==
    ASSUME NEW field, IsField(field)
    PROVE  field \in Fields /\ Written(field) \in Seq(Nat)
  <1> DEFINE value == field.value
             width == field.width
             number == value[1]
             size == Len(value)
  <1>1. /\ field \in Fields /\ width \in Nat /\ value \in Seq(Nat)
        /\ field.kind \in {"uint", "bytes", "string"}
    BY DEF IsField, Fields
  <1>2. CASE field.kind = "uint"
    <2>1. FitsIn(number, width) /\ Written(field) = WriteUint(number, width)
      BY <1>2 DEF IsField, Written
    <2> HIDE DEF number, width
    <2>2. number \in Nat
      BY <2>1 DEF FitsIn
    <2> QED
      BY <1>1, <2>1, <2>2, WrittenUint
  <1>3. CASE field.kind = "bytes"
    BY <1>1, <1>3 DEF Written
  <1>4. CASE field.kind = "string"
    <2> DEFINE head == WriteUint(size, 4)
    <2>1. Written(field) = Joined(head, value)
      BY <1>4 DEF Written, WriteString, U32, Joined
    <2>2. head \in Seq(Nat)
      <3>1. size \in Nat /\ 4 \in Nat
        BY <1>1
      <3> HIDE DEF size
      <3> QED
        BY <3>1, WrittenUint
    <2> HIDE DEF head, value
    <2> QED
      BY <1>1, <2>1, <2>2, JoinedPlaces
  <1> QED
    BY <1>1, <1>2, <1>3, <1>4

Values(fields) == [i \in DOMAIN fields |-> fields[i].value]

(* These fields are read in the data, whatever is behind it.                  *)
ReadsAs(data, fields) ==
    /\ data \in Seq(Nat) /\ fields \in Seq(Fields)
    /\ \A tail \in Seq(Nat) : ReadFields(Joined(data, tail), fields) = Reads(Len(data), Values(fields))

LEMMA ValuesAre ==
    ASSUME NEW fields \in Seq(Fields), NEW field \in Fields
    PROVE  /\ Values(fields) \in Seq(Seq(Nat))
           /\ Values(Append(fields, field)) = Append(Values(fields), field.value)
  <1> DEFINE n == Len(fields)
             all == Append(fields, field)
             values == Values(fields)
             more == Append(values, field.value)
  <1>1. /\ n \in Nat /\ \A i \in 1..n : fields[i] \in Fields
        /\ DOMAIN fields = 1..n
    OBVIOUS
  <1>2. /\ all \in Seq(Fields) /\ Len(all) = n + 1 /\ all[n + 1] = field /\ DOMAIN all = 1..(n + 1)
        /\ \A i \in 1..n : all[i] = fields[i]
    OBVIOUS
  <1>3. field.value \in Seq(Nat) /\ \A f \in Fields : f.value \in Seq(Nat)
    BY DEF Fields
  <1> HIDE DEF n, all
  <1>4. values \in [1..n -> Seq(Nat)] /\ \A i \in 1..n : values[i] = fields[i].value
    BY <1>1, <1>3 DEF Values
  <1>5. values \in Seq(Seq(Nat)) /\ Len(values) = n
    BY <1>1, <1>4
  <1> HIDE DEF values
  <1>6. /\ more \in Seq(Seq(Nat)) /\ Len(more) = n + 1 /\ more[n + 1] = field.value
        /\ \A i \in 1..n : more[i] = values[i]
    BY <1>3, <1>5
  <1> HIDE DEF more
  <1>7. more = [i \in 1..(n + 1) |-> all[i].value]
    <2>1. more \in [1..(n + 1) -> Seq(Nat)]
      BY <1>6
    <2>2. \A i \in 1..(n + 1) : more[i] = all[i].value
      <3>1. \A i \in 1..(n + 1) : i = n + 1 \/ i \in 1..n
        BY <1>1
      <3> QED
        BY <1>2, <1>4, <1>6, <3>1
    <2> QED
      BY <2>1, <2>2
  <1>8. Values(all) = more
    BY <1>2, <1>7 DEF Values
  <1> QED
    BY <1>5, <1>8 DEF values, more, all

(* No field is read in nothing.                                               *)
LEMMA NothingReads == ReadsAs(<<>>, <<>>)
  <1>1. \A tail \in Seq(Nat) : ReadFields(tail, <<>>) = Reads(0, <<>>)
    BY NoFieldsRead
  <1>2. \A tail \in Seq(Nat) : Joined(<<>>, tail) = tail
    BY JoinedLists
  <1>3. Len(<<>>) = 0 /\ Values(<<>>) = <<>> /\ <<>> \in Seq(Nat) /\ <<>> \in Seq(Fields)
    BY DEF Values
  <1>4. \A tail \in Seq(Nat) :
            ReadFields(Joined(<<>>, tail), <<>>) = Reads(Len(<<>>), Values(<<>>))
    BY <1>1, <1>2, <1>3, Zenon
  <1> QED
    BY <1>3, <1>4 DEF ReadsAs

(* One more field is read in what is written behind.                          *)
LEMMA OneMoreReads ==
    ASSUME NEW data, NEW fields, ReadsAs(data, fields), NEW field, IsField(field)
    PROVE  ReadsAs(Joined(data, Written(field)), Append(fields, field))
  <1> DEFINE part == Written(field)
             both == Joined(data, part)
             more == Append(fields, field)
             values == Values(fields)
             at == Len(data)
  <1>1. /\ data \in Seq(Nat) /\ fields \in Seq(Fields) /\ field \in Fields /\ part \in Seq(Nat)
        /\ at \in Nat /\ Len(part) \in Nat
    BY WrittenIsBytes DEF ReadsAs
  <1>2. values \in Seq(Seq(Nat)) /\ Values(more) = Append(values, field.value)
    BY <1>1, ValuesAre
  <1>3. both \in Seq(Nat) /\ Len(both) = at + Len(part)
    <2> HIDE DEF part
    <2> QED
      BY <1>1, JoinedPlaces DEF AreJoined
  <1>4. more \in Seq(Fields)
    BY <1>1
  <1> HIDE DEF part, both, more, values
  <1>5. ASSUME NEW tail \in Seq(Nat)
        PROVE  ReadFields(Joined(both, tail), more) = Reads(Len(both), Values(more))
    <2> DEFINE rest == Joined(part, tail)
               all == Joined(both, tail)
               acc == Reads(at, values)
    <2>1. rest \in Seq(Nat) /\ Joined(data, rest) = all /\ all \in Seq(Nat)
      BY <1>1, <1>3, JoinedLists DEF both
    <2>2. ReadFields(Joined(data, rest), fields) = acc
      <3> HIDE DEF rest
      <3> QED
        BY <2>1 DEF ReadsAs, values
    <2> HIDE DEF all
    <2>3. ReadFields(all, more) = ReadField(all, acc, field)
      BY <1>1, <2>1, <2>2, OneMoreFieldRead DEF more
    <2>4. Holds(all, at, part)
      <3>1. Holds(all, 0, Joined(data, rest))
        BY <2>1 DEF Holds
      <3>2. Holds(all, 0 + at, rest)
        <4> HIDE DEF rest
        <4> QED
          BY <1>1, <2>1, <3>1, HoldsBoth
      <3>3. 0 + at = at
        BY <1>1
      <3> HIDE DEF at
      <3>4. Holds(all, at, Joined(part, tail))
        BY <3>2, <3>3 DEF rest
      <3> QED
        BY <1>1, <2>1, <3>4, HoldsBoth
    <2>5. acc \in Reading /\ acc.at = at /\ acc.values = values
      BY <1>1, <1>2 DEF Reading, Reads
    <2> HIDE DEF acc, at
    <2>6. ReadField(all, acc, field) = Reads(acc.at + Len(part), Append(acc.values, field.value))
      BY <2>1, <2>4, <2>5, FieldReadBack DEF part
    <2> QED
      BY <1>2, <1>3, <2>3, <2>5, <2>6 DEF all
  <1>6. ReadsAs(both, more)
    BY <1>3, <1>4, <1>5 DEF ReadsAs
  <1> QED
    BY <1>6 DEF both, more, part

-----------------------------------------------------------------------------
(* What the builders write.                                                   *)

LEMMA UintIsField ==
    ASSUME NEW width \in Nat, NEW value, FitsIn(value, width)
    PROVE  IsField(Uint(width, value)) /\ Written(Uint(width, value)) = WriteUint(value, width)
  <1>1. value \in Nat
    BY DEF FitsIn
  <1>2. <<value>> \in Seq(Nat) /\ Len(<<value>>) = 1 /\ <<value>>[1] = value
    BY <1>1
  <1>3. Uint(width, value) \in Fields
    BY <1>2 DEF Uint, Fields
  <1> QED
    BY <1>2, <1>3 DEF Uint, IsField, Written

LEMMA KeyIsField ==
    ASSUME NEW key \in PublicKeys
    PROVE  IsField(Key(key)) /\ Written(Key(key)) = key
  <1>1. key \in Seq(0..255) /\ Len(key) = KeyLength /\ KeyLength \in Nat
    BY KeysAreBytes, RangeAssumption
  <1>2. key \in Seq(Nat)
    <2>1. 0..255 \subseteq Nat
      OBVIOUS
    <2> QED
      BY <1>1, <2>1, WiderSeq
  <1>3. Key(key) \in Fields
    BY <1>1, <1>2 DEF Key, Fields
  <1> QED
    BY <1>1, <1>3 DEF Key, IsField, Written

LEMMA StringIsField ==
    ASSUME NEW s \in Seq(0..(ByteRange - 1)), FitsIn(Len(s), 4)
    PROVE  IsField(String(s)) /\ Written(String(s)) = WriteString(s)
  <1>1. s \in Seq(Nat)
    <2>1. 0..(ByteRange - 1) \subseteq Nat
      OBVIOUS
    <2> QED
      BY <2>1, WiderSeq
  <1>2. String(s) \in Fields
    BY <1>1 DEF String, Fields
  <1> QED
    BY <1>2 DEF String, IsField, Written

(* A key that is written behind is read, and so are a number and a string.    *)
LEMMA OneMoreIsWritten ==
    ASSUME NEW data, NEW fields, ReadsAs(data, fields)
    PROVE  /\ \A width \in Nat, value \in Nat :
                  FitsIn(value, width) =>
                      ReadsAs(Joined(data, WriteUint(value, width)), Append(fields, Uint(width, value)))
           /\ \A key \in PublicKeys : ReadsAs(Joined(data, key), Append(fields, Key(key)))
           /\ \A s \in Seq(0..(ByteRange - 1)) :
                  FitsIn(Len(s), 4) =>
                      ReadsAs(Joined(data, WriteString(s)), Append(fields, String(s)))
  <1>1. ASSUME NEW width \in Nat, NEW value \in Nat, FitsIn(value, width)
        PROVE  ReadsAs(Joined(data, WriteUint(value, width)), Append(fields, Uint(width, value)))
    <2> DEFINE f == Uint(width, value)
    <2>1. IsField(f) /\ Written(f) = WriteUint(value, width)
      BY <1>1, UintIsField
    <2> HIDE DEF f
    <2>2. ReadsAs(Joined(data, Written(f)), Append(fields, f))
      BY <2>1, OneMoreReads
    <2> QED
      BY <2>1, <2>2 DEF f
  <1>2. ASSUME NEW key \in PublicKeys
        PROVE  ReadsAs(Joined(data, key), Append(fields, Key(key)))
    <2> DEFINE f == Key(key)
    <2>1. IsField(f) /\ Written(f) = key
      BY KeyIsField
    <2> HIDE DEF f
    <2>2. ReadsAs(Joined(data, Written(f)), Append(fields, f))
      BY <2>1, OneMoreReads
    <2> QED
      BY <2>1, <2>2 DEF f
  <1>3. ASSUME NEW s \in Seq(0..(ByteRange - 1)), FitsIn(Len(s), 4)
        PROVE  ReadsAs(Joined(data, WriteString(s)), Append(fields, String(s)))
    <2> DEFINE f == String(s)
    <2>1. IsField(f) /\ Written(f) = WriteString(s)
      BY <1>3, StringIsField
    <2> HIDE DEF f
    <2>2. ReadsAs(Joined(data, Written(f)), Append(fields, f))
      BY <2>1, OneMoreReads
    <2> QED
      BY <2>1, <2>2 DEF f
  <1> QED
    BY <1>1, <1>2, <1>3

(* The tag of an instruction is read.                                         *)
LEMMA TagReads ==
    ASSUME NEW tag \in 0..12, NEW width \in {1, 4}
    PROVE  ReadsAs(WriteUint(tag, width), <<Uint(width, tag)>>)
  <1> DEFINE none == <<>>
             f == Uint(width, tag)
  <1>1. width \in Nat /\ FitsIn(tag, width)
    BY TagsFit
  <1>2. IsField(f) /\ Written(f) = WriteUint(tag, width)
    BY <1>1, UintIsField
  <1>3. ReadsAs(none, none)
    BY NothingReads
  <1> HIDE DEF f
  <1>4. Append(none, f) = <<f>>
    OBVIOUS
  <1>5. Written(f) \in Seq(Nat)
    BY <1>2, WrittenIsBytes
  <1>6. Joined(none, Written(f)) = Written(f)
    BY <1>5, JoinedLists
  <1> HIDE DEF none
  <1>7. ReadsAs(Joined(none, Written(f)), Append(none, f))
    BY <1>2, <1>3, OneMoreReads
  <1>8. ReadsAs(Written(f), <<f>>)
    BY <1>4, <1>6, <1>7
  <1> QED
    BY <1>2, <1>8 DEF f

-----------------------------------------------------------------------------
(* What the builders return.                                                 *)

AccountMetas == [key : PublicKeys, isSigner : BOOLEAN, isWritable : BOOLEAN]

(* The program on the chain reads these fields in the instruction.            *)
IsRead(instruction, fields) ==
    /\ instruction # Thrown
    /\ ReadFields(instruction.data, fields) =
           [at |-> Len(instruction.data), values |-> [i \in DOMAIN fields |-> fields[i].value]]

(* Lists that are written out.                                                *)
LEMMA ListsOf ==
    ASSUME NEW K
    PROVE  /\ \A a \in K : <<a>> \in Seq(K)
           /\ \A a, b \in K : <<a, b>> \in Seq(K)
           /\ \A a, b, c \in K : <<a, b, c>> \in Seq(K)
           /\ \A a, b, c, d \in K : <<a, b, c, d>> \in Seq(K)
           /\ \A a, b, c, d, e, f, g \in K : <<a, b, c, d, e, f, g>> \in Seq(K)
  OBVIOUS

(* One element behind the others of a list.                                   *)
LEMMA OneBehind ==
    ASSUME NEW K, NEW s \in Seq(K), NEW e \in K, NEW t \in Seq(K), Len(t) = Len(s) + 1,
           \A i \in 1..Len(s) : t[i] = s[i], t[Len(s) + 1] = e
    PROVE  Append(s, e) = t
  <1> DEFINE n == Len(s)
             more == Append(s, e)
  <1>1. /\ n \in Nat /\ more \in Seq(K) /\ Len(more) = n + 1 /\ more[n + 1] = e
        /\ \A i \in 1..n : more[i] = s[i]
    OBVIOUS
  <1> HIDE DEF n, more
  <1>2. \A i \in 1..(n + 1) : i = n + 1 \/ i \in 1..n
    BY <1>1
  <1>3. \A i \in 1..(n + 1) : more[i] = t[i]
    BY <1>1, <1>2 DEF n
  <1>4. Len(t) = n + 1
    BY DEF n
  <1>5. more = t
    BY <1>1, <1>3, <1>4, SeqEqual
  <1> QED
    BY <1>5 DEF more

LEMMA TwoInARow ==
    ASSUME NEW K, NEW a \in K, NEW b \in K
    PROVE  Append(<<a>>, b) = <<a, b>>
  <1> DEFINE front == <<a>>
             all == <<a, b>>
  <1>1. front \in Seq(K) /\ all \in Seq(K) /\ Len(front) = 1 /\ Len(all) = 2
    OBVIOUS
  <1>2. all[1] = front[1] /\ all[2] = b
    OBVIOUS
  <1>3. \A i \in 1..1 : i = 1
    OBVIOUS
  <1> HIDE DEF front, all
  <1>4. \A i \in 1..1 : all[i] = front[i]
    BY <1>2, <1>3
  <1>5. Append(front, b) = all
    <2>1. Len(all) = Len(front) + 1 /\ all[Len(front) + 1] = b
      BY <1>1, <1>2
    <2>2. \A i \in 1..Len(front) : all[i] = front[i]
      BY <1>1, <1>4
    <2> QED
      BY <1>1, <2>1, <2>2, OneBehind
  <1> QED
    BY <1>5 DEF front, all

LEMMA ThreeInARow ==
    ASSUME NEW K, NEW a \in K, NEW b \in K, NEW c \in K
    PROVE  Append(<<a, b>>, c) = <<a, b, c>>
  <1> DEFINE front == <<a, b>>
             all == <<a, b, c>>
  <1>1. front \in Seq(K) /\ all \in Seq(K) /\ Len(front) = 2 /\ Len(all) = 3
    OBVIOUS
  <1>2. all[1] = front[1] /\ all[2] = front[2] /\ all[3] = c
    OBVIOUS
  <1>3. \A i \in 1..2 : i = 1 \/ i = 2
    OBVIOUS
  <1> HIDE DEF front, all
  <1>4. \A i \in 1..2 : all[i] = front[i]
    BY <1>2, <1>3
  <1>5. Append(front, c) = all
    <2>1. Len(all) = Len(front) + 1 /\ all[Len(front) + 1] = c
      BY <1>1, <1>2
    <2>2. \A i \in 1..Len(front) : all[i] = front[i]
      BY <1>1, <1>4
    <2> QED
      BY <1>1, <2>1, <2>2, OneBehind
  <1> QED
    BY <1>5 DEF front, all

LEMMA FourInARow ==
    ASSUME NEW K, NEW a \in K, NEW b \in K, NEW c \in K, NEW d \in K
    PROVE  Append(<<a, b, c>>, d) = <<a, b, c, d>>
  <1> DEFINE front == <<a, b, c>>
             all == <<a, b, c, d>>
  <1>1. front \in Seq(K) /\ all \in Seq(K) /\ Len(front) = 3 /\ Len(all) = 4
    OBVIOUS
  <1>2. all[1] = front[1] /\ all[2] = front[2] /\ all[3] = front[3] /\ all[4] = d
    OBVIOUS
  <1>3. \A i \in 1..3 : i = 1 \/ i = 2 \/ i = 3
    OBVIOUS
  <1> HIDE DEF front, all
  <1>4. \A i \in 1..3 : all[i] = front[i]
    BY <1>2, <1>3
  <1>5. Append(front, d) = all
    <2>1. Len(all) = Len(front) + 1 /\ all[Len(front) + 1] = d
      BY <1>1, <1>2
    <2>2. \A i \in 1..Len(front) : all[i] = front[i]
      BY <1>1, <1>4
    <2> QED
      BY <1>1, <2>1, <2>2, OneBehind
  <1> QED
    BY <1>5 DEF front, all

LEMMA FiveInARow ==
    ASSUME NEW K, NEW a \in K, NEW b \in K, NEW c \in K, NEW d \in K, NEW e \in K
    PROVE  Append(<<a, b, c, d>>, e) = <<a, b, c, d, e>>
  <1> DEFINE front == <<a, b, c, d>>
             all == <<a, b, c, d, e>>
  <1>1. front \in Seq(K) /\ all \in Seq(K) /\ Len(front) = 4 /\ Len(all) = 5
    OBVIOUS
  <1>2. all[1] = front[1] /\ all[2] = front[2] /\ all[3] = front[3] /\ all[4] = front[4] /\ all[5] = e
    OBVIOUS
  <1>3. \A i \in 1..4 : i = 1 \/ i = 2 \/ i = 3 \/ i = 4
    OBVIOUS
  <1> HIDE DEF front, all
  <1>4. \A i \in 1..4 : all[i] = front[i]
    BY <1>2, <1>3
  <1>5. Append(front, e) = all
    <2>1. Len(all) = Len(front) + 1 /\ all[Len(front) + 1] = e
      BY <1>1, <1>2
    <2>2. \A i \in 1..Len(front) : all[i] = front[i]
      BY <1>1, <1>4
    <2> QED
      BY <1>1, <2>1, <2>2, OneBehind
  <1> QED
    BY <1>5 DEF front, all

LEMMA SixInARow ==
    ASSUME NEW K, NEW a \in K, NEW b \in K, NEW c \in K, NEW d \in K, NEW e \in K, NEW f \in K
    PROVE  Append(<<a, b, c, d, e>>, f) = <<a, b, c, d, e, f>>
  <1> DEFINE front == <<a, b, c, d, e>>
             all == <<a, b, c, d, e, f>>
  <1>1. front \in Seq(K) /\ all \in Seq(K) /\ Len(front) = 5 /\ Len(all) = 6
    OBVIOUS
  <1>2. all[1] = front[1] /\ all[2] = front[2] /\ all[3] = front[3] /\ all[4] = front[4] /\ all[5] = front[5] /\ all[6] = f
    OBVIOUS
  <1>3. \A i \in 1..5 : i = 1 \/ i = 2 \/ i = 3 \/ i = 4 \/ i = 5
    OBVIOUS
  <1> HIDE DEF front, all
  <1>4. \A i \in 1..5 : all[i] = front[i]
    BY <1>2, <1>3
  <1>5. Append(front, f) = all
    <2>1. Len(all) = Len(front) + 1 /\ all[Len(front) + 1] = f
      BY <1>1, <1>2
    <2>2. \A i \in 1..Len(front) : all[i] = front[i]
      BY <1>1, <1>4
    <2> QED
      BY <1>1, <2>1, <2>2, OneBehind
  <1> QED
    BY <1>5 DEF front, all

LEMMA BuiltIsRead ==
    ASSUME NEW program \in {"system", "token", "associated", "budget", "rent"},
           NEW accounts \in Seq(AccountMetas), NEW data, NEW fields, ReadsAs(data, fields)
    PROVE  IsRead(Build(program, accounts, data), fields)
  <1> DEFINE made == [how |-> "built", programId |-> KnownKey(program), accounts |-> accounts,
                       data |-> data]
  <1>1. KnownKey(program) # NoKey
    BY KnownKeys, KeysAreBytes
  <1>2. \A i \in DOMAIN accounts : accounts[i].key # NoKey
    <2>1. \A i \in DOMAIN accounts : accounts[i] \in AccountMetas
      OBVIOUS
    <2>2. \A account \in AccountMetas : account.key # NoKey
      <3>1. \A account \in AccountMetas : account.key \in PublicKeys
        BY DEF AccountMetas
      <3> QED
        BY <3>1, KeysAreBytes, Zenon
    <2> QED
      BY <2>1, <2>2
  <1>3. Build(program, accounts, data) = made
    BY <1>1, <1>2 DEF Build
  <1>4. made # Thrown
    <2>1. made.how # Thrown.how
      BY DEF Thrown
    <2> QED
      BY <2>1
  <1>5. made.data = data
    OBVIOUS
  <1>6. ReadFields(data, fields) = Reads(Len(data), Values(fields))
    <2>1. data \in Seq(Nat) /\ <<>> \in Seq(Nat)
      BY DEF ReadsAs
    <2>2. Joined(data, <<>>) = data
      BY <2>1, JoinedLists
    <2> QED
      BY <2>1, <2>2 DEF ReadsAs
  <1> HIDE DEF made
  <1> QED
    BY <1>3, <1>4, <1>5, <1>6 DEF IsRead, Reads, Values

(* No instruction is returned if a key is missing.                            *)
LEMMA NotBuilt ==
    ASSUME NEW program, NEW accounts, NEW data,
           NEW i \in DOMAIN accounts, accounts[i].key = NoKey
    PROVE  Build(program, accounts, data) = Thrown
  BY DEF Build

LEMMA MetasAre ==
    ASSUME NEW key \in PublicKeys
    PROVE  /\ \A isSigner, isWritable \in BOOLEAN : Meta(key, isSigner, isWritable) \in AccountMetas
           /\ Nonce(key) \in AccountMetas /\ Authority(key) \in AccountMetas
  BY DEF Meta, AccountMetas, Nonce, Authority

LEMMA SysvarsAre ==
    /\ Sysvar("system") \in AccountMetas /\ Sysvar("token") \in AccountMetas
    /\ Sysvar("rent") \in AccountMetas /\ Sysvar("recent").key = NoKey
  <1>1. /\ KnownKey("system") \in PublicKeys /\ KnownKey("token") \in PublicKeys
        /\ KnownKey("rent") \in PublicKeys
    BY KnownKeys
  <1> QED
    BY <1>1, RecentIsNoKey DEF Sysvar, Meta, AccountMetas

(* The fields are those that can be written.                                  *)
LEMMA FieldsAre ==
    /\ \A width \in Nat : \A value : FitsIn(value, width) => Uint(width, value) \in Fields
    /\ \A key \in PublicKeys : Key(key) \in Fields
    /\ \A s \in Seq(0..(ByteRange - 1)) : FitsIn(Len(s), 4) => String(s) \in Fields
  <1>1. \A width \in Nat : \A value : FitsIn(value, width) => Uint(width, value) \in Fields
    <2> SUFFICES ASSUME NEW width \in Nat, NEW value, FitsIn(value, width)
                 PROVE  Uint(width, value) \in Fields
      OBVIOUS
    <2> QED
      BY UintIsField DEF IsField
  <1>2. \A key \in PublicKeys : Key(key) \in Fields
    BY KeyIsField DEF IsField
  <1>3. \A s \in Seq(0..(ByteRange - 1)) : FitsIn(Len(s), 4) => String(s) \in Fields
    BY StringIsField DEF IsField
  <1> QED
    BY <1>1, <1>2, <1>3

-----------------------------------------------------------------------------
(* The builders that return.                                                  *)

LEMMA TransferIsRead ==
    ASSUME NEW k, NEW n, NEW s, k[1] \in PublicKeys, k[2] \in PublicKeys, FitsIn(n[1], 8)
    PROVE  IsRead(Transfer(k, n, s), Layout("transfer", k, n, s))
  <1> DEFINE accounts == <<Meta(k[1], TRUE, TRUE), Meta(k[2], FALSE, TRUE)>>
             f1 == Uint(4, 2)
             f2 == Uint(8, n[1])
             data2 == Joined(WriteUint(2, 4), WriteUint(n[1], 8))
             fields == <<f1, f2>>
  <1>1. accounts \in Seq(AccountMetas)
    <2>1. /\ Meta(k[1], TRUE, TRUE) \in AccountMetas
          /\ Meta(k[2], FALSE, TRUE) \in AccountMetas
      BY MetasAre
    <2> QED
      BY <2>1, ListsOf, Zenon
  <1>2. f1 \in Fields /\ f2 \in Fields
    BY FieldsAre, TagsFit
  <1>3. ReadsAs(WriteUint(2, 4), <<f1>>)
    BY TagReads
  <1>4. ReadsAs(data2, <<f1, f2>>)
    <2>1. Append(<<f1>>, f2) = <<f1, f2>>
      <3> HIDE DEF f1, f2
      <3> QED
        BY <1>2, TwoInARow
    <2>2. ReadsAs(data2, Append(<<f1>>, f2))
      <3>1. n[1] \in Nat
        BY DEF FitsIn
      <3> HIDE DEF f1
      <3> QED
        BY <1>3, <3>1, OneMoreIsWritten
    <2> QED
      BY <2>1, <2>2
  <1>5. Transfer(k, n, s) = Build("system", accounts, data2)
    BY DEF Transfer, Joined, U32, U64
  <1>6. Layout("transfer", k, n, s) = fields
    BY DEF Layout
  <1> HIDE DEF accounts, f1, f2, data2
  <1> QED
    BY <1>1, <1>4, <1>5, <1>6, BuiltIsRead

LEMMA CreateAccountIsRead ==
    ASSUME NEW k, NEW n, NEW s, k[1] \in PublicKeys, k[2] \in PublicKeys,
           k[3] \in PublicKeys, FitsIn(n[1], 8), FitsIn(n[2], 8)
    PROVE  IsRead(CreateAccount(k, n, s), Layout("createAccount", k, n, s))
  <1> DEFINE accounts == <<Meta(k[1], TRUE, TRUE), Meta(k[2], TRUE, TRUE)>>
             f1 == Uint(4, 0)
             f2 == Uint(8, n[1])
             f3 == Uint(8, n[2])
             f4 == Key(k[3])
             data2 == Joined(WriteUint(0, 4), WriteUint(n[1], 8))
             data3 == Joined(data2, WriteUint(n[2], 8))
             data4 == Joined(data3, k[3])
             fields == <<f1, f2, f3, f4>>
  <1>1. accounts \in Seq(AccountMetas)
    <2>1. /\ Meta(k[1], TRUE, TRUE) \in AccountMetas
          /\ Meta(k[2], TRUE, TRUE) \in AccountMetas
      BY MetasAre
    <2> QED
      BY <2>1, ListsOf, Zenon
  <1>2. f1 \in Fields /\ f2 \in Fields /\ f3 \in Fields /\ f4 \in Fields
    BY FieldsAre, TagsFit
  <1>3. ReadsAs(WriteUint(0, 4), <<f1>>)
    BY TagReads
  <1>4. ReadsAs(data2, <<f1, f2>>)
    <2>1. Append(<<f1>>, f2) = <<f1, f2>>
      <3> HIDE DEF f1, f2
      <3> QED
        BY <1>2, TwoInARow
    <2>2. ReadsAs(data2, Append(<<f1>>, f2))
      <3>1. n[1] \in Nat
        BY DEF FitsIn
      <3> HIDE DEF f1
      <3> QED
        BY <1>3, <3>1, OneMoreIsWritten
    <2> QED
      BY <2>1, <2>2
  <1>5. ReadsAs(data3, <<f1, f2, f3>>)
    <2>1. Append(<<f1, f2>>, f3) = <<f1, f2, f3>>
      <3> HIDE DEF f1, f2, f3
      <3> QED
        BY <1>2, ThreeInARow
    <2>2. ReadsAs(data3, Append(<<f1, f2>>, f3))
      <3>1. n[2] \in Nat
        BY DEF FitsIn
      <3> HIDE DEF f1, f2, data2
      <3> QED
        BY <1>4, <3>1, OneMoreIsWritten
    <2> QED
      BY <2>1, <2>2
  <1>6. ReadsAs(data4, <<f1, f2, f3, f4>>)
    <2>1. Append(<<f1, f2, f3>>, f4) = <<f1, f2, f3, f4>>
      <3> HIDE DEF f1, f2, f3, f4
      <3> QED
        BY <1>2, FourInARow
    <2>2. ReadsAs(data4, Append(<<f1, f2, f3>>, f4))
      <3> HIDE DEF f1, f2, f3, data3
      <3> QED
        BY <1>5, OneMoreIsWritten
    <2> QED
      BY <2>1, <2>2
  <1>7. CreateAccount(k, n, s) = Build("system", accounts, data4)
    BY DEF CreateAccount, Joined, U32, U64
  <1>8. Layout("createAccount", k, n, s) = fields
    BY DEF Layout
  <1> HIDE DEF accounts, f1, f2, f3, f4, data2, data3, data4
  <1> QED
    BY <1>1, <1>6, <1>7, <1>8, BuiltIsRead

LEMMA AssignIsRead ==
    ASSUME NEW k, NEW n, NEW s, k[1] \in PublicKeys, k[2] \in PublicKeys
    PROVE  IsRead(Assign(k, n, s), Layout("assign", k, n, s))
  <1> DEFINE accounts == <<Meta(k[1], TRUE, TRUE)>>
             f1 == Uint(4, 1)
             f2 == Key(k[2])
             data2 == Joined(WriteUint(1, 4), k[2])
             fields == <<f1, f2>>
  <1>1. accounts \in Seq(AccountMetas)
    <2>1. Meta(k[1], TRUE, TRUE) \in AccountMetas
      BY MetasAre
    <2> QED
      BY <2>1, ListsOf, Zenon
  <1>2. f1 \in Fields /\ f2 \in Fields
    BY FieldsAre, TagsFit
  <1>3. ReadsAs(WriteUint(1, 4), <<f1>>)
    BY TagReads
  <1>4. ReadsAs(data2, <<f1, f2>>)
    <2>1. Append(<<f1>>, f2) = <<f1, f2>>
      <3> HIDE DEF f1, f2
      <3> QED
        BY <1>2, TwoInARow
    <2>2. ReadsAs(data2, Append(<<f1>>, f2))
      <3> HIDE DEF f1
      <3> QED
        BY <1>3, OneMoreIsWritten
    <2> QED
      BY <2>1, <2>2
  <1>5. Assign(k, n, s) = Build("system", accounts, data2)
    BY DEF Assign, Joined, U32
  <1>6. Layout("assign", k, n, s) = fields
    BY DEF Layout
  <1> HIDE DEF accounts, f1, f2, data2
  <1> QED
    BY <1>1, <1>4, <1>5, <1>6, BuiltIsRead

LEMMA AllocateIsRead ==
    ASSUME NEW k, NEW n, NEW s, k[1] \in PublicKeys, FitsIn(n[1], 8)
    PROVE  IsRead(Allocate(k, n, s), Layout("allocate", k, n, s))
  <1> DEFINE accounts == <<Meta(k[1], TRUE, TRUE)>>
             f1 == Uint(4, 8)
             f2 == Uint(8, n[1])
             data2 == Joined(WriteUint(8, 4), WriteUint(n[1], 8))
             fields == <<f1, f2>>
  <1>1. accounts \in Seq(AccountMetas)
    <2>1. Meta(k[1], TRUE, TRUE) \in AccountMetas
      BY MetasAre
    <2> QED
      BY <2>1, ListsOf, Zenon
  <1>2. f1 \in Fields /\ f2 \in Fields
    BY FieldsAre, TagsFit
  <1>3. ReadsAs(WriteUint(8, 4), <<f1>>)
    BY TagReads
  <1>4. ReadsAs(data2, <<f1, f2>>)
    <2>1. Append(<<f1>>, f2) = <<f1, f2>>
      <3> HIDE DEF f1, f2
      <3> QED
        BY <1>2, TwoInARow
    <2>2. ReadsAs(data2, Append(<<f1>>, f2))
      <3>1. n[1] \in Nat
        BY DEF FitsIn
      <3> HIDE DEF f1
      <3> QED
        BY <1>3, <3>1, OneMoreIsWritten
    <2> QED
      BY <2>1, <2>2
  <1>5. Allocate(k, n, s) = Build("system", accounts, data2)
    BY DEF Allocate, Joined, U32, U64
  <1>6. Layout("allocate", k, n, s) = fields
    BY DEF Layout
  <1> HIDE DEF accounts, f1, f2, data2
  <1> QED
    BY <1>1, <1>4, <1>5, <1>6, BuiltIsRead

LEMMA CreateAccountWithSeedIsRead ==
    ASSUME NEW k, NEW n, NEW s, k[1] \in PublicKeys, k[2] \in PublicKeys,
           k[3] \in PublicKeys, k[4] \in PublicKeys, FitsIn(n[1], 8), FitsIn(n[2], 8),
           s \in Seq(0..(ByteRange - 1)), FitsIn(Len(s), 4)
    PROVE  IsRead(CreateAccountWithSeed(k, n, s), Layout("createAccountWithSeed", k, n, s))
  <1> DEFINE accounts == <<Meta(k[1], TRUE, TRUE), Meta(k[2], FALSE, TRUE)>>
             f1 == Uint(4, 3)
             f2 == Key(k[3])
             f3 == String(s)
             f4 == Uint(8, n[1])
             f5 == Uint(8, n[2])
             f6 == Key(k[4])
             data2 == Joined(WriteUint(3, 4), k[3])
             data3 == Joined(data2, WriteString(s))
             data4 == Joined(data3, WriteUint(n[1], 8))
             data5 == Joined(data4, WriteUint(n[2], 8))
             data6 == Joined(data5, k[4])
             fields == <<f1, f2, f3, f4, f5, f6>>
  <1>1. accounts \in Seq(AccountMetas)
    <2>1. /\ Meta(k[1], TRUE, TRUE) \in AccountMetas
          /\ Meta(k[2], FALSE, TRUE) \in AccountMetas
      BY MetasAre
    <2> QED
      BY <2>1, ListsOf, Zenon
  <1>2. f1 \in Fields /\ f2 \in Fields /\ f3 \in Fields /\ f4 \in Fields /\ f5 \in Fields /\ f6 \in Fields
    BY FieldsAre, TagsFit
  <1>3. ReadsAs(WriteUint(3, 4), <<f1>>)
    BY TagReads
  <1>4. ReadsAs(data2, <<f1, f2>>)
    <2>1. Append(<<f1>>, f2) = <<f1, f2>>
      <3> HIDE DEF f1, f2
      <3> QED
        BY <1>2, TwoInARow
    <2>2. ReadsAs(data2, Append(<<f1>>, f2))
      <3> HIDE DEF f1
      <3> QED
        BY <1>3, OneMoreIsWritten
    <2> QED
      BY <2>1, <2>2
  <1>5. ReadsAs(data3, <<f1, f2, f3>>)
    <2>1. Append(<<f1, f2>>, f3) = <<f1, f2, f3>>
      <3> HIDE DEF f1, f2, f3
      <3> QED
        BY <1>2, ThreeInARow
    <2>2. ReadsAs(data3, Append(<<f1, f2>>, f3))
      <3> HIDE DEF f1, f2, data2
      <3> QED
        BY <1>4, OneMoreIsWritten
    <2> QED
      BY <2>1, <2>2
  <1>6. ReadsAs(data4, <<f1, f2, f3, f4>>)
    <2>1. Append(<<f1, f2, f3>>, f4) = <<f1, f2, f3, f4>>
      <3> HIDE DEF f1, f2, f3, f4
      <3> QED
        BY <1>2, FourInARow
    <2>2. ReadsAs(data4, Append(<<f1, f2, f3>>, f4))
      <3>1. n[1] \in Nat
        BY DEF FitsIn
      <3> HIDE DEF f1, f2, f3, data3
      <3> QED
        BY <1>5, <3>1, OneMoreIsWritten
    <2> QED
      BY <2>1, <2>2
  <1>7. ReadsAs(data5, <<f1, f2, f3, f4, f5>>)
    <2>1. Append(<<f1, f2, f3, f4>>, f5) = <<f1, f2, f3, f4, f5>>
      <3> HIDE DEF f1, f2, f3, f4, f5
      <3> QED
        BY <1>2, FiveInARow
    <2>2. ReadsAs(data5, Append(<<f1, f2, f3, f4>>, f5))
      <3>1. n[2] \in Nat
        BY DEF FitsIn
      <3> HIDE DEF f1, f2, f3, f4, data4
      <3> QED
        BY <1>6, <3>1, OneMoreIsWritten
    <2> QED
      BY <2>1, <2>2
  <1>8. ReadsAs(data6, <<f1, f2, f3, f4, f5, f6>>)
    <2>1. Append(<<f1, f2, f3, f4, f5>>, f6) = <<f1, f2, f3, f4, f5, f6>>
      <3> HIDE DEF f1, f2, f3, f4, f5, f6
      <3> QED
        BY <1>2, SixInARow
    <2>2. ReadsAs(data6, Append(<<f1, f2, f3, f4, f5>>, f6))
      <3> HIDE DEF f1, f2, f3, f4, f5, data5
      <3> QED
        BY <1>7, OneMoreIsWritten
    <2> QED
      BY <2>1, <2>2
  <1>9. CreateAccountWithSeed(k, n, s) = Build("system", accounts, data6)
    BY DEF CreateAccountWithSeed, Joined, U32, U64
  <1>10. Layout("createAccountWithSeed", k, n, s) = fields
    BY DEF Layout
  <1> HIDE DEF accounts, f1, f2, f3, f4, f5, f6, data2, data3, data4, data5, data6
  <1> QED
    BY <1>1, <1>8, <1>9, <1>10, BuiltIsRead

LEMMA TransferWithSeedIsRead ==
    ASSUME NEW k, NEW n, NEW s, k[1] \in PublicKeys, k[2] \in PublicKeys,
           k[3] \in PublicKeys, k[4] \in PublicKeys, FitsIn(n[1], 8),
           s \in Seq(0..(ByteRange - 1)), FitsIn(Len(s), 4)
    PROVE  IsRead(TransferWithSeed(k, n, s), Layout("transferWithSeed", k, n, s))
  <1> DEFINE accounts == <<Meta(k[1], FALSE, TRUE), Meta(k[2], TRUE, FALSE),
                           Meta(k[4], FALSE, TRUE)>>
             f1 == Uint(4, 11)
             f2 == Uint(8, n[1])
             f3 == String(s)
             f4 == Key(k[3])
             data2 == Joined(WriteUint(11, 4), WriteUint(n[1], 8))
             data3 == Joined(data2, WriteString(s))
             data4 == Joined(data3, k[3])
             fields == <<f1, f2, f3, f4>>
  <1>1. accounts \in Seq(AccountMetas)
    <2>1. /\ Meta(k[1], FALSE, TRUE) \in AccountMetas
          /\ Meta(k[2], TRUE, FALSE) \in AccountMetas
          /\ Meta(k[4], FALSE, TRUE) \in AccountMetas
      BY MetasAre
    <2> QED
      BY <2>1, ListsOf, Zenon
  <1>2. f1 \in Fields /\ f2 \in Fields /\ f3 \in Fields /\ f4 \in Fields
    BY FieldsAre, TagsFit
  <1>3. ReadsAs(WriteUint(11, 4), <<f1>>)
    BY TagReads
  <1>4. ReadsAs(data2, <<f1, f2>>)
    <2>1. Append(<<f1>>, f2) = <<f1, f2>>
      <3> HIDE DEF f1, f2
      <3> QED
        BY <1>2, TwoInARow
    <2>2. ReadsAs(data2, Append(<<f1>>, f2))
      <3>1. n[1] \in Nat
        BY DEF FitsIn
      <3> HIDE DEF f1
      <3> QED
        BY <1>3, <3>1, OneMoreIsWritten
    <2> QED
      BY <2>1, <2>2
  <1>5. ReadsAs(data3, <<f1, f2, f3>>)
    <2>1. Append(<<f1, f2>>, f3) = <<f1, f2, f3>>
      <3> HIDE DEF f1, f2, f3
      <3> QED
        BY <1>2, ThreeInARow
    <2>2. ReadsAs(data3, Append(<<f1, f2>>, f3))
      <3> HIDE DEF f1, f2, data2
      <3> QED
        BY <1>4, OneMoreIsWritten
    <2> QED
      BY <2>1, <2>2
  <1>6. ReadsAs(data4, <<f1, f2, f3, f4>>)
    <2>1. Append(<<f1, f2, f3>>, f4) = <<f1, f2, f3, f4>>
      <3> HIDE DEF f1, f2, f3, f4
      <3> QED
        BY <1>2, FourInARow
    <2>2. ReadsAs(data4, Append(<<f1, f2, f3>>, f4))
      <3> HIDE DEF f1, f2, f3, data3
      <3> QED
        BY <1>5, OneMoreIsWritten
    <2> QED
      BY <2>1, <2>2
  <1>7. TransferWithSeed(k, n, s) = Build("system", accounts, data4)
    BY DEF TransferWithSeed, Joined, U32, U64
  <1>8. Layout("transferWithSeed", k, n, s) = fields
    BY DEF Layout
  <1> HIDE DEF accounts, f1, f2, f3, f4, data2, data3, data4
  <1> QED
    BY <1>1, <1>6, <1>7, <1>8, BuiltIsRead

LEMMA AuthorizeNonceAccountIsRead ==
    ASSUME NEW k, NEW n, NEW s, k[1] \in PublicKeys, k[2] \in PublicKeys,
           k[3] \in PublicKeys
    PROVE  IsRead(AuthorizeNonceAccount(k, n, s), Layout("authorizeNonceAccount", k, n, s))
  <1> DEFINE accounts == <<Nonce(k[1]), Authority(k[2])>>
             f1 == Uint(4, 7)
             f2 == Key(k[3])
             data2 == Joined(WriteUint(7, 4), k[3])
             fields == <<f1, f2>>
  <1>1. accounts \in Seq(AccountMetas)
    <2>1. /\ Nonce(k[1]) \in AccountMetas
          /\ Authority(k[2]) \in AccountMetas
      BY MetasAre
    <2> QED
      BY <2>1, ListsOf, Zenon
  <1>2. f1 \in Fields /\ f2 \in Fields
    BY FieldsAre, TagsFit
  <1>3. ReadsAs(WriteUint(7, 4), <<f1>>)
    BY TagReads
  <1>4. ReadsAs(data2, <<f1, f2>>)
    <2>1. Append(<<f1>>, f2) = <<f1, f2>>
      <3> HIDE DEF f1, f2
      <3> QED
        BY <1>2, TwoInARow
    <2>2. ReadsAs(data2, Append(<<f1>>, f2))
      <3> HIDE DEF f1
      <3> QED
        BY <1>3, OneMoreIsWritten
    <2> QED
      BY <2>1, <2>2
  <1>5. AuthorizeNonceAccount(k, n, s) = Build("system", accounts, data2)
    BY DEF AuthorizeNonceAccount, Joined, U32
  <1>6. Layout("authorizeNonceAccount", k, n, s) = fields
    BY DEF Layout
  <1> HIDE DEF accounts, f1, f2, data2
  <1> QED
    BY <1>1, <1>4, <1>5, <1>6, BuiltIsRead

LEMMA SetComputeUnitLimitIsRead ==
    ASSUME NEW k, NEW n, NEW s, FitsIn(n[1], 4)
    PROVE  IsRead(SetComputeUnitLimit(k, n, s), Layout("setComputeUnitLimit", k, n, s))
  <1> DEFINE accounts == <<>>
             f1 == Uint(1, 2)
             f2 == Uint(4, n[1])
             data2 == Joined(WriteUint(2, 1), WriteUint(n[1], 4))
             fields == <<f1, f2>>
  <1>1. accounts \in Seq(AccountMetas)
    OBVIOUS
  <1>2. f1 \in Fields /\ f2 \in Fields
    BY FieldsAre, TagsFit
  <1>3. ReadsAs(WriteUint(2, 1), <<f1>>)
    BY TagReads
  <1>4. ReadsAs(data2, <<f1, f2>>)
    <2>1. Append(<<f1>>, f2) = <<f1, f2>>
      <3> HIDE DEF f1, f2
      <3> QED
        BY <1>2, TwoInARow
    <2>2. ReadsAs(data2, Append(<<f1>>, f2))
      <3>1. n[1] \in Nat
        BY DEF FitsIn
      <3> HIDE DEF f1
      <3> QED
        BY <1>3, <3>1, OneMoreIsWritten
    <2> QED
      BY <2>1, <2>2
  <1>5. SetComputeUnitLimit(k, n, s) = Build("budget", accounts, data2)
    BY DEF SetComputeUnitLimit, Joined, U8, U32
  <1>6. Layout("setComputeUnitLimit", k, n, s) = fields
    BY DEF Layout
  <1> HIDE DEF accounts, f1, f2, data2
  <1> QED
    BY <1>1, <1>4, <1>5, <1>6, BuiltIsRead

LEMMA SetComputeUnitPriceIsRead ==
    ASSUME NEW k, NEW n, NEW s, FitsIn(n[1], 8)
    PROVE  IsRead(SetComputeUnitPrice(k, n, s), Layout("setComputeUnitPrice", k, n, s))
  <1> DEFINE accounts == <<>>
             f1 == Uint(1, 3)
             f2 == Uint(8, n[1])
             data2 == Joined(WriteUint(3, 1), WriteUint(n[1], 8))
             fields == <<f1, f2>>
  <1>1. accounts \in Seq(AccountMetas)
    OBVIOUS
  <1>2. f1 \in Fields /\ f2 \in Fields
    BY FieldsAre, TagsFit
  <1>3. ReadsAs(WriteUint(3, 1), <<f1>>)
    BY TagReads
  <1>4. ReadsAs(data2, <<f1, f2>>)
    <2>1. Append(<<f1>>, f2) = <<f1, f2>>
      <3> HIDE DEF f1, f2
      <3> QED
        BY <1>2, TwoInARow
    <2>2. ReadsAs(data2, Append(<<f1>>, f2))
      <3>1. n[1] \in Nat
        BY DEF FitsIn
      <3> HIDE DEF f1
      <3> QED
        BY <1>3, <3>1, OneMoreIsWritten
    <2> QED
      BY <2>1, <2>2
  <1>5. SetComputeUnitPrice(k, n, s) = Build("budget", accounts, data2)
    BY DEF SetComputeUnitPrice, Joined, U8, U64
  <1>6. Layout("setComputeUnitPrice", k, n, s) = fields
    BY DEF Layout
  <1> HIDE DEF accounts, f1, f2, data2
  <1> QED
    BY <1>1, <1>4, <1>5, <1>6, BuiltIsRead

LEMMA TokenTransferIsRead ==
    ASSUME NEW k, NEW n, NEW s, k[1] \in PublicKeys, k[2] \in PublicKeys,
           k[3] \in PublicKeys, FitsIn(n[1], 8)
    PROVE  IsRead(TokenTransfer(k, n, s), Layout("tokenTransfer", k, n, s))
  <1> DEFINE accounts == <<Meta(k[1], FALSE, TRUE), Meta(k[2], FALSE, TRUE), Authority(k[3])>>
             f1 == Uint(1, 3)
             f2 == Uint(8, n[1])
             data2 == Joined(WriteUint(3, 1), WriteUint(n[1], 8))
             fields == <<f1, f2>>
  <1>1. accounts \in Seq(AccountMetas)
    <2>1. /\ Meta(k[1], FALSE, TRUE) \in AccountMetas
          /\ Meta(k[2], FALSE, TRUE) \in AccountMetas
          /\ Authority(k[3]) \in AccountMetas
      BY MetasAre
    <2> QED
      BY <2>1, ListsOf, Zenon
  <1>2. f1 \in Fields /\ f2 \in Fields
    BY FieldsAre, TagsFit
  <1>3. ReadsAs(WriteUint(3, 1), <<f1>>)
    BY TagReads
  <1>4. ReadsAs(data2, <<f1, f2>>)
    <2>1. Append(<<f1>>, f2) = <<f1, f2>>
      <3> HIDE DEF f1, f2
      <3> QED
        BY <1>2, TwoInARow
    <2>2. ReadsAs(data2, Append(<<f1>>, f2))
      <3>1. n[1] \in Nat
        BY DEF FitsIn
      <3> HIDE DEF f1
      <3> QED
        BY <1>3, <3>1, OneMoreIsWritten
    <2> QED
      BY <2>1, <2>2
  <1>5. TokenTransfer(k, n, s) = Build("token", accounts, data2)
    BY DEF TokenTransfer, TokenInstruction, Joined, U8, U64
  <1>6. Layout("tokenTransfer", k, n, s) = fields
    BY DEF Layout
  <1> HIDE DEF accounts, f1, f2, data2
  <1> QED
    BY <1>1, <1>4, <1>5, <1>6, BuiltIsRead

LEMMA MintToIsRead ==
    ASSUME NEW k, NEW n, NEW s, k[1] \in PublicKeys, k[2] \in PublicKeys,
           k[3] \in PublicKeys, FitsIn(n[1], 8)
    PROVE  IsRead(MintTo(k, n, s), Layout("mintTo", k, n, s))
  <1> DEFINE accounts == <<Meta(k[1], FALSE, TRUE), Meta(k[2], FALSE, TRUE), Authority(k[3])>>
             f1 == Uint(1, 7)
             f2 == Uint(8, n[1])
             data2 == Joined(WriteUint(7, 1), WriteUint(n[1], 8))
             fields == <<f1, f2>>
  <1>1. accounts \in Seq(AccountMetas)
    <2>1. /\ Meta(k[1], FALSE, TRUE) \in AccountMetas
          /\ Meta(k[2], FALSE, TRUE) \in AccountMetas
          /\ Authority(k[3]) \in AccountMetas
      BY MetasAre
    <2> QED
      BY <2>1, ListsOf, Zenon
  <1>2. f1 \in Fields /\ f2 \in Fields
    BY FieldsAre, TagsFit
  <1>3. ReadsAs(WriteUint(7, 1), <<f1>>)
    BY TagReads
  <1>4. ReadsAs(data2, <<f1, f2>>)
    <2>1. Append(<<f1>>, f2) = <<f1, f2>>
      <3> HIDE DEF f1, f2
      <3> QED
        BY <1>2, TwoInARow
    <2>2. ReadsAs(data2, Append(<<f1>>, f2))
      <3>1. n[1] \in Nat
        BY DEF FitsIn
      <3> HIDE DEF f1
      <3> QED
        BY <1>3, <3>1, OneMoreIsWritten
    <2> QED
      BY <2>1, <2>2
  <1>5. MintTo(k, n, s) = Build("token", accounts, data2)
    BY DEF MintTo, TokenInstruction, Joined, U8, U64
  <1>6. Layout("mintTo", k, n, s) = fields
    BY DEF Layout
  <1> HIDE DEF accounts, f1, f2, data2
  <1> QED
    BY <1>1, <1>4, <1>5, <1>6, BuiltIsRead

LEMMA BurnIsRead ==
    ASSUME NEW k, NEW n, NEW s, k[1] \in PublicKeys, k[2] \in PublicKeys,
           k[3] \in PublicKeys, FitsIn(n[1], 8)
    PROVE  IsRead(Burn(k, n, s), Layout("burn", k, n, s))
  <1> DEFINE accounts == <<Meta(k[1], FALSE, TRUE), Meta(k[2], FALSE, TRUE), Authority(k[3])>>
             f1 == Uint(1, 8)
             f2 == Uint(8, n[1])
             data2 == Joined(WriteUint(8, 1), WriteUint(n[1], 8))
             fields == <<f1, f2>>
  <1>1. accounts \in Seq(AccountMetas)
    <2>1. /\ Meta(k[1], FALSE, TRUE) \in AccountMetas
          /\ Meta(k[2], FALSE, TRUE) \in AccountMetas
          /\ Authority(k[3]) \in AccountMetas
      BY MetasAre
    <2> QED
      BY <2>1, ListsOf, Zenon
  <1>2. f1 \in Fields /\ f2 \in Fields
    BY FieldsAre, TagsFit
  <1>3. ReadsAs(WriteUint(8, 1), <<f1>>)
    BY TagReads
  <1>4. ReadsAs(data2, <<f1, f2>>)
    <2>1. Append(<<f1>>, f2) = <<f1, f2>>
      <3> HIDE DEF f1, f2
      <3> QED
        BY <1>2, TwoInARow
    <2>2. ReadsAs(data2, Append(<<f1>>, f2))
      <3>1. n[1] \in Nat
        BY DEF FitsIn
      <3> HIDE DEF f1
      <3> QED
        BY <1>3, <3>1, OneMoreIsWritten
    <2> QED
      BY <2>1, <2>2
  <1>5. Burn(k, n, s) = Build("token", accounts, data2)
    BY DEF Burn, TokenInstruction, Joined, U8, U64
  <1>6. Layout("burn", k, n, s) = fields
    BY DEF Layout
  <1> HIDE DEF accounts, f1, f2, data2
  <1> QED
    BY <1>1, <1>4, <1>5, <1>6, BuiltIsRead

LEMMA TransferCheckedIsRead ==
    ASSUME NEW k, NEW n, NEW s, k[1] \in PublicKeys, k[2] \in PublicKeys,
           k[3] \in PublicKeys, k[4] \in PublicKeys, FitsIn(n[1], 8), FitsIn(n[2], 1)
    PROVE  IsRead(TransferChecked(k, n, s), Layout("transferChecked", k, n, s))
  <1> DEFINE accounts == <<Meta(k[1], FALSE, TRUE), Meta(k[2], FALSE, FALSE),
                           Meta(k[3], FALSE, TRUE), Authority(k[4])>>
             f1 == Uint(1, 12)
             f2 == Uint(8, n[1])
             f3 == Uint(1, n[2])
             data2 == Joined(WriteUint(12, 1), WriteUint(n[1], 8))
             data3 == Joined(data2, WriteUint(n[2], 1))
             fields == <<f1, f2, f3>>
  <1>1. accounts \in Seq(AccountMetas)
    <2>1. /\ Meta(k[1], FALSE, TRUE) \in AccountMetas
          /\ Meta(k[2], FALSE, FALSE) \in AccountMetas
          /\ Meta(k[3], FALSE, TRUE) \in AccountMetas
          /\ Authority(k[4]) \in AccountMetas
      BY MetasAre
    <2> QED
      BY <2>1, ListsOf, Zenon
  <1>2. f1 \in Fields /\ f2 \in Fields /\ f3 \in Fields
    BY FieldsAre, TagsFit
  <1>3. ReadsAs(WriteUint(12, 1), <<f1>>)
    BY TagReads
  <1>4. ReadsAs(data2, <<f1, f2>>)
    <2>1. Append(<<f1>>, f2) = <<f1, f2>>
      <3> HIDE DEF f1, f2
      <3> QED
        BY <1>2, TwoInARow
    <2>2. ReadsAs(data2, Append(<<f1>>, f2))
      <3>1. n[1] \in Nat
        BY DEF FitsIn
      <3> HIDE DEF f1
      <3> QED
        BY <1>3, <3>1, OneMoreIsWritten
    <2> QED
      BY <2>1, <2>2
  <1>5. ReadsAs(data3, <<f1, f2, f3>>)
    <2>1. Append(<<f1, f2>>, f3) = <<f1, f2, f3>>
      <3> HIDE DEF f1, f2, f3
      <3> QED
        BY <1>2, ThreeInARow
    <2>2. ReadsAs(data3, Append(<<f1, f2>>, f3))
      <3>1. n[2] \in Nat
        BY DEF FitsIn
      <3> HIDE DEF f1, f2, data2
      <3> QED
        BY <1>4, <3>1, OneMoreIsWritten
    <2> QED
      BY <2>1, <2>2
  <1>6. TransferChecked(k, n, s) = Build("token", accounts, data3)
    BY DEF TransferChecked, Joined, U8, U64
  <1>7. Layout("transferChecked", k, n, s) = fields
    BY DEF Layout
  <1> HIDE DEF accounts, f1, f2, f3, data2, data3
  <1> QED
    BY <1>1, <1>5, <1>6, <1>7, BuiltIsRead

LEMMA CloseAccountIsRead ==
    ASSUME NEW k, NEW n, NEW s, k[1] \in PublicKeys, k[2] \in PublicKeys, k[3] \in PublicKeys
    PROVE  IsRead(CloseAccount(k, n, s), Layout("closeAccount", k, n, s))
  <1> DEFINE accounts == <<Meta(k[1], FALSE, TRUE), Meta(k[2], FALSE, TRUE), Authority(k[3])>>
             data == WriteUint(9, 1)
             fields == <<Uint(1, 9)>>
  <1>1. accounts \in Seq(AccountMetas)
    <2>1. /\ Meta(k[1], FALSE, TRUE) \in AccountMetas
          /\ Meta(k[2], FALSE, TRUE) \in AccountMetas
          /\ Authority(k[3]) \in AccountMetas
      BY MetasAre
    <2> QED
      BY <2>1, ListsOf, Zenon
  <1>2. ReadsAs(data, fields)
    BY TagReads
  <1>3. CloseAccount(k, n, s) = Build("token", accounts, data)
    BY DEF CloseAccount, TokenInstruction, U8
  <1>4. Layout("closeAccount", k, n, s) = fields
    BY DEF Layout
  <1> HIDE DEF accounts, data, fields
  <1> QED
    BY <1>1, <1>2, <1>3, <1>4, BuiltIsRead

(* No data.                                                                   *)
LEMMA CreateAssociatedTokenAccountIsRead ==
    ASSUME NEW k, NEW n, NEW s, k[1] \in PublicKeys, k[2] \in PublicKeys, k[3] \in PublicKeys,
           k[4] \in PublicKeys
    PROVE  IsRead(CreateAssociatedTokenAccount(k, n, s),
                  Layout("createAssociatedTokenAccount", k, n, s))
  <1> DEFINE accounts == <<Meta(k[1], TRUE, TRUE), Meta(k[2], FALSE, TRUE),
                           Meta(k[3], FALSE, FALSE), Meta(k[4], FALSE, FALSE),
                           Sysvar("system"), Sysvar("token"), Sysvar("rent")>>
             none == <<>>
  <1>1. accounts \in Seq(AccountMetas)
    <2>1. /\ Meta(k[1], TRUE, TRUE) \in AccountMetas
          /\ Meta(k[2], FALSE, TRUE) \in AccountMetas
          /\ Meta(k[3], FALSE, FALSE) \in AccountMetas
          /\ Meta(k[4], FALSE, FALSE) \in AccountMetas
      BY MetasAre
    <2> QED
      BY <2>1, SysvarsAre, ListsOf, Zenon
  <1>2. ReadsAs(none, none)
    BY NothingReads
  <1>3. CreateAssociatedTokenAccount(k, n, s) = Build("associated", accounts, none)
    BY DEF CreateAssociatedTokenAccount
  <1>4. Layout("createAssociatedTokenAccount", k, n, s) = none
    BY DEF Layout
  <1> HIDE DEF accounts, none
  <1> QED
    BY <1>1, <1>2, <1>3, <1>4, BuiltIsRead

-----------------------------------------------------------------------------
(* The builders that throw: the key of the recent blockhashes is none.        *)

LEMMA RecentIsMissing ==
    ASSUME NEW k, NEW n, NEW s
    PROVE  /\ AdvanceNonceAccount(k, n, s) = Thrown
           /\ WithdrawNonceAccount(k, n, s) = Thrown
           /\ InitializeNonceAccount(k, n, s) = Thrown
  <1> DEFINE recent == Sysvar("recent")
             rent == Sysvar("rent")
  <1>1. recent.key = NoKey
    BY SysvarsAre
  <1> HIDE DEF recent, rent
  <1>2. \A a, b, data : Build("system", <<a, recent, b>>, data) = Thrown
    <2> SUFFICES ASSUME NEW a, NEW b, NEW data
                 PROVE  Build("system", <<a, recent, b>>, data) = Thrown
      OBVIOUS
    <2> DEFINE accounts == <<a, recent, b>>
    <2>1. 2 \in DOMAIN accounts /\ accounts[2] = recent
      OBVIOUS
    <2> HIDE DEF accounts
    <2>2. Build("system", accounts, data) = Thrown
      BY <1>1, <2>1, NotBuilt
    <2> QED
      BY <2>2 DEF accounts
  <1>3. \A a, b, c, data : Build("system", <<a, b, recent, rent, c>>, data) = Thrown
    <2> SUFFICES ASSUME NEW a, NEW b, NEW c, NEW data
                 PROVE  Build("system", <<a, b, recent, rent, c>>, data) = Thrown
      OBVIOUS
    <2> DEFINE accounts == <<a, b, recent, rent, c>>
    <2>1. 3 \in DOMAIN accounts /\ accounts[3] = recent
      OBVIOUS
    <2> HIDE DEF accounts
    <2>2. Build("system", accounts, data) = Thrown
      BY <1>1, <2>1, NotBuilt
    <2> QED
      BY <2>2 DEF accounts
  <1>4. AdvanceNonceAccount(k, n, s) = Thrown
    BY <1>2 DEF AdvanceNonceAccount, recent
  <1>5. WithdrawNonceAccount(k, n, s) = Thrown
    BY <1>3 DEF WithdrawNonceAccount, recent, rent
  <1>6. InitializeNonceAccount(k, n, s) = Thrown
    BY <1>2 DEF InitializeNonceAccount, recent
  <1> QED
    BY <1>4, <1>5, <1>6

-----------------------------------------------------------------------------
(* The steps of a program.                                                   *)

(* The keys of a request, as they are read. *)
KeysRead(r) == [i \in DOMAIN r.texts |-> PublicKeyFromText(r.texts[i])]

(* What holds between the steps: the keys are those of the request, the       *)
(* builder is called with none missing, and what it did is what is kept.      *)
ProgramInv ==
    /\ IInv
    /\ request \in Requests
    /\ stage \in {"texts", "search", "built", "thrown"}
    /\ stage = "texts" => keys = <<>>
    /\ stage # "texts" => keys = KeysRead(request)
    /\ stage \in {"search", "built"} => \A i \in DOMAIN keys : keys[i] # NoKey
    /\ stage = "built" => outcome = "found" /\ built = BuildInstruction

LEMMA InitProgramInv == ProgramInit => ProgramInv
  BY InitIInv DEF ProgramInit, ProgramInv

(* What the builder does depends on the request, the keys and the bump alone. *)
LEMMA BuildsTheSame ==
    ASSUME UNCHANGED <<request, keys, bump>>
    PROVE  Given' = Given /\ BuildInstruction' = BuildInstruction
  <1>1. Given' = Given
    BY DEF Given, DerivedKey
  <1> QED
    BY <1>1 DEF BuildInstruction

(* One step per action.                                                       *)
LEMMA StepProgramInv == ProgramInv /\ [ProgramNext]_programVars => ProgramInv'
  <1> SUFFICES ASSUME ProgramInv, [ProgramNext]_programVars
               PROVE  ProgramInv'
    OBVIOUS
  <1>1. CASE ReadKeys
    <2>1. UNCHANGED vars /\ UNCHANGED <<request, built>> /\ keys' = KeysRead(request)
      BY <1>1 DEF ReadKeys, KeysRead
    <2>2. IInv'
      BY <2>1, StepIInv DEF ProgramInv
    <2>3. /\ stage' \in {"search", "thrown"}
          /\ stage' = "search" => \A i \in DOMAIN keys' : keys'[i] # NoKey
      BY <1>1 DEF ReadKeys
    <2> QED
      BY <2>1, <2>2, <2>3 DEF ProgramInv
  <1>2. CASE Search
    <2>1. stage = "search" /\ Next /\ UNCHANGED <<request, stage, keys, built>>
      BY <1>2 DEF Search
    <2>2. IInv'
      BY <2>1, StepIInv DEF ProgramInv
    <2> QED
      BY <2>1, <2>2 DEF ProgramInv
  <1>3. CASE SearchThrows
    <2>1. stage' = "thrown" /\ stage # "texts" /\ UNCHANGED vars /\ UNCHANGED <<request, keys, built>>
      BY <1>3 DEF SearchThrows
    <2>2. IInv'
      BY <2>1, StepIInv DEF ProgramInv
    <2> QED
      BY <2>1, <2>2 DEF ProgramInv
  <1>4. CASE CallBuilder
    <2>1. /\ stage = "search" /\ outcome = "found" /\ built' = BuildInstruction /\ stage' = "built"
          /\ UNCHANGED vars /\ UNCHANGED <<request, keys>>
      BY <1>4 DEF CallBuilder
    <2>2. IInv'
      BY <2>1, StepIInv DEF ProgramInv
    <2>3. UNCHANGED <<request, keys, bump>> /\ outcome' = outcome
      BY <2>1 DEF vars
    <2>4. BuildInstruction' = BuildInstruction
      BY <2>3, BuildsTheSame
    <2> QED
      BY <2>1, <2>2, <2>3, <2>4 DEF ProgramInv
  <1>5. CASE UNCHANGED programVars
    <2>1. UNCHANGED vars /\ UNCHANGED <<request, stage, keys, built>>
      BY <1>5 DEF programVars
    <2>2. IInv'
      BY <2>1, StepIInv DEF ProgramInv
    <2>3. UNCHANGED <<request, keys, bump>> /\ outcome' = outcome
      BY <2>1 DEF vars
    <2>4. BuildInstruction' = BuildInstruction
      BY <2>3, BuildsTheSame
    <2> QED
      BY <2>1, <2>2, <2>3, <2>4 DEF ProgramInv
  <1> QED
    BY <1>1, <1>2, <1>3, <1>4, <1>5 DEF ProgramNext, Ended

LEMMA ProgramInvariance == ProgramSpec => []ProgramInv
  BY InitProgramInv, StepProgramInv, PTL DEF ProgramSpec

(* The bump of an instruction's derived address is the canonical one, with    *)
(* the other steps of a program around the search.                            *)
THEOREM ProgramsFindCanonicalBump == ProgramSpec => []CanonicalBump
  <1>1. ProgramInv => CanonicalBump
    BY BumpAssumption DEF ProgramInv, IInv, TypeOK, LargerOnesFail, CanonicalBump, Derives
  <1> QED
    BY <1>1, ProgramInvariance, PTL

(* The parts of IsRequest about the texts.                                    *)
LEMMA RequestTexts ==
    ASSUME NEW r \in Requests
    PROVE  /\ r.texts \in Seq(Seq({Foreign} \cup 0..57)) /\ Len(r.meant) = Len(r.texts)
           /\ \A i \in 1..Len(r.texts) : Means(r.texts[i], r.meant[i])
  BY RequestAssumption DEF IsRequest

(* What is read of a request's texts is what they mean.                       *)
LEMMA KeysReadAre ==
    ASSUME NEW r \in Requests
    PROVE  /\ KeysRead(r) \in Seq(PublicKeys \cup {NoKey}) /\ Len(KeysRead(r)) = Len(r.texts)
           /\ \A i \in 1..Len(r.texts) :
                  /\ KeysRead(r)[i] = r.meant[i]
                  /\ KeysRead(r)[i] # NoKey => Encode(KeysRead(r)[i]) = r.texts[i]
  <1> DEFINE texts == r.texts
             n == Len(texts)
  <1>1. /\ texts \in Seq(Seq({Foreign} \cup 0..57)) /\ n \in Nat /\ DOMAIN texts = 1..n
        /\ \A i \in 1..n : Means(texts[i], r.meant[i])
    BY RequestTexts
  <1>2. KeysRead(r) = [i \in DOMAIN texts |-> PublicKeyFromText(texts[i])]
    BY DEF KeysRead
  <1> HIDE DEF texts, n
  <1>3. ASSUME NEW i \in 1..n
        PROVE  /\ PublicKeyFromText(texts[i]) = r.meant[i]
               /\ r.meant[i] # NoKey => r.meant[i] \in PublicKeys /\ Encode(r.meant[i]) = texts[i]
    <2> DEFINE text == texts[i]
               key == r.meant[i]
    <2>1. text \in Seq({Foreign} \cup 0..57) /\ Means(text, key)
      BY <1>1
    <2> HIDE DEF text, key
    <2>2. /\ PublicKeyFromText(text) = key
          /\ key # NoKey => key \in PublicKeys /\ Encode(key) = text
      BY <2>1, MeaningRead
    <2> QED
      BY <2>2 DEF text, key
  <1>4. \A i \in 1..n : KeysRead(r)[i] = r.meant[i]
    BY <1>1, <1>2, <1>3
  <1>5. KeysRead(r) \in [1..n -> PublicKeys \cup {NoKey}]
    BY <1>1, <1>2, <1>3
  <1>6. KeysRead(r) \in Seq(PublicKeys \cup {NoKey}) /\ Len(KeysRead(r)) = n
    BY <1>1, <1>5
  <1> QED
    BY <1>3, <1>4, <1>6 DEF n, texts

(* Every key is read from its text, and no other text is read as a key.       *)
THEOREM KeysAreReadBack == ProgramSpec => []KeysReadBack
  <1>1. ProgramInv => KeysReadBack
    <2> SUFFICES ASSUME ProgramInv
                 PROVE  KeysReadBack
      OBVIOUS
    <2>1. request \in Requests
      BY DEF ProgramInv
    <2>2. CASE keys = <<>>
      BY <2>2 DEF KeysReadBack
    <2>3. CASE keys = KeysRead(request)
      <3>1. DOMAIN keys = 1..Len(request.texts)
        BY <2>1, <2>3, KeysReadAre
      <3> QED
        BY <2>1, <2>3, <3>1, KeysReadAre DEF KeysReadBack
    <2> QED
      BY <2>2, <2>3 DEF ProgramInv
  <1> QED
    BY <1>1, ProgramInvariance, PTL

(* A longer input does not have a smaller buffer.                             *)
LEMMA SmallestBuffer == BufferSize(KeyLength) \in Nat /\ 1 <= BufferSize(KeyLength)
  <1> DEFINE scaled == KeyLength * 137
  <1>1. scaled \in Nat
    BY RangeAssumption
  <1> HIDE DEF scaled
  <1>2. scaled \div 100 \in Nat
    BY <1>1
  <1>3. BufferSize(KeyLength) = (scaled \div 100) + 1
    BY DEF BufferSize, scaled
  <1> QED
    BY <1>2, <1>3

(* The digits are a sequence.                                                 *)
LEMMA DigitsAreCounted ==
    ASSUME NEW in \in Seq(0..255)
    PROVE  Len(Digits(in, 256, 58)) \in Nat
  <1> DEFINE d == Digits(in, 256, 58)
  <1>1. Bases(256, 58)
    BY DEF Bases
  <1>2. PICK x \in Nat : IsHighFirst(in, 256, x)
    <2>1. in \in Seq(0..(256 - 1)) /\ 256 \in Nat
      <3>1. 255 = 256 - 1
        OBVIOUS
      <3> QED
        BY <3>1
    <2> QED
      BY <2>1, HighFirstExists
  <1>3. Numeral(d, 58, x)
    BY <1>1, <1>2, DigitsWorth
  <1>4. PICK w : LowFirst(d, 58, w) /\ w[1] = x
    BY <1>3 DEF Numeral, IsLowFirst
  <1> HIDE DEF d
  <1>5. Len(d) \in Nat
    BY <1>4 DEF LowFirst
  <1> QED
    BY <1>5 DEF d

(* Nothing has one digit, which is left out of the text.                      *)
LEMMA DigitsOfNothing == Len(Digits(<<>>, 256, 58)) <= 1
  <1> DEFINE none == <<>>
  <1>1. none \in Seq(0..255) /\ Len(none) = 0
    OBVIOUS
  <1> HIDE DEF none
  <1>2. Len(Digits(none, 256, 58)) <= BufferSize(0)
    BY <1>1, EncodedFits
  <1>3. BufferSize(0) = 1
    BY DEF BufferSize
  <1> QED
    BY <1>2, <1>3 DEF none

(* encode never fills more of its buffer than there is: not for a key, and    *)
(* not for any input up to the length of a signature.                         *)
THEOREM EncodingFits == ProgramSpec => []EncodeFits
  <1>1. ASSUME NEW length \in 1..64
        PROVE  MostDigits[length] <= BufferSize(length)
    <2> DEFINE in == [i \in 1..length |-> 255]
    <2>1. in \in Seq(0..255) /\ Len(in) = length
      OBVIOUS
    <2>2. MostDigits[length] = Len(Digits(in, 256, 58))
      BY DEF MostDigits
    <2> HIDE DEF in
    <2>3. Len(Digits(in, 256, 58)) <= BufferSize(Len(in))
      BY <2>1, EncodedFits
    <2> QED
      BY <2>1, <2>2, <2>3
  <1>2. DOMAIN MostDigits = 1..64
    BY DEF MostDigits
  <1>3. ASSUME NEW key \in PublicKeys \cup {NoKey}
        PROVE  Len(Digits(key, 256, 58)) <= BufferSize(KeyLength)
    <2>1. CASE key \in PublicKeys
      <3>1. key \in Seq(0..255) /\ Len(key) = KeyLength
        BY <2>1, KeysAreBytes
      <3>2. Len(Digits(key, 256, 58)) <= BufferSize(Len(key))
        BY <3>1, EncodedFits
      <3> QED
        BY <3>1, <3>2
    <2>2. CASE key = NoKey
      <3> DEFINE count == Len(Digits(<<>>, 256, 58))
      <3>1. count <= 1
        BY DigitsOfNothing
      <3>2. count \in Nat
        <4>1. <<>> \in Seq(0..255)
          OBVIOUS
        <4> QED
          BY <4>1, DigitsAreCounted
      <3>3. Len(Digits(key, 256, 58)) = count
        BY <2>2 DEF NoKey
      <3> HIDE DEF count
      <3> QED
        BY <3>1, <3>2, <3>3, SmallestBuffer
    <2> QED
      BY <2>1, <2>2
  <1>4. ProgramInv => EncodeFits
    <2> SUFFICES ASSUME ProgramInv, stage # "texts", NEW i \in DOMAIN keys
                 PROVE  Len(Digits(keys[i], 256, 58)) <= BufferSize(KeyLength)
      BY <1>1, <1>2 DEF EncodeFits
    <2>1. request \in Requests /\ keys = KeysRead(request)
      BY DEF ProgramInv
    <2>2. keys \in Seq(PublicKeys \cup {NoKey})
      BY <2>1, KeysReadAre
    <2>3. keys[i] \in PublicKeys \cup {NoKey}
      BY <2>2
    <2> QED
      BY <1>3, <2>3
  <1> QED
    BY <1>4, ProgramInvariance, PTL

-----------------------------------------------------------------------------
(* The builders' instructions.                                               *)

(* A key put between others is one of them.                                   *)
LEMMA OneInserted ==
    ASSUME NEW K, NEW s \in Seq(K), NEW i \in 1..(Len(s) + 1), NEW e \in K
    PROVE  InsertAt(s, i, e) \in Seq(K) /\ Len(InsertAt(s, i, e)) = Len(s) + 1
  <1> DEFINE front == SubSeq(s, 1, i - 1)
             back == SubSeq(s, i, Len(s))
             middle == <<e>>
             first == Joined(front, middle)
             all == Joined(first, back)
  <1>1. /\ front \in Seq(K) /\ Len(front) = i - 1
        /\ back \in Seq(K) /\ Len(back) = Len(s) - i + 1
        /\ middle \in Seq(K) /\ Len(middle) = 1
    OBVIOUS
  <1>2. InsertAt(s, i, e) = all
    BY DEF InsertAt, Joined
  <1> HIDE DEF front, back, middle
  <1>3. first \in Seq(K) /\ AreJoined(first, front, middle)
    BY <1>1, JoinedPlaces
  <1> HIDE DEF first
  <1>4. all \in Seq(K) /\ AreJoined(all, first, back)
    BY <1>1, <1>3, JoinedPlaces
  <1> HIDE DEF all
  <1>5. Len(s) \in Nat /\ i \in Nat
    OBVIOUS
  <1>6. Len(first) = (i - 1) + 1 /\ Len(all) = Len(first) + Len(back)
    BY <1>1, <1>3, <1>4 DEF AreJoined
  <1> QED
    BY <1>1, <1>2, <1>4, <1>5, <1>6

(* The other parts of IsRequest.                                              *)
LEMMA RequestParts ==
    ASSUME NEW r \in Requests
    PROVE  /\ r.builder \in DOMAIN Parameters
           /\ \/ r.at = 0 /\ Parameters[r.builder].keys = Len(r.texts)
              \/ /\ r.at \in 1..(Parameters[r.builder].keys)
                 /\ Parameters[r.builder].keys = Len(r.texts) + 1
           /\ Len(r.numbers) = Len(Parameters[r.builder].widths)
           /\ \A i \in 1..Len(r.numbers) : FitsIn(r.numbers[i], Parameters[r.builder].widths[i])
           /\ r.seed \in Seq(0..(ByteRange - 1)) /\ FitsIn(Len(r.seed), 4)
  BY RequestAssumption DEF IsRequest

(* A builder that is called is given as many keys as it takes.                *)
LEMMA GivenAre ==
    ASSUME ProgramInv, stage = "built"
    PROVE  \A i \in 1..(Parameters[request.builder].keys) : Given[i] \in PublicKeys
  <1> DEFINE size == Len(request.texts)
             count == Parameters[request.builder].keys
             key == DerivedKey(bump)
             at == request.at
  <1>1. request \in Requests /\ keys = KeysRead(request) /\ \A i \in DOMAIN keys : keys[i] # NoKey
    BY DEF ProgramInv
  <1>2. keys \in Seq(PublicKeys \cup {NoKey}) /\ Len(keys) = size /\ size \in Nat
    BY <1>1, KeysReadAre
  <1>3. keys \in Seq(PublicKeys)
    <2>1. \A i \in 1..Len(keys) : keys[i] \in PublicKeys
      BY <1>1, <1>2
    <2>2. keys \in [1..Len(keys) -> PublicKeys]
      BY <1>2, <2>1
    <2> QED
      BY <1>2, <2>2
  <1>4. key \in PublicKeys
    <2>1. 256 + bump \in Nat
      BY BumpAssumption DEF ProgramInv, IInv, TypeOK
    <2> QED
      BY <2>1, NumbersAreKeys DEF DerivedKey
  <1>5. \/ at = 0 /\ count = size
        \/ at \in 1..count /\ count = size + 1
    BY <1>1, RequestParts
  <1>6. Given = IF at = 0 THEN keys ELSE InsertAt(keys, at, key)
    BY DEF Given
  <1> HIDE DEF size, count, key, at
  <1>7. CASE at = 0
    <2>1. count = size
      BY <1>2, <1>5, <1>7
    <2>2. \A i \in 1..count : keys[i] \in PublicKeys
      BY <1>2, <1>3, <2>1
    <2> QED
      BY <1>6, <1>7, <2>2 DEF count
  <1>8. CASE at # 0
    <2>1. at \in 1..(Len(keys) + 1) /\ count = Len(keys) + 1
      BY <1>2, <1>5, <1>8
    <2>2. InsertAt(keys, at, key) \in Seq(PublicKeys) /\ Len(InsertAt(keys, at, key)) = count
      BY <1>3, <1>4, <2>1, OneInserted
    <2>3. Given \in Seq(PublicKeys) /\ Len(Given) = count
      BY <1>6, <1>8, <2>2
    <2>4. \A i \in 1..count : Given[i] \in PublicKeys
      BY <2>3
    <2> QED
      BY <2>4 DEF count
  <1> QED
    BY <1>7, <1>8

NonceBuilders == {"advanceNonceAccount", "withdrawNonceAccount", "initializeNonceAccount"}

(* These return; the program reads back what they were given.                 *)
LEMMA OthersReadBack ==
    ASSUME ProgramInv, stage = "built", request.builder \notin NonceBuilders
    PROVE  IsRead(BuildInstruction, Layout(request.builder, Given, request.numbers, request.seed))
  <1> DEFINE k == Given
             n == request.numbers
             s == request.seed
             types == Parameters[request.builder]
  <1>1. request \in Requests
    BY DEF ProgramInv
  <1>2. \A i \in 1..(types.keys) : k[i] \in PublicKeys
    BY GivenAre
  <1>3. \A i \in 1..Len(types.widths) : FitsIn(n[i], types.widths[i])
    BY <1>1, RequestParts
  <1>4. s \in Seq(0..(ByteRange - 1)) /\ FitsIn(Len(s), 4)
    BY <1>1, RequestParts
  <1>5. request.builder \in DOMAIN Parameters
    BY <1>1, RequestParts
  <1> HIDE DEF types
  <1>6. CASE request.builder = "transfer"
    <2>1. types.keys = 2 /\ types.widths = <<8>>
      BY <1>6 DEF types, Parameters, Takes
    <2>2. /\ k[1] \in PublicKeys /\ k[2] \in PublicKeys /\ FitsIn(n[1], 8)
      <3> HIDE DEF k, n
      <3> QED
        BY <1>2, <1>3, <2>1
    <2>3. BuildInstruction = Transfer(k, n, s)
      BY <1>6 DEF BuildInstruction
    <2> HIDE DEF k, n, s
    <2>4. IsRead(Transfer(k, n, s), Layout("transfer", k, n, s))
      BY <2>2, TransferIsRead
    <2> QED
      BY <1>6, <2>3, <2>4 DEF k, n, s
  <1>7. CASE request.builder = "createAccount"
    <2>1. types.keys = 3 /\ types.widths = <<8, 8>>
      BY <1>7 DEF types, Parameters, Takes
    <2>2. /\ k[1] \in PublicKeys /\ k[2] \in PublicKeys /\ k[3] \in PublicKeys
          /\ FitsIn(n[1], 8) /\ FitsIn(n[2], 8)
      <3> HIDE DEF k, n
      <3> QED
        BY <1>2, <1>3, <2>1
    <2>3. BuildInstruction = CreateAccount(k, n, s)
      BY <1>7 DEF BuildInstruction
    <2> HIDE DEF k, n, s
    <2>4. IsRead(CreateAccount(k, n, s), Layout("createAccount", k, n, s))
      BY <2>2, CreateAccountIsRead
    <2> QED
      BY <1>7, <2>3, <2>4 DEF k, n, s
  <1>8. CASE request.builder = "assign"
    <2>1. types.keys = 2 /\ types.widths = <<>>
      BY <1>8 DEF types, Parameters, Takes
    <2>2. /\ k[1] \in PublicKeys /\ k[2] \in PublicKeys
      <3> HIDE DEF k, n
      <3> QED
        BY <1>2, <1>3, <2>1
    <2>3. BuildInstruction = Assign(k, n, s)
      BY <1>8 DEF BuildInstruction
    <2> HIDE DEF k, n, s
    <2>4. IsRead(Assign(k, n, s), Layout("assign", k, n, s))
      BY <2>2, AssignIsRead
    <2> QED
      BY <1>8, <2>3, <2>4 DEF k, n, s
  <1>9. CASE request.builder = "allocate"
    <2>1. types.keys = 1 /\ types.widths = <<8>>
      BY <1>9 DEF types, Parameters, Takes
    <2>2. /\ k[1] \in PublicKeys /\ FitsIn(n[1], 8)
      <3> HIDE DEF k, n
      <3> QED
        BY <1>2, <1>3, <2>1
    <2>3. BuildInstruction = Allocate(k, n, s)
      BY <1>9 DEF BuildInstruction
    <2> HIDE DEF k, n, s
    <2>4. IsRead(Allocate(k, n, s), Layout("allocate", k, n, s))
      BY <2>2, AllocateIsRead
    <2> QED
      BY <1>9, <2>3, <2>4 DEF k, n, s
  <1>10. CASE request.builder = "createAccountWithSeed"
    <2>1. types.keys = 4 /\ types.widths = <<8, 8>>
      BY <1>10 DEF types, Parameters, Takes
    <2>2. /\ k[1] \in PublicKeys /\ k[2] \in PublicKeys /\ k[3] \in PublicKeys
          /\ k[4] \in PublicKeys /\ FitsIn(n[1], 8) /\ FitsIn(n[2], 8)
      <3> HIDE DEF k, n
      <3> QED
        BY <1>2, <1>3, <2>1
    <2>3. BuildInstruction = CreateAccountWithSeed(k, n, s)
      BY <1>10 DEF BuildInstruction
    <2> HIDE DEF k, n, s
    <2>4. IsRead(CreateAccountWithSeed(k, n, s), Layout("createAccountWithSeed", k, n, s))
      BY <1>4, <2>2, CreateAccountWithSeedIsRead
    <2> QED
      BY <1>10, <2>3, <2>4 DEF k, n, s
  <1>11. CASE request.builder = "transferWithSeed"
    <2>1. types.keys = 4 /\ types.widths = <<8>>
      BY <1>11 DEF types, Parameters, Takes
    <2>2. /\ k[1] \in PublicKeys /\ k[2] \in PublicKeys /\ k[3] \in PublicKeys
          /\ k[4] \in PublicKeys /\ FitsIn(n[1], 8)
      <3> HIDE DEF k, n
      <3> QED
        BY <1>2, <1>3, <2>1
    <2>3. BuildInstruction = TransferWithSeed(k, n, s)
      BY <1>11 DEF BuildInstruction
    <2> HIDE DEF k, n, s
    <2>4. IsRead(TransferWithSeed(k, n, s), Layout("transferWithSeed", k, n, s))
      BY <1>4, <2>2, TransferWithSeedIsRead
    <2> QED
      BY <1>11, <2>3, <2>4 DEF k, n, s
  <1>12. CASE request.builder = "authorizeNonceAccount"
    <2>1. types.keys = 3 /\ types.widths = <<>>
      BY <1>12 DEF types, Parameters, Takes
    <2>2. /\ k[1] \in PublicKeys /\ k[2] \in PublicKeys /\ k[3] \in PublicKeys
      <3> HIDE DEF k, n
      <3> QED
        BY <1>2, <1>3, <2>1
    <2>3. BuildInstruction = AuthorizeNonceAccount(k, n, s)
      BY <1>12 DEF BuildInstruction
    <2> HIDE DEF k, n, s
    <2>4. IsRead(AuthorizeNonceAccount(k, n, s), Layout("authorizeNonceAccount", k, n, s))
      BY <2>2, AuthorizeNonceAccountIsRead
    <2> QED
      BY <1>12, <2>3, <2>4 DEF k, n, s
  <1>13. CASE request.builder = "setComputeUnitLimit"
    <2>1. types.keys = 0 /\ types.widths = <<4>>
      BY <1>13 DEF types, Parameters, Takes
    <2>2. FitsIn(n[1], 4)
      <3> HIDE DEF k, n
      <3> QED
        BY <1>2, <1>3, <2>1
    <2>3. BuildInstruction = SetComputeUnitLimit(k, n, s)
      BY <1>13 DEF BuildInstruction
    <2> HIDE DEF k, n, s
    <2>4. IsRead(SetComputeUnitLimit(k, n, s), Layout("setComputeUnitLimit", k, n, s))
      BY <2>2, SetComputeUnitLimitIsRead
    <2> QED
      BY <1>13, <2>3, <2>4 DEF k, n, s
  <1>14. CASE request.builder = "setComputeUnitPrice"
    <2>1. types.keys = 0 /\ types.widths = <<8>>
      BY <1>14 DEF types, Parameters, Takes
    <2>2. FitsIn(n[1], 8)
      <3> HIDE DEF k, n
      <3> QED
        BY <1>2, <1>3, <2>1
    <2>3. BuildInstruction = SetComputeUnitPrice(k, n, s)
      BY <1>14 DEF BuildInstruction
    <2> HIDE DEF k, n, s
    <2>4. IsRead(SetComputeUnitPrice(k, n, s), Layout("setComputeUnitPrice", k, n, s))
      BY <2>2, SetComputeUnitPriceIsRead
    <2> QED
      BY <1>14, <2>3, <2>4 DEF k, n, s
  <1>15. CASE request.builder = "tokenTransfer"
    <2>1. types.keys = 3 /\ types.widths = <<8>>
      BY <1>15 DEF types, Parameters, Takes
    <2>2. /\ k[1] \in PublicKeys /\ k[2] \in PublicKeys /\ k[3] \in PublicKeys
          /\ FitsIn(n[1], 8)
      <3> HIDE DEF k, n
      <3> QED
        BY <1>2, <1>3, <2>1
    <2>3. BuildInstruction = TokenTransfer(k, n, s)
      BY <1>15 DEF BuildInstruction
    <2> HIDE DEF k, n, s
    <2>4. IsRead(TokenTransfer(k, n, s), Layout("tokenTransfer", k, n, s))
      BY <2>2, TokenTransferIsRead
    <2> QED
      BY <1>15, <2>3, <2>4 DEF k, n, s
  <1>16. CASE request.builder = "mintTo"
    <2>1. types.keys = 3 /\ types.widths = <<8>>
      BY <1>16 DEF types, Parameters, Takes
    <2>2. /\ k[1] \in PublicKeys /\ k[2] \in PublicKeys /\ k[3] \in PublicKeys
          /\ FitsIn(n[1], 8)
      <3> HIDE DEF k, n
      <3> QED
        BY <1>2, <1>3, <2>1
    <2>3. BuildInstruction = MintTo(k, n, s)
      BY <1>16 DEF BuildInstruction
    <2> HIDE DEF k, n, s
    <2>4. IsRead(MintTo(k, n, s), Layout("mintTo", k, n, s))
      BY <2>2, MintToIsRead
    <2> QED
      BY <1>16, <2>3, <2>4 DEF k, n, s
  <1>17. CASE request.builder = "burn"
    <2>1. types.keys = 3 /\ types.widths = <<8>>
      BY <1>17 DEF types, Parameters, Takes
    <2>2. /\ k[1] \in PublicKeys /\ k[2] \in PublicKeys /\ k[3] \in PublicKeys
          /\ FitsIn(n[1], 8)
      <3> HIDE DEF k, n
      <3> QED
        BY <1>2, <1>3, <2>1
    <2>3. BuildInstruction = Burn(k, n, s)
      BY <1>17 DEF BuildInstruction
    <2> HIDE DEF k, n, s
    <2>4. IsRead(Burn(k, n, s), Layout("burn", k, n, s))
      BY <2>2, BurnIsRead
    <2> QED
      BY <1>17, <2>3, <2>4 DEF k, n, s
  <1>18. CASE request.builder = "transferChecked"
    <2>1. types.keys = 4 /\ types.widths = <<8, 1>>
      BY <1>18 DEF types, Parameters, Takes
    <2>2. /\ k[1] \in PublicKeys /\ k[2] \in PublicKeys /\ k[3] \in PublicKeys
          /\ k[4] \in PublicKeys /\ FitsIn(n[1], 8) /\ FitsIn(n[2], 1)
      <3> HIDE DEF k, n
      <3> QED
        BY <1>2, <1>3, <2>1
    <2>3. BuildInstruction = TransferChecked(k, n, s)
      BY <1>18 DEF BuildInstruction
    <2> HIDE DEF k, n, s
    <2>4. IsRead(TransferChecked(k, n, s), Layout("transferChecked", k, n, s))
      BY <2>2, TransferCheckedIsRead
    <2> QED
      BY <1>18, <2>3, <2>4 DEF k, n, s
  <1>19. CASE request.builder = "closeAccount"
    <2>1. types.keys = 3 /\ types.widths = <<>>
      BY <1>19 DEF types, Parameters, Takes
    <2>2. /\ k[1] \in PublicKeys /\ k[2] \in PublicKeys /\ k[3] \in PublicKeys
      <3> HIDE DEF k, n
      <3> QED
        BY <1>2, <1>3, <2>1
    <2>3. BuildInstruction = CloseAccount(k, n, s)
      BY <1>19 DEF BuildInstruction
    <2> HIDE DEF k, n, s
    <2>4. IsRead(CloseAccount(k, n, s), Layout("closeAccount", k, n, s))
      BY <2>2, CloseAccountIsRead
    <2> QED
      BY <1>19, <2>3, <2>4 DEF k, n, s
  <1>20. CASE request.builder = "createAssociatedTokenAccount"
    <2>1. types.keys = 4 /\ types.widths = <<>>
      BY <1>20 DEF types, Parameters, Takes
    <2>2. /\ k[1] \in PublicKeys /\ k[2] \in PublicKeys /\ k[3] \in PublicKeys
          /\ k[4] \in PublicKeys
      <3> HIDE DEF k, n
      <3> QED
        BY <1>2, <1>3, <2>1
    <2>3. BuildInstruction = CreateAssociatedTokenAccount(k, n, s)
      BY <1>20 DEF BuildInstruction
    <2> HIDE DEF k, n, s
    <2>4. IsRead(CreateAssociatedTokenAccount(k, n, s), Layout("createAssociatedTokenAccount", k, n, s))
      BY <2>2, CreateAssociatedTokenAccountIsRead
    <2> QED
      BY <1>20, <2>3, <2>4 DEF k, n, s
  <1>21. request.builder \in
                            {"transfer", "createAccount", "assign", "allocate",
                             "createAccountWithSeed", "transferWithSeed",
                             "authorizeNonceAccount", "setComputeUnitLimit",
                             "setComputeUnitPrice", "tokenTransfer", "mintTo", "burn",
                             "transferChecked", "closeAccount",
                             "createAssociatedTokenAccount"}
    BY <1>5 DEF Parameters, NonceBuilders
  <1> QED
    BY <1>6, <1>7, <1>8, <1>9, <1>10, <1>11, <1>12, <1>13, <1>14, <1>15, <1>16, <1>17,
       <1>18, <1>19, <1>20, <1>21

(* These throw. *)
LEMMA NonceBuildersThrow ==
    ASSUME request.builder \in NonceBuilders
    PROVE  BuildInstruction = Thrown
  <1>1. CASE request.builder = "advanceNonceAccount"
    BY <1>1, RecentIsMissing DEF BuildInstruction
  <1>2. CASE request.builder = "withdrawNonceAccount"
    BY <1>2, RecentIsMissing DEF BuildInstruction
  <1>3. CASE request.builder = "initializeNonceAccount"
    BY <1>3, RecentIsMissing DEF BuildInstruction
  <1> QED
    BY <1>1, <1>2, <1>3 DEF NonceBuilders

(* For every key, number and seed that a caller can pass, the program on the  *)
(* chain reads them in the data of the instruction, to its end; the builders  *)
(* that throw are those that spell out the sysvar of recent blockhashes.      *)
THEOREM InstructionsAreReadBack == ProgramSpec => []InstructionReadsBack
  <1>1. ProgramInv => InstructionReadsBack
    <2> SUFFICES ASSUME ProgramInv, stage = "built"
                 PROVE  InstructionReadsBack
      BY DEF InstructionReadsBack
    <2>1. built = BuildInstruction
      BY DEF ProgramInv
    <2>2. CASE request.builder \in NonceBuilders
      BY <2>1, <2>2, NonceBuildersThrow DEF InstructionReadsBack, NonceBuilders
    <2>3. CASE request.builder \notin NonceBuilders
      BY <2>1, <2>3, OthersReadBack DEF InstructionReadsBack, IsRead
    <2> QED
      BY <2>2, <2>3
  <1> QED
    BY <1>1, ProgramInvariance, PTL
=============================================================================
