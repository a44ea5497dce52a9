--------------------------- MODULE PhaseInstProofs ---------------------------
(***************************************************************************)
(* What the instruction set promises, for every word width up to 64 bits   *)
(* and every size of the register file and of the memory: an instruction   *)
(* in range maps states to states, and the inverse of an invertible        *)
(* instruction is in range afterwards and gives back the state it had.     *)
(* The last section has what the other proofs use of numbers: the least    *)
(* one with a property, chains of steps, functions defined by recursion.   *)
(***************************************************************************)
EXTENDS PhaseInst, WellFoundedInduction, TLAPS

-----------------------------------------------------------------------------
(* Division with remainder. *)

(* Quotient and remainder by M are the only pair of this shape. *)
LEMMA DivModUnique ==
  ASSUME NEW M \in Nat \ {0}, NEW q \in Int, NEW r \in 0 .. M - 1
  PROVE  (q * M + r) % M = r /\ (q * M + r) \div M = q
  BY SMT

(* Every integer is quotient times M plus remainder. *)
LEMMA DivModSplit ==
  ASSUME NEW M \in Nat \ {0}, NEW x \in Int
  PROVE  /\ x % M \in 0 .. M - 1
         /\ x \div M \in Int
         /\ x = (x \div M) * M + (x % M)
  BY SMT

(* The remainder differs from the number by a multiple of M. *)
LEMMA ModShift ==
  ASSUME NEW M \in Nat \ {0}, NEW x \in Int
  PROVE  x % M \in 0 .. M - 1 /\ \E p \in Int : x % M = x - p * M
  <1>1. x \div M \in Int /\ x % M = x - (x \div M) * M /\ x % M \in 0 .. M - 1
    BY DivModSplit
  <1> QED
    BY <1>1

(* The modulus is an even number of at least two; powers split the modulus. *)
LEMMA ModulusFacts ==
  /\ Modulus \in Nat \ {0, 1}
  /\ \A k \in 0 .. Width :
       /\ Pow2[k] \in Nat \ {0}
       /\ Pow2[Width - k] \in Nat \ {0}
       /\ Pow2[k] * Pow2[Width - k] = Modulus
       /\ Pow2[Width - k] * Pow2[k] = Modulus
  <1>1. Width \in Nat /\ 1 \in 0 .. Width /\ Width - 1 \in 0 .. Width
    BY SizesAssumption
  <1>2. ASSUME NEW k \in 0 .. Width
        PROVE  /\ Pow2[k] \in Nat \ {0}
               /\ Pow2[Width - k] \in Nat \ {0}
               /\ Pow2[k] * Pow2[Width - k] = Modulus
               /\ Pow2[Width - k] * Pow2[k] = Modulus
    <2>1. Width - k \in 0 .. Width /\ k + (Width - k) = Width
      BY <1>1
    <2>2. Pow2[k] \in Nat \ {0} /\ Pow2[Width - k] \in Nat \ {0}
      BY <2>1, Pow2Assumption
    <2>3. Pow2[k] * Pow2[Width - k] = Modulus
      BY <1>1, <2>1, Pow2Assumption DEF Modulus
    <2> QED
      BY <2>2, <2>3
  <1>3. Pow2[1] * Pow2[Width - 1] = Modulus /\ Pow2[Width - 1] \in Nat \ {0}
    BY <1>1, <1>2
  <1>4. Modulus = 2 * Pow2[Width - 1]
    BY <1>3, Pow2Assumption
  <1>5. Modulus \in Nat \ {0, 1}
    BY <1>3, <1>4
  <1> QED
    BY <1>2, <1>5

-----------------------------------------------------------------------------
(* The word operations undo each other. *)

(* Adding and subtracting the same word, in either order, cancel. *)
LEMMA AddSubCancel ==
  ASSUME NEW x \in Word, NEW v \in Word
  PROVE  /\ WrapAdd(x, v) \in Word
         /\ WrapSub(x, v) \in Word
         /\ WrapSub(WrapAdd(x, v), v) = x
         /\ WrapAdd(WrapSub(x, v), v) = x
  <1>1. \A M \in Nat \ {0} : \A y, w \in 0 .. M - 1 :
          /\ (y + w) % M \in 0 .. M - 1
          /\ (y - w) % M \in 0 .. M - 1
          /\ (((y + w) % M) - w) % M = y
          /\ (((y - w) % M) + w) % M = y
    BY SMT
  <1> QED
    BY <1>1, ModulusFacts DEF Word, WrapAdd, WrapSub

(* Complementing twice is the identity. *)
LEMMA NotCancel ==
  ASSUME NEW x \in Word
  PROVE  BitNot(x) \in Word /\ BitNot(BitNot(x)) = x
  BY ModulusFacts DEF Word, BitNot

(* Rotating by P within a modulus P*Q is a bijection; rotating by Q undoes it. *)
LEMMA RotateBack ==
  ASSUME NEW P \in Nat \ {0}, NEW Q \in Nat \ {0}, NEW N, N = P * Q,
         NEW x \in 0 .. N - 1
  PROVE  /\ Rotate(x, P, Q) \in 0 .. N - 1
         /\ Rotate(Rotate(x, P, Q), Q, P) = x
  <1> DEFINE hi == x \div Q
             lo == x % Q
             y  == lo * P + hi
  <1>1. /\ lo \in 0 .. Q - 1
        /\ hi \in Int
        /\ x = hi * Q + lo
    BY DivModSplit
  <1>2. Rotate(x, P, Q) = y /\ Rotate(y, Q, P) = (y % P) * Q + y \div P
    BY DEF Rotate
  <1> HIDE DEF hi, lo
  <1>3. hi \in 0 .. P - 1
    <2>1. hi * Q > -Q /\ hi * Q < P * Q
      BY <1>1
    <2>2. hi > -1
      BY <1>1, <2>1
    <2>3. hi < P
      BY <1>1, <2>1
    <2> QED
      BY <1>1, <2>2, <2>3
  <1>4. y % P = hi /\ y \div P = lo
    <2>1. lo \in Int /\ hi \in 0 .. P - 1
      BY <1>1, <1>3
    <2> QED
      BY <2>1, DivModUnique
  <1>5. y \in Int /\ y >= 0
    BY <1>1, <1>3
  <1>6. y <= N - 1
    <2>1. lo * P <= (Q - 1) * P
      BY <1>1
    <2> QED
      BY <1>1, <1>3, <2>1
  <1> HIDE DEF y
  <1> QED
    BY <1>1, <1>2, <1>4, <1>5, <1>6

(* Rotating left and right by the same amount cancel. *)
LEMMA RotateCancel ==
  ASSUME NEW x \in Word, NEW k \in 0 .. Width
  PROVE  /\ RotateLeft(x, k) \in Word
         /\ RotateRight(x, k) \in Word
         /\ RotateRight(RotateLeft(x, k), k) = x
         /\ RotateLeft(RotateRight(x, k), k) = x
  <1> DEFINE P == Pow2[k]
             Q == Pow2[Width - k]
  <1>1. /\ P \in Nat \ {0}
        /\ Q \in Nat \ {0}
        /\ Modulus = P * Q
        /\ Modulus = Q * P
    BY ModulusFacts
  <1> HIDE DEF P, Q
  <1>2. /\ Rotate(x, P, Q) \in 0 .. Modulus - 1
        /\ Rotate(Rotate(x, P, Q), Q, P) = x
    BY <1>1, RotateBack DEF Word
  <1>3. /\ Rotate(x, Q, P) \in 0 .. Modulus - 1
        /\ Rotate(Rotate(x, Q, P), P, Q) = x
    BY <1>1, RotateBack DEF Word
  <1> QED
    BY <1>2, <1>3 DEF RotateLeft, RotateRight, Word, P, Q

-----------------------------------------------------------------------------
(* mod_inv_odd: each round of Newton's iteration doubles the number of low *)
(* bits in which the candidate is an inverse.                              *)

(* x is an inverse of a up to multiples of D. *)
InverseUpTo(a, x, D) == \E u \in Int : a * x = 1 + u * D

(* One round: from precision D to any D2 that divides both D*D and the modulus. *)
LEMMA NewtonDoubles ==
  ASSUME NEW a \in Word, NEW x \in Word, NEW D \in Nat, NEW D2 \in Nat,
         NEW s \in Int, D * D = s * D2,
         NEW t \in Int, Modulus = t * D2,
         InverseUpTo(a, x, D)
  PROVE  NewtonStep(a, x) \in Word /\ InverseUpTo(a, NewtonStep(a, x), D2)
  <1> DEFINE M == Modulus
             y == WrapMul(a, x)
             z == WrapSub(2, y)
             n == WrapMul(x, z)
  <1>1. M \in Nat \ {0} /\ a \in Int /\ x \in Int
    BY ModulusFacts DEF Word
  <1>2. PICK u \in Int : a * x = 1 + u * D
    BY DEF InverseUpTo
  <1> HIDE DEF M
  <1>3. PICK p \in Int : y = a * x - p * M /\ y \in 0 .. M - 1
    <2>1. a * x \in Int
      BY <1>1
    <2>2. (a * x) % M \in 0 .. M - 1 /\ \E p \in Int : (a * x) % M = a * x - p * M
      BY <1>1, <2>1, ModShift
    <2>3. y = (a * x) % M
      BY DEF y, WrapMul, M
    <2> QED
      BY <2>2, <2>3
  <1> HIDE DEF y
  <1>4. PICK q \in Int : z = 2 - y - q * M /\ z \in 0 .. M - 1
    <2>1. 2 - y \in Int
      BY <1>3
    <2>2. (2 - y) % M \in 0 .. M - 1 /\ \E e \in Int : (2 - y) % M = 2 - y - e * M
      BY <1>1, <2>1, ModShift
    <2>3. z = (2 - y) % M
      BY DEF z, WrapSub, M
    <2> QED
      BY <2>2, <2>3
  <1> HIDE DEF z
  <1>5. PICK r \in Int : n = x * z - r * M /\ n \in 0 .. M - 1
    <2>1. x * z \in Int
      BY <1>1, <1>4
    <2>2. (x * z) % M \in 0 .. M - 1 /\ \E e \in Int : (x * z) % M = x * z - e * M
      BY <1>1, <2>1, ModShift
    <2>3. n = (x * z) % M
      BY DEF n, WrapMul, M
    <2> QED
      BY <2>2, <2>3
  <1> HIDE DEF n
  <1>6. z = 2 - a * x + (p - q) * M
    BY <1>1, <1>3, <1>4
  <1>7. a * n = (a * x) * z - (a * r) * M
    BY <1>1, <1>4, <1>5
  <1>8. (a * x) * z = (1 + u * D) * (1 - u * D) + ((1 + u * D) * (p - q)) * M
    <2>1. z = 1 - u * D + (p - q) * M
      BY <1>1, <1>2, <1>6
    <2> QED
      BY <1>1, <1>2, <2>1
  <1>9. (1 + u * D) * (1 - u * D) = 1 - (u * u * s) * D2
    <2>1. (1 + u * D) * (1 - u * D) = 1 - (u * u) * (D * D)
      BY <1>2
    <2> QED
      BY <1>2, <2>1
  <1>10. a * n = 1 - (u * u * s) * D2 + ((1 + u * D) * (p - q) - a * r) * M
    <2> DEFINE g == (1 + u * D) * (p - q)
               h == a * r
               b == (1 + u * D) * (1 - u * D)
               f == (u * u * s) * D2
    <2>1. g \in Int /\ h \in Int /\ b \in Int /\ f \in Int
      BY <1>1, <1>2, <1>3, <1>4, <1>5
    <2>2. (a * x) * z = b + g * M
      BY <1>8
    <2>3. a * n = (a * x) * z - h * M
      BY <1>7
    <2>4. b = 1 - f
      BY <1>9
    <2> HIDE DEF g, h, b, f
    <2>5. g * M - h * M = (g - h) * M
      BY <1>1, <2>1
    <2>6. a * n = 1 - f + (g - h) * M
      BY <1>1, <2>1, <2>2, <2>3, <2>4, <2>5
    <2> QED
      BY <2>6 DEF g, h, f
  <1>11. \E w \in Int : a * n = 1 + w * D2
    <2> DEFINE e == (1 + u * D) * (p - q) - a * r
               f == u * u * s
    <2>1. e \in Int /\ f \in Int
      BY <1>1, <1>2, <1>3, <1>4, <1>5
    <2>2. a * n = 1 - f * D2 + e * M
      BY <1>10
    <2> HIDE DEF e, f
    <2>3. M = t * D2
      BY DEF M
    <2>4. a * n = 1 + (e * t - f) * D2
      BY <2>1, <2>2, <2>3
    <2>5. e * t - f \in Int
      BY <2>1
    <2> QED
      BY <2>4, <2>5
  <1>12. NewtonStep(a, x) = n
    BY DEF NewtonStep, n, z, y
  <1> QED
    BY <1>5, <1>11, <1>12 DEF InverseUpTo, Word, M

(* The precision reached after doubling i bits, never more than the word. *)
Doubled(i) == IF 2 * i <= Width THEN 2 * i ELSE Width

(* One round takes an inverse modulo 2^i to one modulo 2^Doubled(i). *)
LEMMA NewtonRound ==
  ASSUME NEW a \in Word, NEW x \in Word, NEW i \in 1 .. Width,
         InverseUpTo(a, x, Pow2[i])
  PROVE  /\ NewtonStep(a, x) \in Word
         /\ Doubled(i) \in 1 .. Width
         /\ InverseUpTo(a, NewtonStep(a, x), Pow2[Doubled(i)])
  <1> DEFINE j == Doubled(i)
  <1>1. Width \in 1 .. 64 /\ j \in 1 .. Width /\ i \in 0 .. Width /\ j \in 0 .. Width
    BY SizesAssumption DEF Doubled
  <1>2. Pow2[i] \in Nat \ {0} /\ Pow2[j] \in Nat \ {0}
    BY <1>1, Pow2Assumption
  <1>3. \E t \in Int : Modulus = t * Pow2[j]
    BY <1>1, ModulusFacts
  <1>4. \E s \in Int : Pow2[i] * Pow2[i] = s * Pow2[j]
    <2>1. CASE 2 * i <= Width
      <3>1. j = i + i
        BY <1>1, <2>1 DEF Doubled
      <3>2. Pow2[j] = Pow2[i] * Pow2[i]
        BY <1>1, <2>1, <3>1, Pow2Assumption
      <3>3. Pow2[i] * Pow2[i] = 1 * Pow2[j]
        BY <1>2, <3>2
      <3> QED
        BY <3>3
    <2>2. CASE 2 * i > Width
      <3> DEFINE d == Width - i
                 e == 2 * i - Width
      <3>1. j = Width /\ d \in 0 .. Width /\ e \in 0 .. Width /\ d + e = i /\ i + d = Width
        BY <1>1, <2>2 DEF Doubled
      <3> HIDE DEF d, e
      <3>2. Pow2[i] = Pow2[d] * Pow2[e] /\ Pow2[Width] = Pow2[i] * Pow2[d]
        <4> USE Pow2Assumption
        <4>1. i \in 0 .. Width /\ d \in 0 .. Width /\ e \in 0 .. Width
          BY <1>1, <3>1
        <4>2. d + e <= Width /\ i + d <= Width
          BY <1>1, <3>1
        <4>3. Pow2[d + e] = Pow2[d] * Pow2[e]
          BY <4>1, <4>2
        <4>4. Pow2[i + d] = Pow2[i] * Pow2[d]
          BY <4>1, <4>2
        <4> QED
          BY <3>1, <4>3, <4>4
      <3>3. Pow2[d] \in Nat /\ Pow2[e] \in Nat
        BY <3>1, Pow2Assumption
      <3>4. Pow2[i] * Pow2[i] = Pow2[e] * Pow2[j]
        BY <1>2, <3>1, <3>2, <3>3
      <3> QED
        BY <3>3, <3>4
    <2> QED
      BY <1>1, <2>1, <2>2
  <1> QED
    BY <1>1, <1>2, <1>3, <1>4, NewtonDoubles

(* mod_inv_odd really inverts: six rounds suffice for every odd constant and *)
(* every width up to 64 bits, so MulC(r, mod_inv_odd(m)) undoes MulC(r, m).   *)
THEOREM ModInvOddCorrect ==
  ASSUME NEW a \in Word, a % 2 = 1
  PROVE  ModInvOdd(a) \in Word /\ WrapMul(a, ModInvOdd(a)) = 1
  <1> DEFINE x1 == NewtonStep(a, a)
             x2 == NewtonStep(a, x1)
             x3 == NewtonStep(a, x2)
             x4 == NewtonStep(a, x3)
             x5 == NewtonStep(a, x4)
             x6 == NewtonStep(a, x5)
             d1 == Doubled(1)
             d2 == Doubled(d1)
             d3 == Doubled(d2)
             d4 == Doubled(d3)
             d5 == Doubled(d4)
             d6 == Doubled(d5)
  <1>1. Width \in 1 .. 64 /\ 1 \in 1 .. Width /\ Pow2[1] = 2
    BY SizesAssumption, Pow2Assumption
  <1>2. InverseUpTo(a, a, Pow2[1])
    <2>1. a \in Int /\ a \div 2 \in Int /\ a = 2 * (a \div 2) + 1
      BY ModulusFacts DEF Word
    <2> DEFINE h == a \div 2
               u == 2 * h * h + 2 * h
    <2>2. h \in Int /\ a = 2 * h + 1
      BY <2>1
    <2> HIDE DEF h
    <2>3. a * a = 1 + u * 2 /\ u \in Int
      BY <2>2
    <2> HIDE DEF u
    <2> QED
      BY <1>1, <2>3 DEF InverseUpTo
  <1>3. x1 \in Word /\ d1 \in 1 .. Width /\ InverseUpTo(a, x1, Pow2[d1])
    BY <1>1, <1>2, NewtonRound
  <1> HIDE DEF x1
  <1>4. x2 \in Word /\ d2 \in 1 .. Width /\ InverseUpTo(a, x2, Pow2[d2])
    BY <1>3, NewtonRound
  <1> HIDE DEF x2
  <1>5. x3 \in Word /\ d3 \in 1 .. Width /\ InverseUpTo(a, x3, Pow2[d3])
    BY <1>4, NewtonRound
  <1> HIDE DEF x3
  <1>6. x4 \in Word /\ d4 \in 1 .. Width /\ InverseUpTo(a, x4, Pow2[d4])
    BY <1>5, NewtonRound
  <1> HIDE DEF x4
  <1>7. x5 \in Word /\ d5 \in 1 .. Width /\ InverseUpTo(a, x5, Pow2[d5])
    BY <1>6, NewtonRound
  <1> HIDE DEF x5
  <1>8. x6 \in Word /\ d6 \in 1 .. Width /\ InverseUpTo(a, x6, Pow2[d6])
    BY <1>7, NewtonRound
  <1> HIDE DEF x6
  <1>9. d6 = Width
    BY <1>1 DEF Doubled
  <1> HIDE DEF d6
  <1>10. PICK u \in Int : a * x6 = 1 + u * Modulus
    BY <1>8, <1>9 DEF InverseUpTo, Modulus
  <1>11. (u * Modulus + 1) % Modulus = 1
    <2>1. 1 \in 0 .. Modulus - 1 /\ Modulus \in Nat \ {0}
      BY ModulusFacts
    <2> QED
      BY <1>10, <2>1, DivModUnique
  <1>12. a * x6 = u * Modulus + 1
    BY <1>10, ModulusFacts
  <1>13. ModInvOdd(a) = x6
    BY DEF ModInvOdd, x1, x2, x3, x4, x5, x6
  <1> QED
    BY <1>8, <1>11, <1>12, <1>13 DEF WrapMul

-----------------------------------------------------------------------------
(* From words to instructions. *)

(* The operations that compute a new value for one destination. *)
CombineOps == UnaryOps \union {"xor", "add", "sub"} \union MemDstOps \union MemSrcOps

(* The immediate of the inverse instruction. *)
InverseImm(op, k) == IF op = "mulc" THEN ModInvOdd(k) ELSE k

(* Multiplying by an odd constant and by its inverse cancel. *)
LEMMA MulCancel ==
  ASSUME NEW x \in Word, NEW m \in Word, m % 2 = 1
  PROVE  /\ WrapMul(x, m) \in Word
         /\ WrapMul(WrapMul(x, m), ModInvOdd(m)) = x
  <1> DEFINE M == Modulus
             v == ModInvOdd(m)
             y == WrapMul(x, m)
  <1>1. M \in Nat \ {0, 1} /\ x \in 0 .. M - 1 /\ m \in Int /\ x \in Int
    BY ModulusFacts DEF Word
  <1>2. v \in Int /\ WrapMul(m, v) = 1
    BY ModInvOddCorrect DEF Word
  <1> HIDE DEF v, M
  <1>3. PICK p \in Int : 1 = m * v - p * M
    <2>1. m * v \in Int
      BY <1>1, <1>2
    <2>2. \E p \in Int : (m * v) % M = m * v - p * M
      BY <1>1, <2>1, ModShift
    <2> QED
      BY <1>2, <2>2 DEF WrapMul, M
  <1>4. PICK q \in Int : y = x * m - q * M /\ y \in 0 .. M - 1
    <2>1. x * m \in Int
      BY <1>1
    <2>2. (x * m) % M \in 0 .. M - 1 /\ \E q \in Int : (x * m) % M = x * m - q * M
      BY <1>1, <2>1, ModShift
    <2>3. y = (x * m) % M
      BY DEF WrapMul, M
    <2> QED
      BY <2>2, <2>3
  <1> HIDE DEF y
  <1>5. y * v = (x * p - q * v) * M + x
    <2>1. y * v = x * (m * v) - (q * v) * M
      BY <1>1, <1>2, <1>4
    <2>2. m * v = 1 + p * M
      BY <1>1, <1>2, <1>3
    <2>3. x * (m * v) = x + (x * p) * M
      BY <1>1, <1>3, <2>2
    <2> DEFINE g == x * p
               h == q * v
               e == x * (m * v)
    <2>4. g \in Int /\ h \in Int /\ e \in Int
      BY <1>1, <1>2, <1>3, <1>4
    <2>5. y * v = e - h * M
      BY <2>1
    <2>6. e = x + g * M
      BY <2>3
    <2> HIDE DEF g, h, e
    <2>7. y * v = (g - h) * M + x
      BY <1>1, <2>4, <2>5, <2>6
    <2> QED
      BY <2>7 DEF g, h
  <1>6. x * p - q * v \in Int
    BY <1>1, <1>2, <1>3, <1>4
  <1>7. ((x * p - q * v) * M + x) % M = x
    BY <1>1, <1>6, DivModUnique
  <1>8. WrapMul(y, v) = x
    BY <1>5, <1>7 DEF WrapMul, M
  <1> QED
    BY <1>4, <1>8 DEF y, v, Word, M

(* The inverse of an odd constant is odd, and has the constant for its         *)
(* inverse.                                                                  *)
LEMMA InverseConstant ==
  ASSUME NEW a \in Word, a % 2 = 1
  PROVE  ModInvOdd(a) \in Word /\ ModInvOdd(a) % 2 = 1 /\ ModInvOdd(ModInvOdd(a)) = a
  <1>1. PICK v \in Word : v = ModInvOdd(a) /\ WrapMul(a, v) = 1
    BY ModInvOddCorrect
  <1>2. PICK h \in Nat \ {0} : Modulus = 2 * h
    <2>1. Width \in Nat /\ 1 \in 0 .. Width /\ Width - 1 \in 0 .. Width
      BY SizesAssumption
    <2>2. Pow2[1] * Pow2[Width - 1] = Modulus /\ Pow2[Width - 1] \in Nat \ {0}
      BY <2>1, ModulusFacts
    <2> QED
      BY <2>2, Pow2Assumption
  <1>3. v % 2 = 1
    <2>1. a \in Int /\ v \in Int /\ a * v \in Int /\ Modulus \in Nat \ {0}
      BY ModulusFacts DEF Word
    <2>2. PICK p \in Int : 1 = a * v - p * Modulus
      <3>1. \E p \in Int : (a * v) % Modulus = a * v - p * Modulus
        BY <2>1, ModShift
      <3> QED
        BY <1>1, <3>1 DEF WrapMul
    <2>3. p * Modulus = 2 * (p * h)
      BY <1>2
    <2>4. PICK e \in Int : e = p * h
      OBVIOUS
    <2>5. a * v = 1 + 2 * e
      BY <2>1, <2>2, <2>3, <2>4
    <2>6. CASE v % 2 = 0
      <3>1. PICK w \in Int : v = 2 * w
        BY <2>1, <2>6
      <3>2. a * v = 2 * (a * w)
        BY <2>1, <3>1
      <3>3. PICK x \in Int : x = a * w
        BY <2>1
      <3>4. 2 * x = 1 + 2 * e
        BY <2>5, <3>2, <3>3
      <3> QED
        BY <3>4
    <2> QED
      BY <2>1, <2>6
  <1>4. WrapMul(WrapMul(a, v), ModInvOdd(v)) = a
    BY <1>3, MulCancel
  <1>5. ModInvOdd(v) \in Word
    BY <1>3, ModInvOddCorrect
  <1>6. WrapMul(1, ModInvOdd(v)) = ModInvOdd(v)
    BY <1>5, ModulusFacts DEF WrapMul, Word
  <1> QED
    BY <1>1, <1>3, <1>4, <1>6

(* A computed value is a word. *)
LEMMA CombineWord ==
  ASSUME NEW op \in CombineOps, NEW d \in Word, NEW v \in Word, NEW k \in Word
  PROVE  Combine(op, d, v, k) \in Word
  <1> USE DEF CombineOps, UnaryOps, MemDstOps, MemSrcOps, Combine
  <1>1. 1 \in Word /\ Modulus \in Nat \ {0, 1} /\ Width \in 1 .. 64
    BY ModulusFacts, SizesAssumption DEF Word
  <1>2. k % Width \in 0 .. Width
    BY <1>1 DEF Word
  <1>3. CASE op = "not"
    BY <1>3, NotCancel
  <1>4. CASE op \in {"inc", "dec"}
    BY <1>1, <1>4, AddSubCancel
  <1>5. CASE op \in {"rotl", "rotr"}
    BY <1>2, <1>5, RotateCancel
  <1>6. CASE op = "mulc"
    BY <1>1, <1>6 DEF Word, WrapMul
  <1>7. CASE op = "set"
    BY <1>7
  <1>8. CASE op \in {"xor", "mxor"}
    BY <1>8, BitLaws
  <1>9. CASE op \in {"add", "madd", "rmadd", "sub", "msub", "rmsub"}
    BY <1>9, AddSubCancel
  <1> QED
    BY <1>3, <1>4, <1>5, <1>6, <1>7, <1>8, <1>9

(* The inverse operation with the same source gives the old value back. *)
LEMMA CombineCancel ==
  ASSUME NEW op \in CombineOps, op # "set",
         NEW d \in Word, NEW v \in Word, NEW k \in Word,
         op = "mulc" => k % 2 # 0
  PROVE  Combine(InverseOp[op], Combine(op, d, v, k), v, InverseImm(op, k)) = d
  <1> USE DEF CombineOps, UnaryOps, MemDstOps, MemSrcOps, Combine, InverseImm
  <1>1. 1 \in Word /\ Modulus \in Nat \ {0, 1} /\ Width \in 1 .. 64
    BY ModulusFacts, SizesAssumption DEF Word
  <1>2. k % Width \in 0 .. Width
    BY <1>1 DEF Word
  <1>3. op \in Ops
    BY DEF Ops, BinaryOps
  <1>4. CASE op = "not"
    BY <1>3, <1>4, NotCancel DEF InverseOp
  <1>5. CASE op = "inc"
    BY <1>1, <1>3, <1>5, AddSubCancel DEF InverseOp
  <1>6. CASE op = "dec"
    BY <1>1, <1>3, <1>6, AddSubCancel DEF InverseOp
  <1>7. CASE op = "rotl"
    BY <1>2, <1>3, <1>7, RotateCancel DEF InverseOp
  <1>8. CASE op = "rotr"
    BY <1>2, <1>3, <1>8, RotateCancel DEF InverseOp
  <1>9. CASE op = "mulc"
    <2>1. k % 2 = 1
      BY <1>1, <1>9 DEF Word
    <2> QED
      BY <1>3, <1>9, <2>1, MulCancel DEF InverseOp
  <1>10. CASE op \in {"xor", "mxor"}
    BY <1>3, <1>10, BitLaws DEF InverseOp
  <1>11. CASE op \in {"add", "madd", "rmadd"}
    BY <1>3, <1>11, AddSubCancel DEF InverseOp
  <1>12. CASE op \in {"sub", "msub", "rmsub"}
    BY <1>3, <1>12, AddSubCancel DEF InverseOp
  <1> QED
    BY <1>4, <1>5, <1>6, <1>7, <1>8, <1>9, <1>10, <1>11, <1>12

-----------------------------------------------------------------------------
(* Instructions on states. *)

(* States over any registers and any memory: programs make states of their   *)
(* own sizes.                                                                *)
Shape(R, M) == [regs : [R -> Word], mem : [M -> Word]]

Fits(R, M, s, i) == RegOperands(i) \subseteq R /\ MemOperands(s, i) \subseteq M

(* Writing one register keeps the state well formed and touches nothing     *)
(* else, and writing the old value back restores the state.                 *)
LEMMA WriteReg ==
  ASSUME NEW R, NEW M, NEW s \in Shape(R, M), NEW r \in R, NEW v \in Word
  PROVE  /\ SetReg(s, r, v) \in Shape(R, M)
         /\ SetReg(s, r, v).regs[r] = v
         /\ \A q \in R : q # r => SetReg(s, r, v).regs[q] = s.regs[q]
         /\ SetReg(s, r, v).mem = s.mem
         /\ SetReg(SetReg(s, r, v), r, s.regs[r]) = s
  BY DEF Shape, SetReg

(* The same of writing one memory word. *)
LEMMA WriteMem ==
  ASSUME NEW R, NEW M, NEW s \in Shape(R, M), NEW m \in M, NEW v \in Word
  PROVE  /\ SetMem(s, m, v) \in Shape(R, M)
         /\ SetMem(s, m, v).mem[m] = v
         /\ SetMem(s, m, v).regs = s.regs
         /\ SetMem(SetMem(s, m, v), m, s.mem[m]) = s
  BY DEF Shape, SetMem

(* Swapping two registers keeps the state well formed and undoes itself. *)
LEMMA SwapBack ==
  ASSUME NEW R, NEW M, NEW s \in Shape(R, M), NEW p \in R, NEW q \in R
  PROVE  /\ SwapRegs(s, p, q) \in Shape(R, M)
         /\ SwapRegs(SwapRegs(s, p, q), p, q) = s
         /\ \A r \in R \ {p, q} : SwapRegs(s, p, q).regs[r] = s.regs[r]
  BY DEF Shape, SwapRegs

(* An instruction whose operands are in range maps states to states. *)
LEMMA ShapeState ==
  ASSUME NEW R, NEW M, NEW s \in Shape(R, M), NEW i \in Inst, Fits(R, M, s, i)
  PROVE  Exec(s, i) \in Shape(R, M)
  <1> USE DEF Inst, Ops, UnaryOps, BinaryOps, TernaryOps, MemDstOps, MemSrcOps
  <1>1. 0 \in Word /\ i.k \in Word
    BY ModulusFacts DEF Word
  <1>2. CASE i.op \in UnaryOps
    <2>1. i.a \in R /\ s.regs[i.a] \in Word
      BY <1>2 DEF Fits, RegOperands, Shape
    <2>2. Combine(i.op, s.regs[i.a], 0, i.k) \in Word
      BY <1>1, <1>2, <2>1, CombineWord DEF CombineOps
    <2> QED
      BY <1>2, <2>1, <2>2, WriteReg DEF Exec
  <1>3. CASE i.op \in {"xor", "add", "sub"}
    <2>1. i.a \in R /\ s.regs[i.a] \in Word /\ s.regs[i.b] \in Word
      BY <1>3 DEF Fits, RegOperands, Shape
    <2>2. Combine(i.op, s.regs[i.a], s.regs[i.b], i.k) \in Word
      BY <1>1, <1>3, <2>1, CombineWord DEF CombineOps
    <2> QED
      BY <1>3, <2>1, <2>2, WriteReg DEF Exec
  <1>4. CASE i.op \in MemSrcOps
    <2>1. i.a \in R /\ s.regs[i.a] \in Word /\ s.mem[s.regs[i.b]] \in Word
      BY <1>4 DEF Fits, RegOperands, MemOperands, Shape
    <2>2. Combine(i.op, s.regs[i.a], s.mem[s.regs[i.b]], i.k) \in Word
      BY <1>1, <1>4, <2>1, CombineWord DEF CombineOps
    <2> QED
      BY <1>4, <2>1, <2>2, WriteReg DEF Exec
  <1>5. CASE i.op \in MemDstOps
    <2>1. s.regs[i.a] \in M /\ s.mem[s.regs[i.a]] \in Word /\ s.regs[i.b] \in Word
      BY <1>5 DEF Fits, RegOperands, MemOperands, Shape
    <2>2. Combine(i.op, s.mem[s.regs[i.a]], s.regs[i.b], i.k) \in Word
      BY <1>1, <1>5, <2>1, CombineWord DEF CombineOps
    <2> QED
      BY <1>5, <2>1, <2>2, WriteMem DEF Exec
  <1>6. CASE i.op = "swp"
    BY <1>6, SwapBack DEF Exec, Fits, RegOperands
  <1>7. CASE i.op = "toff"
    <2>1. i.a \in R /\ i.b \in R /\ i.c \in R
      BY <1>7 DEF Fits, RegOperands
    <2>2. BitXor(s.regs[i.c], BitAnd(s.regs[i.a], s.regs[i.b])) \in Word
      BY <2>1, BitLaws DEF Shape
    <2> QED
      BY <1>7, <2>1, <2>2, WriteReg DEF Exec
  <1>8. CASE i.op = "cswp"
    BY <1>8, SwapBack DEF Exec, Fits, RegOperands
  <1>9. CASE i.op = "mset"
    BY <1>1, <1>9, WriteMem DEF Exec, Fits, MemOperands
  <1>10. CASE i.op = "nop"
    BY <1>10 DEF Exec
  <1> QED
    BY <1>2, <1>3, <1>4, <1>5, <1>6, <1>7, <1>8, <1>9, <1>10

(* The inverse of an invertible instruction is an instruction. *)
LEMMA InverseInst ==
  ASSUME NEW i \in Inst, Invertible(i)
  PROVE  /\ Inverse(i) \in Inst
         /\ Inverse(i).op = InverseOp[i.op]
         /\ Inverse(i).a = i.a /\ Inverse(i).b = i.b /\ Inverse(i).c = i.c
         /\ Inverse(i).k = InverseImm(i.op, i.k)
  <1>1. InverseOp[i.op] \in Ops
    BY DEF Inst, Ops, UnaryOps, BinaryOps, TernaryOps, MemDstOps, MemSrcOps, InverseOp
  <1>2. InverseImm(i.op, i.k) \in Word
    <2>1. i.op = "mulc" => i.k % 2 = 1
      <3>1. i.k \in Int /\ (i.op = "mulc" => i.k % 2 # 0)
        BY ModulusFacts DEF Inst, Invertible, OperandAlias, Word
      <3> QED
        BY <3>1
    <2> QED
      BY <2>1, ModInvOddCorrect DEF Inst, InverseImm
  <1> QED
    BY <1>1, <1>2 DEF Inverse, InverseImm, Inst

(* The inverse of an invertible instruction is invertible, and has the         *)
(* instruction for its inverse.                                              *)
LEMMA InverseTwice ==
  ASSUME NEW i \in Inst, Invertible(i)
  PROVE  Invertible(Inverse(i)) /\ Inverse(Inverse(i)) = i
  <1> USE DEF Ops, UnaryOps, BinaryOps, TernaryOps, MemDstOps, MemSrcOps
  <1>1. PICK j \in Inst :
          /\ j = Inverse(i) /\ j.op = InverseOp[i.op]
          /\ j.a = i.a /\ j.b = i.b /\ j.c = i.c /\ j.k = InverseImm(i.op, i.k)
    BY InverseInst
  <1>2. /\ i.op \in Ops \ {"set", "mset"} /\ i.k \in Word
        /\ i.op = "mulc" => i.k % 2 = 1
    <2>1. /\ i.op \in Ops \ {"set", "mset"} /\ i.k \in Word
          /\ i.op = "mulc" => i.k % 2 # 0
      BY DEF Inst, Invertible, IsIrreversible, IrreversibleOps, OperandAlias
    <2>2. i.k \in Int
      BY <2>1, ModulusFacts DEF Word
    <2> QED
      BY <2>1, <2>2
  <1>3. /\ j.op \in Ops \ {"set", "mset"} /\ InverseOp[j.op] = i.op
        /\ j.op = "mulc" <=> i.op = "mulc"
        /\ j.op \in {"xor", "add", "sub"} <=> i.op \in {"xor", "add", "sub"}
        /\ j.op = "toff" <=> i.op = "toff"
        /\ j.op = "cswp" <=> i.op = "cswp"
        /\ j.op \in MemDstOps \union MemSrcOps <=> i.op \in MemDstOps \union MemSrcOps
    BY <1>1, <1>2 DEF InverseOp
  <1>4. i.op = "mulc" => j.k % 2 = 1 /\ ModInvOdd(j.k) = i.k
    BY <1>1, <1>2, InverseConstant DEF InverseImm
  <1>5. InverseImm(j.op, j.k) = i.k
    BY <1>1, <1>3, <1>4 DEF InverseImm
  <1> HIDE DEF Ops, UnaryOps, BinaryOps, TernaryOps, MemDstOps, MemSrcOps
  <1>6. Invertible(j)
    <2>1. ~OperandAlias(i)
      BY DEF Invertible
    <2>2. ~OperandAlias(j)
      <3>1. ~(j.op \in {"xor", "add", "sub"} /\ j.a = j.b)
        BY <1>1, <1>3, <2>1 DEF OperandAlias
      <3>2. ~(j.op = "toff" /\ (j.c = j.a \/ j.c = j.b))
        BY <1>1, <1>3, <2>1 DEF OperandAlias
      <3>3. ~(j.op = "cswp" /\ (j.a = j.b \/ j.a = j.c))
        BY <1>1, <1>3, <2>1 DEF OperandAlias
      <3>4. ~(j.op \in MemDstOps \union MemSrcOps /\ j.a = j.b)
        BY <1>1, <1>3, <2>1 DEF OperandAlias
      <3>5. ~(j.op = "mulc" /\ j.k % 2 = 0)
        BY <1>3, <1>4
      <3> QED
        BY <3>1, <3>2, <3>3, <3>4, <3>5 DEF OperandAlias
    <2> QED
      BY <1>3, <2>2 DEF Invertible, IsIrreversible, IrreversibleOps
  <1>7. Inverse(j) = i
    <2>1. PICK l \in Inst : /\ l = Inverse(j) /\ l.op = InverseOp[j.op]
            /\ l.a = j.a /\ l.b = j.b /\ l.c = j.c /\ l.k = InverseImm(j.op, j.k)
      BY <1>6, InverseInst
    <2>2. l.op = i.op /\ l.a = i.a /\ l.b = i.b /\ l.c = i.c /\ l.k = i.k
      BY <1>1, <1>3, <1>5, <2>1
    <2> QED
      BY <2>1, <2>2 DEF Inst
  <1> QED
    BY <1>1, <1>6, <1>7
(* F^-1(F(S)) = S, one instruction at a time: after an invertible            *)
(* instruction its inverse is in range and restores the state bit for bit.   *)
LEMMA ShapeCancel ==
  ASSUME NEW R, NEW M, NEW s \in Shape(R, M), NEW i \in Inst, Fits(R, M, s, i), Invertible(i)
  PROVE  /\ Inverse(i) \in Inst
         /\ Fits(R, M, Exec(s, i), Inverse(i))
         /\ Exec(Exec(s, i), Inverse(i)) = s
  <1> DEFINE t == Exec(s, i)
             j == Inverse(i)
  <1>1. /\ j \in Inst
        /\ j.op = InverseOp[i.op]
        /\ j.a = i.a /\ j.b = i.b /\ j.c = i.c
        /\ j.k = InverseImm(i.op, i.k)
    BY InverseInst
  <1> HIDE DEF j
  <1> SUFFICES Fits(R, M, t, j) /\ Exec(t, j) = s
    BY <1>1 DEF j
  <1> USE DEF Ops, UnaryOps, BinaryOps, TernaryOps, MemDstOps, MemSrcOps
  <1>2. /\ i.op \in Ops /\ i.k \in Word /\ 0 \in Word
        /\ i.op \notin {"set", "mset"}
        /\ i.op = "mulc" => i.k % 2 # 0
    BY ModulusFacts DEF Inst, Word, Invertible, IsIrreversible, IrreversibleOps, OperandAlias
  <1>3. CASE i.op \in UnaryOps
    <2> DEFINE d == s.regs[i.a]
               e == Combine(i.op, d, 0, i.k)
    <2>1. i.a \in R /\ d \in Word
      BY <1>3 DEF Fits, RegOperands, Shape
    <2>2. e \in Word /\ Combine(j.op, e, 0, j.k) = d
      <3>1. i.op \in CombineOps /\ i.op # "set"
        BY <1>2, <1>3 DEF CombineOps
      <3> HIDE DEF UnaryOps, MemDstOps, MemSrcOps, d
      <3>2. e \in Word /\ Combine(InverseOp[i.op], e, 0, InverseImm(i.op, i.k)) = d
        BY <1>2, <2>1, <3>1, CombineWord, CombineCancel
      <3> QED
        BY <1>1, <3>2
    <2>3. j.op \in UnaryOps
      BY <1>1, <1>2, <1>3 DEF InverseOp
    <2> HIDE DEF e
    <2>4. t = SetReg(s, i.a, e)
      BY <1>3 DEF Exec, e
    <2> HIDE DEF t
    <2>5. t \in Shape(R, M) /\ t.regs[i.a] = e
      <3>1. SetReg(s, i.a, e) \in Shape(R, M) /\ SetReg(s, i.a, e).regs[i.a] = e
        BY <2>1, <2>2, WriteReg
      <3> QED
        BY <2>4, <3>1
    <2>6. Exec(t, j) = SetReg(t, i.a, d)
      BY <1>1, <2>2, <2>3, <2>5 DEF Exec
    <2>7. Exec(t, j) = s
      BY <2>1, <2>2, <2>4, <2>6, WriteReg
    <2>8. Fits(R, M, t, j)
      BY <1>1, <2>1, <2>3 DEF Fits, RegOperands, MemOperands
    <2> QED
      BY <2>7, <2>8
  <1>4. CASE i.op \in {"xor", "add", "sub"}
    <2> DEFINE d == s.regs[i.a]
               v == s.regs[i.b]
               e == Combine(i.op, d, v, i.k)
    <2>1. i.a \in R /\ i.b \in R /\ i.a # i.b /\ d \in Word /\ v \in Word
      BY <1>4 DEF Fits, RegOperands, Shape, Invertible, OperandAlias
    <2>2. e \in Word /\ Combine(j.op, e, v, j.k) = d
      <3>1. i.op \in CombineOps /\ i.op # "set"
        BY <1>2, <1>4 DEF CombineOps
      <3> HIDE DEF UnaryOps, MemDstOps, MemSrcOps, d, v
      <3>2. e \in Word /\ Combine(InverseOp[i.op], e, v, InverseImm(i.op, i.k)) = d
        BY <1>2, <2>1, <3>1, CombineWord, CombineCancel
      <3> QED
        BY <1>1, <3>2
    <2>3. j.op \in {"xor", "add", "sub"}
      BY <1>1, <1>2, <1>4 DEF InverseOp
    <2> HIDE DEF e
    <2>4. t = SetReg(s, i.a, e)
      BY <1>4 DEF Exec, e
    <2> HIDE DEF t
    <2>5. t \in Shape(R, M) /\ t.regs[i.a] = e /\ t.regs[i.b] = v
      <3>1. /\ SetReg(s, i.a, e) \in Shape(R, M)
            /\ SetReg(s, i.a, e).regs[i.a] = e
            /\ SetReg(s, i.a, e).regs[i.b] = s.regs[i.b]
        BY <2>1, <2>2, WriteReg
      <3> QED
        BY <2>4, <3>1
    <2>6. Exec(t, j) = SetReg(t, i.a, d)
      BY <1>1, <2>2, <2>3, <2>5 DEF Exec
    <2>7. Exec(t, j) = s
      BY <2>1, <2>2, <2>4, <2>6, WriteReg
    <2>8. Fits(R, M, t, j)
      BY <1>1, <2>1, <2>3 DEF Fits, RegOperands, MemOperands
    <2> QED
      BY <2>7, <2>8
  <1>5. CASE i.op \in MemSrcOps
    <2> DEFINE d == s.regs[i.a]
               m == s.regs[i.b]
               v == s.mem[m]
               e == Combine(i.op, d, v, i.k)
    <2>1. /\ i.a \in R /\ i.b \in R /\ i.a # i.b /\ m \in M
          /\ d \in Word /\ v \in Word
      BY <1>5 DEF Fits, RegOperands, MemOperands, Shape, Invertible, OperandAlias
    <2>2. e \in Word /\ Combine(j.op, e, v, j.k) = d
      <3>1. i.op \in CombineOps /\ i.op # "set"
        BY <1>2, <1>5 DEF CombineOps
      <3> HIDE DEF UnaryOps, MemDstOps, MemSrcOps, d, v
      <3>2. e \in Word /\ Combine(InverseOp[i.op], e, v, InverseImm(i.op, i.k)) = d
        BY <1>2, <2>1, <3>1, CombineWord, CombineCancel
      <3> QED
        BY <1>1, <3>2
    <2>3. j.op \in MemSrcOps
      BY <1>1, <1>2, <1>5 DEF InverseOp
    <2>4. t = SetReg(s, i.a, e) /\ s.regs[i.b] = m /\ s.mem[m] = v /\ s.regs[i.a] = d
      BY <1>5 DEF Exec
    <2> HIDE DEF d, m, v, e
    <2> HIDE DEF t
    <2>5. t \in Shape(R, M) /\ t.regs[i.a] = e /\ t.regs[i.b] = m /\ t.mem = s.mem
      <3> DEFINE u == SetReg(s, i.a, e)
      <3>1. i.a \in R /\ e \in Word
        BY <2>1, <2>2
      <3>2. u \in Shape(R, M) /\ u.regs[i.a] = e /\ u.mem = s.mem
        BY <3>1, WriteReg
      <3>3. \A q \in R : q # i.a => u.regs[q] = s.regs[q]
        BY <3>1, WriteReg
      <3>4. u.regs[i.b] = s.regs[i.b]
        BY <2>1, <3>3
      <3> QED
        BY <2>4, <3>2, <3>4
    <2>6. Exec(t, j) = SetReg(t, i.a, d)
      BY <1>1, <2>2, <2>3, <2>4, <2>5 DEF Exec
    <2>7. Exec(t, j) = s
      BY <2>1, <2>2, <2>4, <2>6, WriteReg
    <2>8. Fits(R, M, t, j)
      BY <1>1, <2>1, <2>3, <2>4, <2>5 DEF Fits, RegOperands, MemOperands
    <2> QED
      BY <2>7, <2>8
  <1>6. CASE i.op \in MemDstOps
    <2> DEFINE m == s.regs[i.a]
               d == s.mem[m]
               v == s.regs[i.b]
               e == Combine(i.op, d, v, i.k)
    <2>1. i.a \in R /\ i.b \in R /\ m \in M /\ d \in Word /\ v \in Word
      BY <1>6 DEF Fits, RegOperands, MemOperands, Shape
    <2>2. e \in Word /\ Combine(j.op, e, v, j.k) = d
      <3>1. i.op \in CombineOps /\ i.op # "set"
        BY <1>2, <1>6 DEF CombineOps
      <3> HIDE DEF UnaryOps, MemDstOps, MemSrcOps, d, v
      <3>2. e \in Word /\ Combine(InverseOp[i.op], e, v, InverseImm(i.op, i.k)) = d
        BY <1>2, <2>1, <3>1, CombineWord, CombineCancel
      <3> QED
        BY <1>1, <3>2
    <2>3. j.op \in MemDstOps
      BY <1>1, <1>2, <1>6 DEF InverseOp
    <2>4. t = SetMem(s, m, e) /\ s.regs[i.a] = m /\ s.regs[i.b] = v /\ s.mem[m] = d
      BY <1>6 DEF Exec
    <2> HIDE DEF d, m, v, e
    <2> HIDE DEF t
    <2>5. t \in Shape(R, M) /\ t.mem[m] = e /\ t.regs = s.regs
      <3>1. SetMem(s, m, e) \in Shape(R, M) /\ SetMem(s, m, e).mem[m] = e /\ SetMem(s, m, e).regs = s.regs
        BY <2>1, <2>2, WriteMem
      <3> QED
        BY <2>4, <3>1
    <2>6. Exec(t, j) = SetMem(t, m, d)
      BY <1>1, <2>2, <2>3, <2>4, <2>5 DEF Exec
    <2>7. Exec(t, j) = s
      BY <2>1, <2>2, <2>4, <2>6, WriteMem
    <2>8. Fits(R, M, t, j)
      BY <1>1, <2>1, <2>3, <2>4, <2>5 DEF Fits, RegOperands, MemOperands
    <2> QED
      BY <2>7, <2>8
  <1>7. CASE i.op = "swp"
    <2>1. i.a \in R /\ i.b \in R /\ j.op = "swp" /\ t = SwapRegs(s, i.a, i.b)
      BY <1>1, <1>2, <1>7 DEF Fits, RegOperands, Exec, InverseOp
    <2> HIDE DEF t
    <2>2. Exec(t, j) = SwapRegs(t, i.a, i.b) /\ Fits(R, M, t, j)
      BY <1>1, <2>1 DEF Exec, Fits, RegOperands, MemOperands
    <2> QED
      BY <2>1, <2>2, SwapBack
  <1>8. CASE i.op = "toff"
    <2> DEFINE v == BitAnd(s.regs[i.a], s.regs[i.b])
               e == BitXor(s.regs[i.c], v)
    <2>1. /\ i.a \in R /\ i.b \in R /\ i.c \in R /\ i.c # i.a /\ i.c # i.b
          /\ j.op = "toff"
      BY <1>1, <1>2, <1>8
         DEF Fits, RegOperands, InverseOp, Invertible, OperandAlias
    <2>2. v \in Word /\ e \in Word /\ BitXor(e, v) = s.regs[i.c]
      BY <2>1, BitLaws DEF Shape
    <2>3. t = SetReg(s, i.c, e)
      BY <1>8 DEF Exec
    <2> HIDE DEF v, e
    <2> HIDE DEF t
    <2>4. t.regs[i.c] = e /\ t.regs[i.a] = s.regs[i.a] /\ t.regs[i.b] = s.regs[i.b]
      <3> DEFINE u == SetReg(s, i.c, e)
      <3>1. u.regs[i.c] = e /\ \A q \in R : q # i.c => u.regs[q] = s.regs[q]
        BY <2>1, <2>2, WriteReg
      <3>2. u.regs[i.a] = s.regs[i.a] /\ u.regs[i.b] = s.regs[i.b]
        BY <2>1, <3>1
      <3> QED
        BY <2>3, <3>1, <3>2
    <2>5. Exec(t, j) = SetReg(t, i.c, s.regs[i.c]) /\ Fits(R, M, t, j)
      BY <1>1, <2>1, <2>2, <2>4 DEF Exec, v, Fits, RegOperands, MemOperands
    <2> QED
      BY <2>1, <2>2, <2>3, <2>5, WriteReg
  <1>9. CASE i.op = "cswp"
    <2>1. /\ i.a \in R /\ i.b \in R /\ i.c \in R /\ i.a # i.b /\ i.a # i.c
          /\ j.op = "cswp"
      BY <1>1, <1>2, <1>9
         DEF Fits, RegOperands, InverseOp, Invertible, OperandAlias
    <2>2. t = IF s.regs[i.a] % 2 = 1 THEN SwapRegs(s, i.b, i.c) ELSE s
      BY <1>9 DEF Exec
    <2> HIDE DEF t
    <2>3. Exec(t, j) = (IF t.regs[i.a] % 2 = 1 THEN SwapRegs(t, i.b, i.c) ELSE t)
      BY <1>1, <2>1 DEF Exec
    <2>4. t.regs[i.a] = s.regs[i.a]
      BY <2>1, <2>2, SwapBack
    <2>5. Fits(R, M, t, j)
      BY <1>1, <2>1 DEF Fits, RegOperands, MemOperands
    <2> QED
      BY <2>1, <2>2, <2>3, <2>4, <2>5, SwapBack
  <1>10. CASE i.op = "nop"
    BY <1>1, <1>2, <1>10 DEF Exec, Fits, RegOperands, MemOperands, InverseOp
  <1> QED
    BY <1>2, <1>3, <1>4, <1>5, <1>6, <1>7, <1>8, <1>9, <1>10

LEMMA StateShape == State = Shape(Reg, Addr)
  BY DEF State, Shape

(* An instruction whose operands are in range maps states to states. *)
LEMMA ExecState ==
  ASSUME NEW s \in State, NEW i \in Inst, InRange(s, i)
  PROVE  Exec(s, i) \in State
  <1>1. s \in Shape(Reg, Addr) /\ Fits(Reg, Addr, s, i)
    BY StateShape DEF InRange, Fits
  <1> QED
    BY <1>1, StateShape, ShapeState

(* F^-1(F(S)) = S, one instruction at a time: after an invertible            *)
(* instruction its inverse is in range and restores the state bit for bit.   *)
THEOREM ExecCancel ==
  ASSUME NEW s \in State, NEW i \in Inst, InRange(s, i), Invertible(i)
  PROVE  /\ Inverse(i) \in Inst
         /\ InRange(Exec(s, i), Inverse(i))
         /\ Exec(Exec(s, i), Inverse(i)) = s
  <1>1. s \in Shape(Reg, Addr) /\ Fits(Reg, Addr, s, i)
    BY StateShape DEF InRange, Fits
  <1>2. /\ Inverse(i) \in Inst
        /\ Fits(Reg, Addr, Exec(s, i), Inverse(i))
        /\ Exec(Exec(s, i), Inverse(i)) = s
    BY <1>1, ShapeCancel
  <1> QED
    BY <1>2 DEF InRange, Fits

-----------------------------------------------------------------------------
(* Numbers and chains. *)

(* A set of natural numbers that is not empty has a least element. *)
LEMMA LeastNat ==
  ASSUME NEW T, T \subseteq Nat, T # {}
  PROVE  \E m \in T : \A k \in T : m <= k
  <1>1. PICK m \in T : \A k \in T : ~(<<k, m>> \in OpToRel(<, Nat))
    BY NatLessThanWellFounded, WFMin
  <1>2. ASSUME NEW k \in T PROVE m <= k
    <2>1. k \in Nat /\ m \in Nat /\ ~(<<k, m>> \in {p \in Nat \X Nat : p[1] < p[2]})
      BY <1>1 DEF OpToRel
    <2>2. ~(k < m)
      BY <2>1
    <2> QED
      BY <2>1, <2>2
  <1> QED
    BY <1>2

(* Induction up to a bound, over a set: what holds at 0 and is handed on      *)
(* from each number to the next holds of all of them.                        *)
LEMMA UpTo ==
  ASSUME NEW n \in Nat, NEW P, 0 \in P, \A k \in 1 .. n : k - 1 \in P => k \in P
  PROVE  \A k \in 0 .. n : k \in P
  <1> DEFINE Bad == {k \in 0 .. n : k \notin P}
  <1> SUFFICES ASSUME Bad # {} PROVE FALSE
    OBVIOUS
  <1>1. PICK m \in Bad : \A k \in Bad : m <= k
    <2>1. Bad \subseteq Nat
      OBVIOUS
    <2> QED
      BY <2>1, LeastNat
  <1>2. m \in 1 .. n /\ m - 1 \in 0 .. n /\ m - 1 \notin Bad
    BY <1>1
  <1> QED
    BY <1>1, <1>2

(* The function starts at a and goes on by a given step, up to m. *)
Chain(f, m, S, a, step) ==
  f \in [0 .. m -> S] /\ f[0] = a /\ \A k \in 1 .. m : f[k] = step[k][f[k - 1]]

(* There is such a function. *)
LEMMA Recursion ==
  ASSUME NEW n \in Nat, NEW S, NEW a \in S, NEW step \in [1 .. n -> [S -> S]]
  PROVE  \E f : Chain(f, n, S, a, step)
  <1> DEFINE P == {m \in 0 .. n : \E f : Chain(f, m, S, a, step)}
  <1>1. 0 \in P
    <2> DEFINE f == [k \in 0 .. 0 |-> a]
    <2>1. f \in [0 .. 0 -> S] /\ f[0] = a /\ \A k \in 1 .. 0 : FALSE
      OBVIOUS
    <2>2. Chain(f, 0, S, a, step)
      BY <2>1 DEF Chain
    <2> QED
      BY <2>2
  <1>2. ASSUME NEW m \in 1 .. n, m - 1 \in P PROVE m \in P
    <2>1. PICK f : Chain(f, m - 1, S, a, step)
      BY <1>2
    <2>2. f \in [0 .. m - 1 -> S] /\ f[0] = a /\ \A k \in 1 .. m - 1 : f[k] = step[k][f[k - 1]]
      BY <2>1 DEF Chain
    <2> DEFINE g == [k \in 0 .. m |-> IF k = m THEN step[m][f[m - 1]] ELSE f[k]]
    <2>3. g \in [0 .. m -> S] /\ g[0] = a
      <3>1. m - 1 \in 0 .. m - 1 /\ 0 # m /\ 0 \in 0 .. m - 1 /\ 0 \in 0 .. m
        OBVIOUS
      <3>2. step[m][f[m - 1]] \in S
        BY <2>2, <3>1
      <3>3. \A k \in 0 .. m : k # m => k \in 0 .. m - 1
        OBVIOUS
      <3> QED
        BY <2>2, <3>1, <3>2, <3>3
    <2>4. ASSUME NEW k \in 1 .. m PROVE g[k] = step[k][g[k - 1]]
      <3>1. k - 1 \in 0 .. m /\ k - 1 # m /\ k \in 0 .. m
        OBVIOUS
      <3>2. g[k - 1] = f[k - 1] /\ g[k] = IF k = m THEN step[m][f[m - 1]] ELSE f[k]
        BY <3>1
      <3>3. CASE k = m
        BY <3>2, <3>3
      <3>4. CASE k # m
        <4>1. k \in 1 .. m - 1
          BY <3>4
        <4> QED
          BY <2>2, <3>2, <3>4, <4>1
      <3> QED
        BY <3>3, <3>4
    <2> HIDE DEF g
    <2>5. Chain(g, m, S, a, step)
      BY <2>3, <2>4 DEF Chain
    <2> QED
      BY <2>5
  <1>3. \A m \in 1 .. n : m - 1 \in P => m \in P
    BY <1>2
  <1> HIDE DEF P
  <1>4. n \in P
    <2>1. \A m \in 0 .. n : m \in P
      BY <1>1, <1>3, UpTo
    <2> QED
      BY <2>1
  <1> QED
    BY <1>4 DEF P
=============================================================================
