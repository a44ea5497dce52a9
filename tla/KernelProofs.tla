---------------------------- MODULE KernelProofs ----------------------------
(***************************************************************************)
(* Proofs about the programs whose leaves are made by the program itself:  *)
(* the kernels compiled from formulas, the cipher, the search for a        *)
(* program, and the kernel that the pipeline sweeps over its table. They   *)
(* hold for any formulas, rounds and tasks, any files, targets and deltas, *)
(* and every word width.                                                   *)
(*                                                                         *)
(* A formula and its kernel are compared link by link: a factor times its  *)
(* inverse is 1 because each Newton step doubles the bits that are right.  *)
(* Of the search it needs to be known which entries were taken out of the  *)
(* frontier: the states seen are those of the entries explored, waiting    *)
(* and coming, and every shorter program was explored and missed.          *)
(* Of the pipeline, that the rows are the accepted lines (ParseInv), that  *)
(* each row carries the deltas of the sweeps that went over it (TableInv,  *)
(* by RunFollows forward and ReverseUndoesRun back), and that the counts   *)
(* compared are those of the two sets of deltas (CountsInv).               *)
(***************************************************************************)
EXTENDS HostProofs, Kernels, Etl

-----------------------------------------------------------------------------
(* The kernel of a formula. *)

FinSets == INSTANCE FiniteSetTheorems

(* Facts of the library on sizes, said of this module's operators. *)
LEMMA SizeIs ==
  \A S : (FinSets!IsFiniteSet(S) <=> IsFiniteSet(S)) /\ FinSets!Cardinality(S) = Cardinality(S)
  <1>1. \A S : FinSets!IsFiniteSet(S) <=> IsFiniteSet(S)
    BY DEF FinSets!IsFiniteSet, IsFiniteSet
  <1>2. \A S : FinSets!Cardinality(S) = Cardinality(S)
    BY Zenon DEF FinSets!Cardinality, Cardinality
  <1> QED
    BY <1>1, <1>2

LEMMA SizeFacts ==
  /\ IsFiniteSet({}) /\ Cardinality({}) = 0
  /\ \A S : IsFiniteSet(S) => Cardinality(S) \in Nat
  /\ \A S, x : IsFiniteSet(S) /\ x \notin S =>
                IsFiniteSet(S \union {x}) /\ Cardinality(S \union {x}) = Cardinality(S) + 1
  <1>1. IsFiniteSet({}) /\ Cardinality({}) = 0
    BY FinSets!FS_EmptySet, SizeIs
  <1>2. ASSUME NEW S, IsFiniteSet(S) PROVE Cardinality(S) \in Nat
    <2>1. FinSets!IsFiniteSet(S)
      BY <1>2, SizeIs
    <2>2. FinSets!Cardinality(S) \in Nat
      BY <2>1, FinSets!FS_CardinalityType
    <2> QED
      BY <2>2, SizeIs
  <1>3. ASSUME NEW S, NEW x, IsFiniteSet(S), x \notin S
        PROVE  IsFiniteSet(S \union {x}) /\ Cardinality(S \union {x}) = Cardinality(S) + 1
    <2>1. FinSets!IsFiniteSet(S)
      BY <1>3, SizeIs
    <2>2. /\ FinSets!IsFiniteSet(S \union {x})
          /\ FinSets!Cardinality(S \union {x}) = IF x \in S THEN FinSets!Cardinality(S) ELSE FinSets!Cardinality(S) + 1
      BY <2>1, FinSets!FS_AddElement
    <2>3. FinSets!Cardinality(S \union {x}) = FinSets!Cardinality(S) + 1
      BY <1>3, <2>2
    <2> QED
      BY <2>2, <2>3, SizeIs
  <1> QED
    BY <1>1, <1>2, <1>3

LEMMA PartOfInterval ==
  ASSUME NEW n \in Nat, NEW T, T \subseteq 1 .. n
  PROVE  IsFiniteSet(T)
  <1>1. FinSets!IsFiniteSet(1 .. n)
    BY FinSets!FS_Interval
  <1>2. T \in SUBSET (1 .. n)
    OBVIOUS
  <1>3. FinSets!IsFiniteSet(T)
    BY <1>1, <1>2, FinSets!FS_Subset
  <1> QED
    BY <1>3, SizeIs

(* How many members of T are at most p, counted from the first on. *)
CountUp(T, p) == Cardinality({j \in T : j <= p})

LEMMA CountSteps ==
  ASSUME NEW n \in Nat, NEW T, T \subseteq 1 .. n
  PROVE  /\ CountUp(T, 0) = 0 /\ CountUp(T, n) = Cardinality(T)
         /\ \A p \in 0 .. n : CountUp(T, p) \in Nat
         /\ \A p \in 1 .. n : CountUp(T, p) = CountUp(T, p - 1) + (IF p \in T THEN 1 ELSE 0)
  <1>1. \A j \in T : j \in 1 .. n
    OBVIOUS
  <1>2. \A p \in 0 .. n : IsFiniteSet({j \in T : j <= p})
    <2> TAKE p \in 0 .. n
    <2>1. {j \in T : j <= p} \subseteq 1 .. n
      OBVIOUS
    <2> QED
      BY <2>1, PartOfInterval
  <1>3. CountUp(T, 0) = 0
    <2>1. \A j \in T : ~(j <= 0)
      BY <1>1
    <2>2. {j \in T : j <= 0} = {}
      BY <2>1
    <2> QED
      BY <2>2, SizeFacts DEF CountUp
  <1>4. CountUp(T, n) = Cardinality(T)
    <2>1. \A j \in T : j <= n
      BY <1>1
    <2>2. {j \in T : j <= n} = T
      BY <2>1
    <2> QED
      BY <2>2 DEF CountUp
  <1>5. \A p \in 0 .. n : CountUp(T, p) \in Nat
    BY <1>2, SizeFacts DEF CountUp
  <1>6. ASSUME NEW p \in 1 .. n
        PROVE  CountUp(T, p) = CountUp(T, p - 1) + (IF p \in T THEN 1 ELSE 0)
    <2>1. PICK V : V = {j \in T : j <= p - 1}
      OBVIOUS
    <2>2. p - 1 \in 0 .. n /\ p \notin V
      <3>1. ~(p <= p - 1)
        OBVIOUS
      <3> QED
        BY <2>1, <3>1
    <2>3. IsFiniteSet(V) /\ CountUp(T, p - 1) = Cardinality(V) /\ Cardinality(V) \in Nat
      BY <1>2, <2>1, <2>2, SizeFacts DEF CountUp
    <2>4. CASE p \in T
      <3>1. {j \in T : j <= p} = V \union {p}
        <4>1. \A j \in T : j <= p <=> j <= p - 1 \/ j = p
          BY <1>1
        <4> QED
          BY <2>1, <2>4, <4>1
      <3>2. Cardinality(V \union {p}) = Cardinality(V) + 1
        BY <2>2, <2>3, SizeFacts
      <3> QED
        BY <2>3, <2>4, <3>1, <3>2 DEF CountUp
    <2>5. CASE p \notin T
      <3>1. {j \in T : j <= p} = V
        <4>1. \A j \in T : j <= p <=> j <= p - 1
          BY <1>1, <2>5
        <4> QED
          BY <2>1, <4>1
      <3>2. CountUp(T, p) = Cardinality(V)
        BY <3>1 DEF CountUp
      <3> QED
        BY <2>3, <2>5, <3>2
    <2> QED
      BY <2>4, <2>5
  <1> QED
    BY <1>3, <1>4, <1>5, <1>6

(* Counting numbers the members, one after the other. *)
Counts(c, T, n) ==
  /\ T \subseteq 1 .. n /\ c[0] = 0
  /\ \A p \in 0 .. n : c[p] \in Nat
  /\ \A p \in 1 .. n : c[p] = c[p - 1] + (IF p \in T THEN 1 ELSE 0)

Numbers(c, T, n) ==
  /\ c[n] <= n
  /\ \A k \in T : c[k] \in 1 .. c[n]
  /\ \A j, k \in T : c[j] = c[k] => j = k
  /\ \A r \in 1 .. c[n] : \E k \in T : c[k] = r

LEMMA CountNumbers ==
  ASSUME NEW n \in Nat, NEW T, NEW c, Counts(c, T, n)
  PROVE  Numbers(c, T, n)
  <1>a. /\ T \subseteq 1 .. n /\ c[0] = 0
        /\ \A p \in 0 .. n : c[p] \in Nat
        /\ \A p \in 1 .. n : c[p] = c[p - 1] + (IF p \in T THEN 1 ELSE 0)
    BY DEF Counts
  <1> DEFINE P == {p \in 0 .. n : /\ c[p] <= p
                                  /\ \A q \in 0 .. p : c[q] <= c[p]
                                  /\ \A k \in T : k <= p => 1 <= c[k]
                                  /\ \A j, k \in T : j < k /\ k <= p => c[j] < c[k]
                                  /\ \A r \in 1 .. c[p] : \E k \in T : k <= p /\ c[k] = r}
  <1>1. 0 \in P
    BY <1>a
  <1>2. ASSUME NEW p \in 1 .. n, p - 1 \in P PROVE p \in P
    <2>1. p - 1 \in 0 .. n /\ c[p - 1] \in Nat /\ c[p] \in Nat
      BY <1>a
    <2>2. c[p] = c[p - 1] + (IF p \in T THEN 1 ELSE 0)
      BY <1>a
    <2>3. c[p - 1] <= c[p] /\ c[p] <= p
      BY <1>2, <2>1, <2>2
    <2>4. \A q \in 0 .. p : c[q] <= c[p]
      <3> TAKE q \in 0 .. p
      <3>1. q = p \/ q \in 0 .. p - 1
        OBVIOUS
      <3>2. q \in 0 .. n /\ c[q] \in Nat
        BY <1>a
      <3> QED
        BY <1>2, <2>1, <2>3, <3>1, <3>2
    <2>5. \A k \in T : k <= p => 1 <= c[k]
      <3> TAKE k \in T
      <3>1. k \in 1 .. n /\ (k <= p => k = p \/ k <= p - 1)
        BY <1>a
      <3> QED
        BY <1>2, <2>1, <2>2, <3>1
    <2>6. \A j, k \in T : j < k /\ k <= p => c[j] < c[k]
      <3> TAKE j \in T, k \in T
      <3>1. j \in 1 .. n /\ k \in 1 .. n /\ c[j] \in Nat
        BY <1>a
      <3>2. ASSUME j < k, k = p PROVE c[j] < c[k]
        <4>1. j \in 0 .. p - 1
          BY <3>1, <3>2
        <4>2. c[j] <= c[p - 1]
          BY <1>2, <4>1
        <4> QED
          BY <2>1, <2>2, <3>1, <3>2, <4>2
      <3>3. ASSUME j < k, k <= p - 1 PROVE c[j] < c[k]
        BY <1>2, <3>3
      <3> QED
        BY <3>1, <3>2, <3>3
    <2>7. \A r \in 1 .. c[p] : \E k \in T : k <= p /\ c[k] = r
      <3> TAKE r \in 1 .. c[p]
      <3>1. CASE r \in 1 .. c[p - 1]
        <4>1. PICK k \in T : k <= p - 1 /\ c[k] = r
          BY <1>2, <3>1
        <4>2. k \in 1 .. n /\ k <= p
          BY <1>a, <4>1
        <4> QED
          BY <4>1, <4>2
      <3>2. CASE r \notin 1 .. c[p - 1]
        <4>1. p \in T /\ r = c[p]
          BY <2>1, <2>2, <3>2
        <4> QED
          BY <4>1
      <3> QED
        BY <3>1, <3>2
    <2>8. p \in 0 .. n
      OBVIOUS
    <2> QED
      BY <2>3, <2>4, <2>5, <2>6, <2>7, <2>8
  <1>3. \A p \in 1 .. n : p - 1 \in P => p \in P
    BY <1>2
  <1> HIDE DEF P
  <1>4. n \in P
    <2>1. \A p \in 0 .. n : p \in P
      BY <1>1, <1>3, UpTo
    <2> QED
      BY <2>1
  <1>5. /\ c[n] <= n
        /\ \A q \in 0 .. n : c[q] <= c[n]
        /\ \A k \in T : k <= n => 1 <= c[k]
        /\ \A j, k \in T : j < k /\ k <= n => c[j] < c[k]
        /\ \A r \in 1 .. c[n] : \E k \in T : k <= n /\ c[k] = r
    BY <1>4 DEF P
  <1>6. \A k \in T : c[k] \in 1 .. c[n]
    <2> TAKE k \in T
    <2>1. k \in 1 .. n /\ k \in 0 .. n /\ n \in 0 .. n
      BY <1>a
    <2>2. c[k] \in Nat /\ c[n] \in Nat
      BY <1>a, <2>1
    <2>3. 1 <= c[k] /\ c[k] <= c[n]
      BY <1>5, <2>1
    <2> QED
      BY <2>2, <2>3
  <1>7. \A j, k \in T : c[j] = c[k] => j = k
    <2> TAKE j \in T, k \in T
    <2>1. j \in 1 .. n /\ k \in 1 .. n /\ c[j] \in Nat /\ c[k] \in Nat
      BY <1>a
    <2>2. j < k => c[j] < c[k]
      BY <1>5, <2>1
    <2>3. k < j => c[k] < c[j]
      BY <1>5, <2>1
    <2> QED
      BY <2>1, <2>2, <2>3
  <1> QED
    BY <1>5, <1>6, <1>7 DEF Numbers

(* A chain of states that the leaves make, one after the other, is the run. *)
StatesOf(c, q, n) == \A k \in 1 .. n : CanRun(c[k - 1], q[k]) /\ c[k] = Exec(c[k - 1], q[k])

LEMMA RunFollows ==
  ASSUME NEW R, NEW A, NEW q \in Seq(Inst), NEW n \in Nat, n = Len(q),
         NEW c \in [0 .. n -> Shape(R, A)], StatesOf(c, q, n)
  PROVE  RunForward(c[0], q) = [s |-> c[n], done |-> n, out |-> "ok"]
  <1>0. \A k \in 1 .. n : CanRun(c[k - 1], q[k]) /\ c[k] = Exec(c[k - 1], q[k])
    BY DEF StatesOf
  <1>1. PICK f \in [0 .. n -> Res(R, A)] : Forth(f, c[0], q, n) /\ RunForward(c[0], q) = f[n]
    <2>1. c[0] \in Shape(R, A)
      OBVIOUS
    <2> QED
      BY <2>1, RunIsForth
  <1> DEFINE P == {k \in 0 .. n : f[k] = [s |-> c[k], done |-> k, out |-> "ok"]}
  <1>2. 0 \in P
    BY <1>1 DEF Forth, Go
  <1>3. ASSUME NEW k \in 1 .. n, k - 1 \in P PROVE k \in P
    <2>1. f[k] = ForwardLeaf(f[k - 1], q[k]) /\ k \in 0 .. n
      BY <1>1 DEF Forth
    <2>2. f[k - 1] = [s |-> c[k - 1], done |-> k - 1, out |-> "ok"]
      BY <1>3
    <2>3. ForwardLeaf(f[k - 1], q[k]) = [s |-> Exec(c[k - 1], q[k]), done |-> (k - 1) + 1, out |-> "ok"]
      BY <1>0, <2>2 DEF ForwardLeaf
    <2>4. (k - 1) + 1 = k
      OBVIOUS
    <2> QED
      BY <1>0, <2>1, <2>3, <2>4
  <1>4. \A k \in 1 .. n : k - 1 \in P => k \in P
    BY <1>3
  <1> HIDE DEF P
  <1>5. \A k \in 0 .. n : k \in P
    BY <1>2, <1>4, UpTo
  <1> QED
    BY <1>1, <1>5 DEF P

(* What a formula makes of x, link after link. *)
Computed(u, ops, n) ==
  u \in [0 .. n -> Word] /\ \A k \in 1 .. n : u[k] = ApplyOp(ops[k], u[k - 1])

LEMMA SmallFacts ==
  /\ Modulus \in Nat \ {0, 1} /\ Width \in 1 .. 64
  /\ \A k \in Nat : k % Width \in 0 .. Width - 1
  /\ \A k \in 0 .. Width - 1 : k % Width = k
  /\ \A k \in 0 .. Width - 1 : k \in Word
  <1>1. Width \in 1 .. 64
    BY SizesAssumption
  <1>2. \A k \in Nat : k % Width \in 0 .. Width - 1
    BY <1>1
  <1>3. \A k \in 0 .. Width - 1 : k % Width = k
    BY <1>1
  <1> DEFINE P == {k \in 0 .. Width : k < Pow2[k]}
  <1>4. 0 \in P
    BY <1>1, Pow2Assumption
  <1>5. ASSUME NEW k \in 1 .. Width, k - 1 \in P PROVE k \in P
    <2>1. k - 1 \in 0 .. Width /\ 1 \in 0 .. Width /\ (k - 1) + 1 = k /\ k \in 0 .. Width
      BY <1>1
    <2>a. PICK j \in 0 .. Width : j = k - 1 /\ j + 1 <= Width /\ j + 1 = k
      BY <2>1
    <2>b. Pow2[j + 1] = Pow2[j] * Pow2[1] /\ Pow2[1] = 2 /\ Pow2[j] \in Nat
      BY <2>1, <2>a, Pow2Assumption
    <2>2. Pow2[k] = Pow2[k - 1] * Pow2[1] /\ Pow2[1] = 2 /\ Pow2[k - 1] \in Nat
      BY <2>a, <2>b
    <2>3. k - 1 < Pow2[k - 1]
      BY <1>5
    <2>4. k < Pow2[k]
      BY <2>2, <2>3
    <2> QED
      BY <2>1, <2>4
  <1>6. \A k \in 1 .. Width : k - 1 \in P => k \in P
    BY <1>5
  <1> HIDE DEF P
  <1>7. Width \in P
    <2>1. \A k \in 0 .. Width : k \in P
      BY <1>1, <1>4, <1>6, UpTo
    <2> QED
      BY <1>1, <2>1
  <1>8. Width < Modulus
    BY <1>7 DEF P, Modulus
  <1> QED
    BY <1>1, <1>2, <1>3, <1>8, ModulusFacts DEF Word

(* Rotating by nothing, and the right rotation as a left one. *)
LEMMA RotateFacts ==
  /\ \A x \in Word : RotateLeft(x, 0) = x
  /\ \A x \in Word, k \in 0 .. Width : RotateLeft(x, Width - k) = RotateRight(x, k)
  <1>1. Width \in 1 .. 64
    BY SizesAssumption
  <1>2. Pow2[0] = 1
    <2>1. 0 \in 0 .. Width /\ 1 \in 0 .. Width /\ 0 + 1 = 1
      BY <1>1
    <2>2. Pow2[1] = Pow2[0] * Pow2[1] /\ Pow2[1] = 2 /\ Pow2[0] \in Nat
      BY <2>1, Pow2Assumption
    <2> QED
      BY <2>2
  <1>3. ASSUME NEW x \in Word PROVE RotateLeft(x, 0) = x
    <2>1. Width - 0 = Width
      BY <1>1
    <2>2. PICK m \in Nat \ {0} : m = Modulus
      BY ModulusFacts
    <2>3. x \in 0 .. m - 1 /\ Pow2[Width - 0] = m
      BY <2>1, <2>2 DEF Word, Modulus
    <2>4. x % m = x /\ x \div m = 0
      BY <2>3
    <2>5. RotateLeft(x, 0) = (x % m) * 1 + x \div m
      BY <1>2, <2>3 DEF RotateLeft, Rotate
    <2>6. x * 1 + 0 = x
      BY <2>3
    <2> QED
      BY <2>4, <2>5, <2>6
  <1>4. ASSUME NEW x \in Word, NEW k \in 0 .. Width
        PROVE  RotateLeft(x, Width - k) = RotateRight(x, k)
    <2>1. Width - (Width - k) = k
      BY <1>1
    <2> QED
      BY <2>1 DEF RotateLeft, RotateRight
  <1> QED
    BY <1>3, <1>4

LEMMA LinkBack ==
  ASSUME NEW o \in Links, NEW x \in Word
  PROVE  /\ ApplyOp(o, x) \in Word
         /\ InverseOf(o) \in Links
         /\ ApplyOp(InverseOf(o), ApplyOp(o, x)) = x
  <1>1. CASE o.op = "add"
    <2>1. o.k \in Word /\ o \in [op : {"add", "xor"}, k : Word]
      BY <1>1 DEF Links
    <2>2. 0 \in Word /\ WrapSub(0, o.k) \in Word /\ WrapAdd(x, o.k) \in Word
      BY <2>1, AddSubCancel, ModulusFacts DEF Word
    <2>3. InverseOf(o) = [op |-> "add", k |-> WrapSub(0, o.k)]
      BY <1>1, <2>1 DEF InverseOf
    <2>4. WrapAdd(WrapAdd(x, o.k), WrapSub(0, o.k)) = x
      <3>1. PICK v : v = o.k
        OBVIOUS
      <3>2. v \in Word
        BY <2>1, <3>1
      <3>3. WrapAdd(WrapAdd(x, v), WrapSub(0, v)) = x
        BY <3>2, ModulusFacts DEF Word, WrapAdd, WrapSub
      <3> QED
        BY <3>1, <3>3
    <2>5. InverseOf(o) \in Links
      BY <2>2, <2>3 DEF Links
    <2>6. ApplyOp(o, x) = WrapAdd(x, o.k)
      BY <1>1 DEF ApplyOp
    <2>7. ApplyOp(InverseOf(o), WrapAdd(x, o.k)) = WrapAdd(WrapAdd(x, o.k), WrapSub(0, o.k))
      BY <2>3 DEF ApplyOp
    <2> QED
      BY <2>2, <2>4, <2>5, <2>6, <2>7
  <1>2. CASE o.op = "xor"
    <2>1. o.k \in Word /\ o \in [op : {"add", "xor"}, k : Word]
      BY <1>2 DEF Links
    <2>2. InverseOf(o) = o
      BY <1>2, <2>1 DEF InverseOf
    <2>3. BitXor(x, o.k) \in Word /\ BitXor(BitXor(x, o.k), o.k) = x
      BY <2>1, BitLaws
    <2> QED
      BY <1>2, <2>2, <2>3 DEF ApplyOp
  <1>3. CASE o.op = "mulodd"
    <2>1. o.k \in Word /\ o.k % 2 = 1 /\ o \in [op : {"mulodd"}, k : {w \in Word : w % 2 = 1}]
      BY <1>3 DEF Links
    <2>2. /\ WrapMul(x, o.k) \in Word /\ WrapMul(WrapMul(x, o.k), ModInvOdd(o.k)) = x
          /\ ModInvOdd(o.k) \in Word /\ ModInvOdd(o.k) % 2 = 1
      BY <2>1, MulCancel, InverseConstant
    <2>3. InverseOf(o) = [op |-> "mulodd", k |-> ModInvOdd(o.k)]
      BY <1>3, <2>1 DEF InverseOf
    <2>4. InverseOf(o) \in Links
      BY <2>2, <2>3 DEF Links
    <2>5. ApplyOp(o, x) = WrapMul(x, o.k)
      BY <1>3 DEF ApplyOp
    <2>6. ApplyOp(InverseOf(o), WrapMul(x, o.k)) = WrapMul(WrapMul(x, o.k), ModInvOdd(o.k))
      BY <2>3 DEF ApplyOp
    <2> QED
      BY <2>2, <2>4, <2>5, <2>6
  <1>4. CASE o.op = "rotl"
    <2>1. o.k \in Nat /\ o \in [op : {"rotl"}, k : Nat]
      BY <1>4 DEF Links
    <2>2. PICK j \in 0 .. Width - 1 : j = o.k % Width
      BY <2>1, SmallFacts
    <2>3. InverseOf(o) = [op |-> "rotl", k |-> (Width - j) % Width]
      BY <1>4, <2>1, <2>2 DEF InverseOf
    <2>4. Width \in 1 .. 64 /\ Width - j \in Nat /\ (Width - j) % Width \in 0 .. Width - 1
      BY SmallFacts
    <2>5. InverseOf(o) \in Links
      BY <2>3, <2>4 DEF Links
    <2>6. ApplyOp(o, x) = RotateLeft(x, j) /\ RotateLeft(x, j) \in Word
      <3>1. j \in 0 .. Width
        BY <2>4
      <3> QED
        BY <1>4, <2>2, <3>1, RotateCancel DEF ApplyOp
    <2>7. ((Width - j) % Width) % Width = (Width - j) % Width
      BY <2>4, SmallFacts
    <2>8. ApplyOp(InverseOf(o), RotateLeft(x, j)) = RotateLeft(RotateLeft(x, j), (Width - j) % Width)
      BY <2>3, <2>7 DEF ApplyOp
    <2>9. RotateLeft(RotateLeft(x, j), (Width - j) % Width) = x
      <3>1. CASE j = 0
        <4>1. (Width - j) % Width = 0
          BY <2>4, <3>1
        <4> QED
          BY <2>6, <3>1, <4>1, RotateFacts
      <3>2. CASE j # 0
        <4>1. (Width - j) % Width = Width - j /\ j \in 0 .. Width
          BY <2>4, <3>2, SmallFacts
        <4>2. RotateLeft(RotateLeft(x, j), Width - j) = RotateRight(RotateLeft(x, j), j)
          BY <2>6, <4>1, RotateFacts
        <4> QED
          BY <4>1, <4>2, RotateCancel
      <3> QED
        BY <3>1, <3>2
    <2> QED
      BY <2>5, <2>6, <2>8, <2>9
  <1>5. o.op \in {"add", "xor", "mulodd", "rotl"}
    BY DEF Links
  <1> QED
    BY <1>1, <1>2, <1>3, <1>4, <1>5

LEMMA ComputedExists ==
  ASSUME NEW ops \in Seq(Links), NEW n \in Nat, n = Len(ops), NEW x \in Word
  PROVE  \E u : Computed(u, ops, n) /\ u[0] = x
  <1>1. \A k \in 1 .. n : ops[k] \in Links
    OBVIOUS
  <1> DEFINE step == [k \in 1 .. n |-> [w \in Word |-> ApplyOp(ops[k], w)]]
  <1>2. step \in [1 .. n -> [Word -> Word]]
    BY <1>1, LinkBack
  <1> HIDE DEF step
  <1>3. PICK u : Chain(u, n, Word, x, step)
    BY <1>2, Recursion
  <1>4. u \in [0 .. n -> Word] /\ u[0] = x /\ \A k \in 1 .. n : u[k] = step[k][u[k - 1]]
    BY <1>3 DEF Chain
  <1>5. ASSUME NEW k \in 1 .. n PROVE u[k] = ApplyOp(ops[k], u[k - 1])
    <2>1. k - 1 \in 0 .. n
      OBVIOUS
    <2>2. u[k - 1] \in Word
      BY <1>4, <2>1
    <2> QED
      BY <1>4, <2>2 DEF step
  <1> QED
    BY <1>4, <1>5 DEF Computed

LEMMA ApplyFollows ==
  ASSUME NEW ops, NEW n \in Nat, n = Len(ops), NEW u, Computed(u, ops, n)
  PROVE  ApplyAll(ops, u[0]) = u[n]
  <1> DEFINE Runs(g) == g = [k \in 0 .. n |-> IF k = 0 THEN u[0] ELSE ApplyOp(ops[k], g[k - 1])]
  <1>1. Runs(u)
    <2>1. \A k \in 0 .. n : k = 0 \/ k \in 1 .. n
      OBVIOUS
    <2>2. \A k \in 0 .. n : u[k] = IF k = 0 THEN u[0] ELSE ApplyOp(ops[k], u[k - 1])
      BY <2>1 DEF Computed
    <2> QED
      BY <2>2 DEF Computed
  <1>2. PICK g : g = CHOOSE h : Runs(h)
    OBVIOUS
  <1>3. Runs(g)
    BY <1>1, <1>2
  <1>4. ApplyAll(ops, u[0]) = g[n]
    BY <1>2 DEF ApplyAll
  <1>5. g[0] = u[0] /\ \A k \in 1 .. n : g[k] = ApplyOp(ops[k], g[k - 1])
    BY <1>3
  <1> HIDE DEF Runs
  <1> DEFINE P == {k \in 0 .. n : g[k] = u[k]}
  <1>6. 0 \in P
    BY <1>5
  <1>7. ASSUME NEW k \in 1 .. n, k - 1 \in P PROVE k \in P
    <2>1. g[k] = ApplyOp(ops[k], g[k - 1]) /\ u[k] = ApplyOp(ops[k], u[k - 1])
      BY <1>5 DEF Computed
    <2> QED
      BY <1>7, <2>1
  <1>8. \A k \in 1 .. n : k - 1 \in P => k \in P
    BY <1>7
  <1> HIDE DEF P
  <1>9. \A k \in 0 .. n : k \in P
    BY <1>6, <1>8, UpTo
  <1> QED
    BY <1>4, <1>9 DEF P

(* The inverse goes back over what the formula has computed. *)
LEMMA InverseFollows ==
  ASSUME NEW ops \in Seq(Links), NEW n \in Nat, n = Len(ops), NEW u, Computed(u, ops, n)
  PROVE  ApplyAll(InverseAll(ops), u[n]) = u[0]
  <1>1. PICK q : q = InverseAll(ops)
    OBVIOUS
  <1>2. \A k \in 1 .. n : ops[k] \in Links /\ k \in DOMAIN ops
    OBVIOUS
  <1>3. Len(q) = n /\ \A k \in 1 .. n : q[k] = InverseOf(ops[n + 1 - k])
    <2>1. q = [k \in 1 .. n |-> InverseOf(ops[n + 1 - k])]
      BY <1>1 DEF InverseAll
    <2> QED
      BY <2>1
  <1> DEFINE w == [k \in 0 .. n |-> u[n - k]]
  <1>4. w \in [0 .. n -> Word] /\ w[0] = u[n] /\ w[n] = u[0]
    <2>1. \A k \in 0 .. n : n - k \in 0 .. n
      OBVIOUS
    <2>2. n - 0 = n /\ n - n = 0 /\ 0 \in 0 .. n /\ n \in 0 .. n
      OBVIOUS
    <2> QED
      BY <2>1, <2>2 DEF Computed
  <1>5. ASSUME NEW k \in 1 .. n PROVE w[k] = ApplyOp(q[k], w[k - 1])
    <2>1. PICK j \in 1 .. n : j = n + 1 - k
      OBVIOUS
    <2>2. n - k = j - 1 /\ n - (k - 1) = j /\ k - 1 \in 0 .. n /\ k \in 0 .. n /\ j - 1 \in 0 .. n
      BY <2>1
    <2>3. w[k] = u[j - 1] /\ w[k - 1] = u[j]
      BY <2>2
    <2>4. u[j - 1] \in Word /\ u[j] = ApplyOp(ops[j], u[j - 1])
      BY <2>2 DEF Computed
    <2>5. ApplyOp(InverseOf(ops[j]), u[j]) = u[j - 1]
      BY <1>2, <2>4, LinkBack
    <2> QED
      BY <1>3, <2>1, <2>3, <2>5
  <1> HIDE DEF w
  <1>6. Computed(w, q, n)
    BY <1>4, <1>5 DEF Computed
  <1>7. ApplyAll(q, w[0]) = w[n]
    BY <1>3, <1>6, ApplyFollows
  <1> QED
    BY <1>1, <1>4, <1>7

(* The constants and their registers. *)
LEMMA KeyFacts ==
  ASSUME NEW ops \in Seq(Links), NEW n \in Nat, n = Len(ops)
  PROVE  /\ Keyed(ops) \subseteq 1 .. n
         /\ Cardinality(Keyed(ops)) \in 0 .. n
         /\ \A k \in Keyed(ops) : /\ KeyReg(ops, k) \in 1 .. Cardinality(Keyed(ops))
                                  /\ KeyOf(ops, KeyReg(ops, k)) = ops[k].k
         /\ \A r \in 1 .. Cardinality(Keyed(ops)) : KeyOf(ops, r) \in Word
  <1>1. PICK T : T = Keyed(ops)
    OBVIOUS
  <1>2. T \subseteq 1 .. n /\ \A k \in T : ops[k] \in Links /\ ops[k].op \in {"add", "xor"}
    <2>1. \A k \in 1 .. n : ops[k] \in Links
      OBVIOUS
    <2> QED
      BY <1>1, <2>1 DEF Keyed
  <1> DEFINE c == [p \in 0 .. n |-> CountUp(T, p)]
  <1>3. /\ c[0] = 0 /\ c[n] = Cardinality(T)
        /\ \A p \in 0 .. n : c[p] \in Nat
        /\ \A p \in 1 .. n : c[p] = c[p - 1] + (IF p \in T THEN 1 ELSE 0)
    <2>1. /\ CountUp(T, 0) = 0 /\ CountUp(T, n) = Cardinality(T)
          /\ \A p \in 0 .. n : CountUp(T, p) \in Nat
          /\ \A p \in 1 .. n : CountUp(T, p) = CountUp(T, p - 1) + (IF p \in T THEN 1 ELSE 0)
      BY <1>2, CountSteps
    <2>2. \A p \in 1 .. n : p \in 0 .. n /\ p - 1 \in 0 .. n
      OBVIOUS
    <2>3. 0 \in 0 .. n /\ n \in 0 .. n
      OBVIOUS
    <2> HIDE DEF CountUp
    <2> QED
      BY <2>1, <2>2, <2>3
  <1>4. \A k \in T : KeyReg(ops, k) = c[k]
    <2> TAKE k \in T
    <2>1. k \in 1 .. n
      BY <1>2
    <2>2. k \in 0 .. n
      BY <2>1
    <2>3. c[k] = CountUp(T, k)
      BY <2>2
    <2> QED
      BY <1>1, <2>3 DEF KeyReg, CountUp
  <1> HIDE DEF c
  <1>5. /\ c[n] <= n
        /\ \A k \in T : c[k] \in 1 .. c[n]
        /\ \A j, k \in T : c[j] = c[k] => j = k
        /\ \A r \in 1 .. c[n] : \E k \in T : c[k] = r
    <2>1. T \subseteq 1 .. n
      BY <1>2
    <2>2. \A p \in 0 .. n : c[p] \in Nat
      BY <1>3
    <2>3. \A p \in 1 .. n : c[p] = c[p - 1] + (IF p \in T THEN 1 ELSE 0)
      BY <1>3
    <2>4. c[0] = 0
      BY <1>3
    <2>5. Counts(c, T, n)
      BY <2>1, <2>2, <2>3, <2>4 DEF Counts
    <2>6. Numbers(c, T, n)
      BY <2>5, CountNumbers
    <2> QED
      BY <2>6 DEF Numbers
  <1>6. Cardinality(T) \in 0 .. n
    <2>1. n \in 0 .. n
      OBVIOUS
    <2>2. c[n] \in Nat
      BY <1>3, <2>1
    <2> QED
      BY <1>3, <1>5, <2>2
  <1>7. ASSUME NEW k \in T PROVE KeyOf(ops, c[k]) = ops[k].k
    <2>1. PICK j : j = CHOOSE i \in T : KeyReg(ops, i) = c[k]
      OBVIOUS
    <2>2. j \in T /\ KeyReg(ops, j) = c[k]
      BY <1>4, <2>1
    <2>3. j = k
      BY <1>4, <1>5, <2>2
    <2>4. KeyOf(ops, c[k]) = ops[j].k
      BY <1>1, <2>1 DEF KeyOf
    <2> QED
      BY <2>3, <2>4
  <1>8. \A k \in T : ops[k].k \in Word
    BY <1>2 DEF Links
  <1>9. ASSUME NEW r \in 1 .. c[n] PROVE KeyOf(ops, r) \in Word
    <2>1. PICK k \in T : c[k] = r
      BY <1>5
    <2> QED
      BY <1>7, <1>8, <2>1
  <1> QED
    BY <1>1, <1>2, <1>3, <1>4, <1>5, <1>6, <1>7, <1>9

(* The leaf of link k. *)
LinkLeaf(ops, k) ==
  CASE ops[k].op = "rotl"   -> [Leaf("rotl", 0, 0) EXCEPT !.k = ops[k].k % Width]
    [] ops[k].op = "mulodd" -> [Leaf("mulc", 0, 0) EXCEPT !.k = ops[k].k]
    [] k \in Keyed(ops)     -> Leaf(ops[k].op, 0, KeyReg(ops, k))

KeyLeaf(ops, r) == [Leaf("set", r, 0) EXCEPT !.k = KeyOf(ops, r)]

LEMMA KeyLeafIs ==
  ASSUME NEW ops \in Seq(Links), NEW r \in 1 .. Cardinality(Keyed(ops))
  PROVE  /\ KeyLeaf(ops, r) = [op |-> "set", a |-> r, b |-> 0, c |-> 0, k |-> KeyOf(ops, r)]
         /\ KeyOf(ops, r) \in Word /\ r \in Nat
         /\ KeyLeaf(ops, r) \in Inst /\ ~Invertible(KeyLeaf(ops, r))
  <1>1. KeyLeaf(ops, r) = [op |-> "set", a |-> r, b |-> 0, c |-> 0, k |-> KeyOf(ops, r)]
    BY DEF KeyLeaf, Leaf
  <1>2. KeyOf(ops, r) \in Word /\ r \in Nat
    <2>1. PICK n \in Nat : n = Len(ops)
      OBVIOUS
    <2> QED
      BY <2>1, KeyFacts
  <1>3. KeyLeaf(ops, r) \in Inst
    BY <1>1, <1>2 DEF Inst, Ops, UnaryOps
  <1> QED
    BY <1>1, <1>2, <1>3 DEF Invertible, IsIrreversible, IrreversibleOps

(* The four kinds of leaves a link may become. *)
LeafOfLink(i, o, r) ==
  \/ o.op = "rotl" /\ i = [op |-> "rotl", a |-> 0, b |-> 0, c |-> 0, k |-> o.k % Width]
  \/ o.op = "mulodd" /\ i = [op |-> "mulc", a |-> 0, b |-> 0, c |-> 0, k |-> o.k]
  \/ o.op \in {"add", "xor"} /\ i = [op |-> o.op, a |-> 0, b |-> r, c |-> 0, k |-> 0]

LEMMA LinkLeafIs ==
  ASSUME NEW ops \in Seq(Links), NEW k \in 1 .. Len(ops)
  PROVE  LeafOfLink(LinkLeaf(ops, k), ops[k], KeyReg(ops, k))
  <1>1. ops[k] \in Links /\ k \in DOMAIN ops
    OBVIOUS
  <1>2. ops[k].op \in {"add", "xor", "mulodd", "rotl"}
    BY <1>1 DEF Links
  <1>3. CASE ops[k].op \in {"add", "xor"}
    <2>1. k \in Keyed(ops)
      BY <1>1, <1>3 DEF Keyed
    <2>2. LinkLeaf(ops, k) = Leaf(ops[k].op, 0, KeyReg(ops, k))
      BY <1>3, <2>1 DEF LinkLeaf
    <2> QED
      BY <1>3, <2>2 DEF LeafOfLink, Leaf
  <1>4. CASE ops[k].op = "rotl"
    <2>1. LinkLeaf(ops, k) = [Leaf("rotl", 0, 0) EXCEPT !.k = ops[k].k % Width]
      BY <1>4 DEF LinkLeaf, Keyed
    <2> QED
      BY <1>4, <2>1 DEF LeafOfLink, Leaf
  <1>5. CASE ops[k].op = "mulodd"
    <2>1. LinkLeaf(ops, k) = [Leaf("mulc", 0, 0) EXCEPT !.k = ops[k].k]
      BY <1>5 DEF LinkLeaf, Keyed
    <2> QED
      BY <1>5, <2>1 DEF LeafOfLink, Leaf
  <1> QED
    BY <1>2, <1>3, <1>4, <1>5

LEMMA LinkLeafTyped ==
  ASSUME NEW i, NEW o \in Links, NEW r \in Nat \ {0}, LeafOfLink(i, o, r)
  PROVE  i \in Inst /\ Invertible(i)
  <1>1. CASE o.op = "rotl" /\ i = [op |-> "rotl", a |-> 0, b |-> 0, c |-> 0, k |-> o.k % Width]
    <2>1. o.k \in Nat
      BY <1>1 DEF Links
    <2>2. o.k % Width \in Word
      BY <2>1, SmallFacts
    <2> QED
      BY <1>1, <2>2 DEF Inst, Ops, UnaryOps, Invertible, IsIrreversible, IrreversibleOps, OperandAlias,
                        MemDstOps, MemSrcOps
  <1>2. CASE o.op = "mulodd" /\ i = [op |-> "mulc", a |-> 0, b |-> 0, c |-> 0, k |-> o.k]
    <2>1. o.k \in Word /\ o.k % 2 = 1
      BY <1>2 DEF Links
    <2> QED
      BY <1>2, <2>1 DEF Inst, Ops, UnaryOps, Invertible, IsIrreversible, IrreversibleOps, OperandAlias,
                        MemDstOps, MemSrcOps
  <1>3. CASE o.op \in {"add", "xor"} /\ i = [op |-> o.op, a |-> 0, b |-> r, c |-> 0, k |-> 0]
    <2>1. 0 \in Word
      BY ModulusFacts DEF Word
    <2> QED
      BY <1>3, <2>1 DEF Inst, Ops, BinaryOps, Invertible, IsIrreversible, IrreversibleOps, OperandAlias,
                        MemDstOps, MemSrcOps
  <1> QED
    BY <1>1, <1>2, <1>3 DEF LeafOfLink

Compiled(q, ops, m, n) ==
  /\ q \in Seq(Inst) /\ Len(q) = m + n
  /\ \A r \in 1 .. m : q[r] = KeyLeaf(ops, r)
  /\ \A k \in 1 .. n : q[m + k] = LinkLeaf(ops, k)

LEMMA CompileIs ==
  ASSUME NEW ops \in Seq(Links), NEW n \in Nat, n = Len(ops),
         NEW m \in Nat, m = Cardinality(Keyed(ops))
  PROVE  Compiled(Compile(ops), ops, m, n)
  <1>1. PICK p : p = [r \in 1 .. m |-> KeyLeaf(ops, r)]
    OBVIOUS
  <1>2. PICK t : t = [k \in 1 .. n |-> LinkLeaf(ops, k)]
    OBVIOUS
  <1>3. p \in Seq(Inst) /\ Len(p) = m /\ \A r \in 1 .. m : p[r] = KeyLeaf(ops, r)
    <2>1. \A r \in 1 .. m : KeyLeaf(ops, r) \in Inst
      BY KeyLeafIs
    <2> QED
      BY <1>1, <2>1
  <1>4. t \in Seq(Inst) /\ Len(t) = n /\ \A k \in 1 .. n : t[k] = LinkLeaf(ops, k)
    <2>1. ASSUME NEW k \in 1 .. n PROVE LinkLeaf(ops, k) \in Inst
      <3>1. ops[k] \in Links /\ k \in DOMAIN ops /\ LeafOfLink(LinkLeaf(ops, k), ops[k], KeyReg(ops, k))
        BY LinkLeafIs
      <3>2. CASE k \in Keyed(ops)
        <4>1. KeyReg(ops, k) \in Nat \ {0}
          BY <3>2, KeyFacts
        <4> QED
          BY <3>1, <4>1, LinkLeafTyped
      <3>3. CASE k \notin Keyed(ops)
        <4>1. ops[k].op \notin {"add", "xor"}
          BY <3>1, <3>3 DEF Keyed
        <4>2. LeafOfLink(LinkLeaf(ops, k), ops[k], 1)
          BY <3>1, <4>1 DEF LeafOfLink
        <4>3. 1 \in Nat \ {0}
          OBVIOUS
        <4>4. PICK i : i = LinkLeaf(ops, k) /\ LeafOfLink(i, ops[k], 1)
          BY <4>2
        <4>5. i \in Inst
          BY <3>1, <4>3, <4>4, LinkLeafTyped
        <4> QED
          BY <4>4, <4>5
      <3> QED
        BY <3>2, <3>3
    <2> QED
      BY <1>2, <2>1
  <1>5. Compile(ops) = p \o t
    <2>1. p = [r \in 1 .. Cardinality(Keyed(ops)) |-> [Leaf("set", r, 0) EXCEPT !.k = KeyOf(ops, r)]]
      BY <1>1 DEF KeyLeaf
    <2>2. t = [k \in DOMAIN ops |->
                CASE ops[k].op = "rotl"   -> [Leaf("rotl", 0, 0) EXCEPT !.k = ops[k].k % Width]
                  [] ops[k].op = "mulodd" -> [Leaf("mulc", 0, 0) EXCEPT !.k = ops[k].k]
                  [] k \in Keyed(ops)     -> Leaf(ops[k].op, 0, KeyReg(ops, k))]
      <3>1. DOMAIN ops = 1 .. n
        OBVIOUS
      <3> QED
        BY <1>2, <3>1 DEF LinkLeaf
    <2> QED
      BY <2>1, <2>2 DEF Compile
  <1>6. p \o t \in Seq(Inst) /\ Len(p \o t) = m + n
    <2>1. \A v, w \in Seq(Inst) : v \o w \in Seq(Inst) /\ Len(v \o w) = Len(v) + Len(w)
      OBVIOUS
    <2> QED
      BY <1>3, <1>4, <2>1
  <1>7. \A r \in 1 .. m : (p \o t)[r] = p[r]
    BY <1>3, <1>4
  <1>8. \A k \in 1 .. n : (p \o t)[m + k] = t[k]
    BY <1>3, <1>4
  <1> QED
    BY <1>3, <1>4, <1>5, <1>6, <1>7, <1>8 DEF Compiled

(* What executing a leaf means for the kinds of leaves compiled here. *)
LEMMA LeafEffects ==
  /\ \A s, i : i.op \in UnaryOps =>
       /\ Exec(s, i) = SetReg(s, i.a, Combine(i.op, s.regs[i.a], 0, i.k))
       /\ RegOperands(i) = {i.a}
  /\ \A s, i : i.op \in {"xor", "add", "sub"} =>
       /\ Exec(s, i) = SetReg(s, i.a, Combine(i.op, s.regs[i.a], s.regs[i.b], i.k))
       /\ RegOperands(i) = {i.a, i.b}
  /\ \A s, i : i.op \in UnaryOps \union {"xor", "add", "sub"} => MemOperands(s, i) = {}
  <1>1. ASSUME NEW s, NEW i, i.op \in UnaryOps
        PROVE  /\ Exec(s, i) = SetReg(s, i.a, Combine(i.op, s.regs[i.a], 0, i.k))
               /\ RegOperands(i) = {i.a}
    BY <1>1 DEF Exec, RegOperands, UnaryOps, BinaryOps, TernaryOps, MemDstOps, MemSrcOps
  <1>2. ASSUME NEW s, NEW i, i.op \in {"xor", "add", "sub"}
        PROVE  /\ Exec(s, i) = SetReg(s, i.a, Combine(i.op, s.regs[i.a], s.regs[i.b], i.k))
               /\ RegOperands(i) = {i.a, i.b}
    BY <1>2 DEF Exec, RegOperands, UnaryOps, BinaryOps, TernaryOps, MemDstOps, MemSrcOps
  <1>3. ASSUME NEW s, NEW i, i.op \in UnaryOps \union {"xor", "add", "sub"} PROVE MemOperands(s, i) = {}
    <2>1. i.op \notin MemDstOps /\ i.op \notin MemSrcOps /\ i.op # "mset"
      BY <1>3 DEF UnaryOps, MemDstOps, MemSrcOps
    <2> QED
      BY <2>1 DEF MemOperands
  <1> QED
    BY <1>1, <1>2, <1>3

LEMMA LoadedIs ==
  ASSUME NEW ops \in Seq(Links), NEW n \in Nat, n = Len(ops), 0 .. n \subseteq FormulaRegs,
         NEW v \in Word
  PROVE  /\ Loaded(ops, v) \in Shape(FormulaRegs, {})
         /\ Loaded(ops, v).regs[0] = v
         /\ \A r \in 1 .. Cardinality(Keyed(ops)) :
              /\ r \in FormulaRegs
              /\ Loaded(ops, v).regs[r] = KeyOf(ops, r)
              /\ SetReg(Loaded(ops, v), r, KeyOf(ops, r)) = Loaded(ops, v)
         /\ \A w : SetReg(Loaded(ops, v), 0, w) = Loaded(ops, w)
  <1>1. PICK m \in 0 .. n : m = Cardinality(Keyed(ops))
    BY KeyFacts
  <1>2. \A r \in 1 .. m : KeyOf(ops, r) \in Word
    BY <1>1, KeyFacts
  <1>3. 0 \in Word /\ 0 \in FormulaRegs
    BY ModulusFacts DEF Word
  <1> DEFINE File(x) == [r \in FormulaRegs |-> IF r = 0 THEN x ELSE IF r <= m THEN KeyOf(ops, r) ELSE 0]
             none == [i \in {} |-> 0]
  <1>4. \A x : Loaded(ops, x) = [regs |-> File(x), mem |-> none]
    BY <1>1 DEF Loaded
  <1>5. File(v) \in [FormulaRegs -> Word]
    <2>1. \A r \in FormulaRegs : r = 0 \/ ~(r <= m) \/ r \in 1 .. m
      BY FormulaAssumption
    <2>2. \A r \in FormulaRegs : (IF r = 0 THEN v ELSE IF r <= m THEN KeyOf(ops, r) ELSE 0) \in Word
      BY <1>2, <1>3, <2>1
    <2> QED
      BY <2>2
  <1>6. none \in [{} -> Word]
    OBVIOUS
  <1>7. Loaded(ops, v) \in Shape(FormulaRegs, {})
    <2> HIDE DEF File, none
    <2> QED
      BY <1>4, <1>5, <1>6 DEF Shape
  <1>8. File(v)[0] = v
    BY <1>3
  <1>9. \A w : [File(v) EXCEPT ![0] = w] = File(w)
    OBVIOUS
  <1>10. ASSUME NEW r \in 1 .. m
         PROVE  r \in FormulaRegs /\ File(v)[r] = KeyOf(ops, r) /\ [File(v) EXCEPT ![r] = KeyOf(ops, r)] = File(v)
    <2>1. r \in 0 .. n /\ r # 0 /\ r <= m
      BY <1>1
    <2>2. r \in FormulaRegs
      BY <2>1
    <2>3. File(v)[r] = KeyOf(ops, r)
      BY <2>1, <2>2
    <2>4. [File(v) EXCEPT ![r] = KeyOf(ops, r)] = File(v)
      <3>1. PICK y : y = KeyOf(ops, r)
        OBVIOUS
      <3>2. PICK g : g = File(v)
        OBVIOUS
      <3>3. g \in [FormulaRegs -> Word] /\ g[r] = y
        BY <1>5, <2>3, <3>1, <3>2
      <3>4. [g EXCEPT ![r] = y] = g
        BY <3>3
      <3> QED
        BY <3>1, <3>2, <3>4
    <2> QED
      BY <2>2, <2>3, <2>4
  <1> HIDE DEF File, none
  <1>11. \A g, r, w : SetReg([regs |-> g, mem |-> none], r, w) = [regs |-> [g EXCEPT ![r] = w], mem |-> none]
    BY DEF SetReg
  <1>12. Loaded(ops, v).regs = File(v)
    BY <1>4
  <1>13. \A w : SetReg(Loaded(ops, v), 0, w) = Loaded(ops, w)
    BY <1>4, <1>9, <1>11
  <1>14. \A r \in 1 .. m :
           /\ r \in FormulaRegs
           /\ Loaded(ops, v).regs[r] = KeyOf(ops, r)
           /\ SetReg(Loaded(ops, v), r, KeyOf(ops, r)) = Loaded(ops, v)
    BY <1>4, <1>10, <1>11, <1>12
  <1> QED
    BY <1>1, <1>7, <1>8, <1>12, <1>13, <1>14

(* Setting a constant to what it is changes nothing; a link's leaf computes   *)
(* the link.                                                                 *)
LEMMA KeyLeafRuns ==
  ASSUME NEW ops \in Seq(Links), NEW n \in Nat, n = Len(ops), 0 .. n \subseteq FormulaRegs,
         NEW v \in Word, NEW r \in 1 .. Cardinality(Keyed(ops))
  PROVE  CanRun(Loaded(ops, v), KeyLeaf(ops, r)) /\ Exec(Loaded(ops, v), KeyLeaf(ops, r)) = Loaded(ops, v)
  <1>1. PICK i : i = KeyLeaf(ops, r) /\ i.op = "set" /\ i.a = r /\ i.k = KeyOf(ops, r)
    BY KeyLeafIs
  <1>2. PICK s : s = Loaded(ops, v)
    OBVIOUS
  <1>3. /\ s \in Shape(FormulaRegs, {}) /\ r \in FormulaRegs
        /\ SetReg(s, r, KeyOf(ops, r)) = s
    BY <1>2, LoadedIs
  <1>4. CanRun(s, i)
    <2>1. RegOperands(i) = {r} /\ MemOperands(s, i) = {}
      <3>1. i.op \in UnaryOps
        BY <1>1 DEF UnaryOps
      <3> QED
        BY <1>1, <3>1, LeafEffects
    <2>2. DOMAIN s.regs = FormulaRegs
      BY <1>3 DEF Shape
    <2> QED
      BY <1>3, <2>1, <2>2 DEF CanRun
  <1>5. Exec(s, i) = SetReg(s, r, KeyOf(ops, r))
    <2>1. Combine("set", s.regs[r], 0, i.k) = i.k
      BY DEF Combine
    <2> QED
      <3>1. i.op \in UnaryOps
        BY <1>1 DEF UnaryOps
      <3>2. Exec(s, i) = SetReg(s, i.a, Combine(i.op, s.regs[i.a], 0, i.k))
        BY <3>1, LeafEffects
      <3> QED
        BY <1>1, <2>1, <3>2
  <1> QED
    BY <1>1, <1>2, <1>3, <1>4, <1>5

LEMMA LinkLeafRuns ==
  ASSUME NEW ops \in Seq(Links), NEW n \in Nat, n = Len(ops), 0 .. n \subseteq FormulaRegs,
         NEW v \in Word, NEW k \in 1 .. n
  PROVE  /\ CanRun(Loaded(ops, v), LinkLeaf(ops, k))
         /\ Exec(Loaded(ops, v), LinkLeaf(ops, k)) = Loaded(ops, ApplyOp(ops[k], v))
  <1>1. PICK i : i = LinkLeaf(ops, k) /\ LeafOfLink(i, ops[k], KeyReg(ops, k))
    BY LinkLeafIs
  <1>2. PICK o \in Links : o = ops[k] /\ k \in DOMAIN ops
    OBVIOUS
  <1>3. PICK s : s = Loaded(ops, v)
    OBVIOUS
  <1>4. /\ s \in Shape(FormulaRegs, {}) /\ s.regs[0] = v /\ 0 \in FormulaRegs
        /\ \A w : SetReg(s, 0, w) = Loaded(ops, w)
    BY <1>3, LoadedIs
  <1>5. DOMAIN s.regs = FormulaRegs
    BY <1>4 DEF Shape
  <1>6. CASE o.op = "rotl" /\ i = [op |-> "rotl", a |-> 0, b |-> 0, c |-> 0, k |-> o.k % Width]
    <2>1. o.k \in Nat
      BY <1>6 DEF Links
    <2>2. (o.k % Width) % Width = o.k % Width
      BY <2>1, SmallFacts
    <2>3. Combine("rotl", v, 0, o.k % Width) = ApplyOp(o, v)
      BY <1>6, <2>2 DEF Combine, ApplyOp
    <2>4. Exec(s, i) = SetReg(s, 0, ApplyOp(o, v))
      <3>1. i.op \in UnaryOps
        BY <1>6 DEF UnaryOps
      <3>2. Exec(s, i) = SetReg(s, i.a, Combine(i.op, s.regs[i.a], 0, i.k))
        BY <3>1, LeafEffects
      <3> QED
        BY <1>4, <1>6, <2>3, <3>2
    <2>5. RegOperands(i) = {0} /\ MemOperands(s, i) = {}
      <3>1. i.op \in UnaryOps
        BY <1>6 DEF UnaryOps
      <3> QED
        BY <1>6, <3>1, LeafEffects
    <2> QED
      BY <1>1, <1>2, <1>3, <1>4, <1>5, <2>4, <2>5 DEF CanRun
  <1>7. CASE o.op = "mulodd" /\ i = [op |-> "mulc", a |-> 0, b |-> 0, c |-> 0, k |-> o.k]
    <2>3. Combine("mulc", v, 0, o.k) = ApplyOp(o, v)
      BY <1>7 DEF Combine, ApplyOp
    <2>4. Exec(s, i) = SetReg(s, 0, ApplyOp(o, v))
      <3>1. i.op \in UnaryOps
        BY <1>7 DEF UnaryOps
      <3>2. Exec(s, i) = SetReg(s, i.a, Combine(i.op, s.regs[i.a], 0, i.k))
        BY <3>1, LeafEffects
      <3> QED
        BY <1>4, <1>7, <2>3, <3>2
    <2>5. RegOperands(i) = {0} /\ MemOperands(s, i) = {}
      <3>1. i.op \in UnaryOps
        BY <1>7 DEF UnaryOps
      <3> QED
        BY <1>7, <3>1, LeafEffects
    <2> QED
      BY <1>1, <1>2, <1>3, <1>4, <1>5, <2>4, <2>5 DEF CanRun
  <1>8. CASE o.op \in {"add", "xor"} /\ i = [op |-> o.op, a |-> 0, b |-> KeyReg(ops, k), c |-> 0, k |-> 0]
    <2>1. PICK r \in 1 .. Cardinality(Keyed(ops)) : r = KeyReg(ops, k) /\ KeyOf(ops, r) = o.k
      <3>1. k \in Keyed(ops)
        BY <1>2, <1>8 DEF Keyed
      <3> QED
        BY <1>2, <3>1, KeyFacts
    <2>2. r \in FormulaRegs /\ s.regs[r] = o.k
      BY <1>3, <2>1, LoadedIs
    <2>3. Combine(o.op, v, o.k, 0) = ApplyOp(o, v)
      BY <1>8 DEF Combine, ApplyOp
    <2>4. Exec(s, i) = SetReg(s, 0, ApplyOp(o, v))
      <3>1. i.op \in {"xor", "add", "sub"}
        BY <1>8
      <3>2. Exec(s, i) = SetReg(s, i.a, Combine(i.op, s.regs[i.a], s.regs[i.b], i.k))
        BY <3>1, LeafEffects
      <3> QED
        BY <1>4, <1>8, <2>1, <2>2, <2>3, <3>2
    <2>5. RegOperands(i) = {0, r} /\ MemOperands(s, i) = {}
      <3>1. i.op \in {"xor", "add", "sub"}
        BY <1>8
      <3> QED
        BY <1>8, <2>1, <3>1, LeafEffects
    <2> QED
      BY <1>1, <1>2, <1>3, <1>4, <1>5, <2>2, <2>4, <2>5 DEF CanRun
  <1> QED
    BY <1>1, <1>2, <1>6, <1>7, <1>8 DEF LeafOfLink

(* The kernel of a formula computes it, and the reversal stops at its          *)
(* constants.                                                                *)
LEMMA KernelRuns ==
  ASSUME NEW ops \in Seq(Links), NEW n \in Nat, n = Len(ops), 0 .. n \subseteq FormulaRegs,
         NEW u, Computed(u, ops, n)
  PROVE  /\ RunForward(Loaded(ops, u[0]), Compile(ops)).out = "ok"
         /\ RunForward(Loaded(ops, u[0]), Compile(ops)).s = Loaded(ops, u[n])
         /\ ReverseAll(Loaded(ops, u[n]), Compile(ops)).out # "fault"
         /\ ReverseAll(Loaded(ops, u[n]), Compile(ops)).s = Loaded(ops, u[0])
  <1>1. PICK m \in 0 .. n : m = Cardinality(Keyed(ops))
    BY KeyFacts
  <1>2. PICK q \in Seq(Inst) : q = Compile(ops) /\ Compiled(q, ops, m, n)
    BY <1>1, CompileIs DEF Compiled
  <1>3. PICK l \in Nat : l = m + n /\ l = Len(q)
    BY <1>2 DEF Compiled
  <1>4. /\ \A r \in 1 .. m : q[r] = KeyLeaf(ops, r)
        /\ \A k \in 1 .. n : q[m + k] = LinkLeaf(ops, k)
    BY <1>2 DEF Compiled
  <1>5. u \in [0 .. n -> Word] /\ \A k \in 1 .. n : u[k] = ApplyOp(ops[k], u[k - 1])
    BY DEF Computed
  <1> DEFINE c == [j \in 0 .. l |-> Loaded(ops, IF j <= m THEN u[0] ELSE u[j - m])]
             S == Shape(FormulaRegs, {})
  <1>6. c \in [0 .. l -> S]
    <2>1. ASSUME NEW j \in 0 .. l PROVE Loaded(ops, IF j <= m THEN u[0] ELSE u[j - m]) \in S
      <3>1. 0 \in 0 .. n /\ (~(j <= m) => j - m \in 0 .. n)
        BY <1>3
      <3>2. (IF j <= m THEN u[0] ELSE u[j - m]) \in Word
        BY <1>5, <3>1
      <3> QED
        BY <3>2, LoadedIs
    <2> QED
      BY <2>1
  <1>7. ASSUME NEW j \in 1 .. l PROVE CanRun(c[j - 1], q[j]) /\ c[j] = Exec(c[j - 1], q[j])
    <2>1. j \in 0 .. l /\ j - 1 \in 0 .. l /\ 0 \in 0 .. n
      OBVIOUS
    <2>2. CASE j \in 1 .. m
      <3>1. c[j - 1] = Loaded(ops, u[0]) /\ c[j] = Loaded(ops, u[0]) /\ u[0] \in Word
        BY <1>5, <2>1, <2>2
      <3> HIDE DEF c
      <3> QED
        BY <1>1, <1>4, <2>2, <3>1, KeyLeafRuns
    <2>3. CASE j \notin 1 .. m
      <3>1. PICK k \in 1 .. n : j = m + k
        BY <1>3, <2>3
      <3>2. c[j] = Loaded(ops, u[k])
        BY <2>1, <3>1
      <3>3. c[j - 1] = Loaded(ops, u[k - 1])
        <4>1. CASE k = 1
          BY <2>1, <3>1, <4>1
        <4>2. CASE k # 1
          <5>1. ~(j - 1 <= m) /\ (j - 1) - m = k - 1
            BY <3>1, <4>2
          <5> QED
            BY <2>1, <5>1
        <4> QED
          BY <4>1, <4>2
      <3>4. k - 1 \in 0 .. n
        OBVIOUS
      <3>5. u[k - 1] \in Word /\ u[k] = ApplyOp(ops[k], u[k - 1])
        BY <1>5, <3>4
      <3>6. q[j] = LinkLeaf(ops, k)
        BY <1>4, <3>1
      <3> HIDE DEF c
      <3> QED
        BY <3>2, <3>3, <3>5, <3>6, LinkLeafRuns
    <2> QED
      BY <2>2, <2>3
  <1>8. /\ 0 \in 0 .. l /\ l \in 0 .. l /\ m \in 0 .. l
        /\ c[0] = Loaded(ops, u[0]) /\ c[m] = Loaded(ops, u[0]) /\ c[l] = Loaded(ops, u[n])
    <2>1. 0 \in 0 .. l /\ l \in 0 .. l /\ m \in 0 .. l
      BY <1>3
    <2>2. 0 <= m /\ (l <= m => n = 0) /\ (~(l <= m) => l - m = n)
      BY <1>3
    <2> QED
      BY <2>1, <2>2
  <1> HIDE DEF c
  <1>9. RunForward(c[0], q) = [s |-> c[l], done |-> l, out |-> "ok"]
    <2>1. StatesOf(c, q, l)
      BY <1>7 DEF StatesOf
    <2>2. c \in [0 .. l -> Shape(FormulaRegs, {})]
      BY <1>6
    <2>3. PICK b : b = c
      OBVIOUS
    <2>4. b \in [0 .. l -> Shape(FormulaRegs, {})] /\ StatesOf(b, q, l)
      BY <2>1, <2>2, <2>3
    <2>5. RunForward(b[0], q) = [s |-> b[l], done |-> l, out |-> "ok"]
      <3>1. l \in Nat /\ l = Len(q) /\ q \in Seq(Inst)
        BY <1>3
      <3> HIDE DEF S
      <3> QED
        BY <2>4, <3>1, RunFollows
    <2> QED
      BY <2>3, <2>5
  <1>10. SuffixLen(q) = n
    <2>1. /\ SuffixLen(q) \in 0 .. l
          /\ \A k \in 1 .. l : l - k < SuffixLen(q) => Invertible(q[k])
          /\ SuffixLen(q) < l => ~Invertible(q[l - SuffixLen(q)])
      BY <1>3, SuffixIs
    <2>2. PICK x \in 0 .. l : x = SuffixLen(q)
      BY <2>1
    <2>3. ASSUME x < n PROVE FALSE
      <3>0. n - x \in 1 .. n /\ l - x = m + (n - x) /\ x < l
        BY <1>3, <2>3
      <3>1. PICK k \in 1 .. n : k = n - x /\ l - x = m + k /\ x < l
        BY <3>0
      <3>2. ~Invertible(LinkLeaf(ops, k))
        BY <1>4, <2>1, <2>2, <3>1
      <3>3. LeafOfLink(LinkLeaf(ops, k), ops[k], KeyReg(ops, k)) /\ ops[k] \in Links /\ k \in DOMAIN ops
        BY LinkLeafIs
      <3>4. LeafOfLink(LinkLeaf(ops, k), ops[k], 1) \/ KeyReg(ops, k) \in Nat \ {0}
        <4>1. CASE k \in Keyed(ops)
          BY <4>1, KeyFacts
        <4>2. CASE k \notin Keyed(ops)
          BY <3>3, <4>2 DEF Keyed, LeafOfLink
        <4> QED
          BY <4>1, <4>2
      <3>5. 1 \in Nat \ {0}
        OBVIOUS
      <3>6. PICK i : i = LinkLeaf(ops, k)
        OBVIOUS
      <3>7. PICK r \in Nat \ {0} : LeafOfLink(i, ops[k], r)
        BY <3>3, <3>4, <3>5, <3>6
      <3>8. Invertible(i)
        BY <3>3, <3>7, LinkLeafTyped
      <3> QED
        BY <3>2, <3>6, <3>8
    <2>4. ASSUME x > n PROVE FALSE
      <3>1. m \in 1 .. m /\ m \in 1 .. l /\ l - m < x
        BY <1>3, <2>4
      <3>2. Invertible(q[m]) /\ q[m] = KeyLeaf(ops, m)
        BY <1>4, <2>1, <2>2, <3>1
      <3>3. ~Invertible(KeyLeaf(ops, m))
        BY <1>1, <3>1, KeyLeafIs
      <3> QED
        BY <3>2, <3>3
    <2> QED
      BY <2>2, <2>3, <2>4
  <1>11. c[0] \in S
    BY <1>6, <1>8
  <1>12. GoesBack(c[0], q, l)
    <2>1. RunForward(c[0], q).out = "ok"
      BY <1>9
    <2> QED
      BY <1>11, <2>1, ReverseGoesBack DEF S
  <1>13. Least(l, n) = n /\ l - n = m
    BY <1>3 DEF Least
  <1>14. PICK t : t = RunForward(c[0], SubSeq(q, 1, m))
    OBVIOUS
  <1>15. PICK back : back = ReverseN(c[l], q, l)
    OBVIOUS
  <1>16. back.out = (IF n = l THEN "ok" ELSE "stop") /\ back.s = t.s
    <2>1. RunForward(c[0], q).s = c[l]
      BY <1>9
    <2> QED
      BY <1>3, <1>10, <1>12, <1>13, <1>14, <1>15, <2>1 DEF GoesBack
  <1>17. t.s = c[m]
    <2>1. PICK p : p = SubSeq(q, 1, m)
      OBVIOUS
    <2>2. p \in Seq(Inst) /\ Len(p) = m /\ \A k \in 1 .. m : p[k] = q[k]
      <3>1. m \in 0 .. Len(q) /\ q \in Seq(Inst)
        BY <1>3
      <3> QED
        BY <2>1, <3>1
    <2> DEFINE d == [j \in 0 .. m |-> c[j]]
    <2>3. d \in [0 .. m -> S] /\ d[0] = c[0] /\ d[m] = c[m]
      <3>1. \A j \in 0 .. m : j \in 0 .. l
        BY <1>3
      <3>2. 0 \in 0 .. m /\ m \in 0 .. m
        OBVIOUS
      <3> QED
        BY <1>6, <3>1, <3>2
    <2>4. ASSUME NEW k \in 1 .. m PROVE CanRun(d[k - 1], p[k]) /\ d[k] = Exec(d[k - 1], p[k])
      <3>1. k \in 1 .. l /\ k \in 0 .. m /\ k - 1 \in 0 .. m
        BY <1>3
      <3> QED
        BY <1>7, <2>2, <3>1
    <2> HIDE DEF d
    <2>5. RunForward(d[0], p) = [s |-> d[m], done |-> m, out |-> "ok"]
      <3>1. StatesOf(d, p, m)
        BY <2>4 DEF StatesOf
      <3>2. d \in [0 .. m -> Shape(FormulaRegs, {})]
        BY <2>3
      <3>3. PICK b : b = d
        OBVIOUS
      <3>4. b \in [0 .. m -> Shape(FormulaRegs, {})] /\ StatesOf(b, p, m)
        BY <3>1, <3>2, <3>3
      <3>5. m \in Nat /\ m = Len(p) /\ p \in Seq(Inst)
        BY <2>2
      <3>6. RunForward(b[0], p) = [s |-> b[m], done |-> m, out |-> "ok"]
        BY <3>4, <3>5, RunFollows
      <3> QED
        BY <3>3, <3>6
    <2> QED
      BY <1>14, <2>1, <2>3, <2>5
  <1> QED
    BY <1>2, <1>3, <1>8, <1>9, <1>15, <1>16, <1>17 DEF ReverseAll

(* All that a formula and its kernel make of an input. *)
LEMMA FormulaFacts ==
  ASSUME NEW ops \in Formulas, NEW x \in FormulaInputs, NEW y, y = ApplyAll(ops, x)
  PROVE  /\ ApplyAll(InverseAll(ops), y) = x
         /\ Loaded(ops, y).regs[0] = y
         /\ RunForward(Loaded(ops, x), Compile(ops)).out = "ok"
         /\ RunForward(Loaded(ops, x), Compile(ops)).s = Loaded(ops, y)
         /\ ReverseAll(Loaded(ops, y), Compile(ops)).out # "fault"
         /\ ReverseAll(Loaded(ops, y), Compile(ops)).s = Loaded(ops, x)
  <1>1. ops \in Seq(Links) /\ x \in Word /\ 0 .. Len(ops) \subseteq FormulaRegs
    BY FormulaAssumption
  <1>2. PICK n \in Nat : n = Len(ops)
    BY <1>1
  <1>3. PICK u : Computed(u, ops, n) /\ u[0] = x
    BY <1>1, <1>2, ComputedExists
  <1>4. y = u[n]
    BY <1>2, <1>3, ApplyFollows
  <1>5. y \in Word
    BY <1>3, <1>4 DEF Computed
  <1>6. 0 .. n \subseteq FormulaRegs
    BY <1>1, <1>2
  <1>7. ApplyAll(InverseAll(ops), y) = x
    BY <1>1, <1>2, <1>3, <1>4, InverseFollows
  <1>8. Loaded(ops, y).regs[0] = y
    BY <1>1, <1>2, <1>5, <1>6, LoadedIs
  <1>9. /\ RunForward(Loaded(ops, u[0]), Compile(ops)).out = "ok"
        /\ RunForward(Loaded(ops, u[0]), Compile(ops)).s = Loaded(ops, u[n])
        /\ ReverseAll(Loaded(ops, u[n]), Compile(ops)).out # "fault"
        /\ ReverseAll(Loaded(ops, u[n]), Compile(ops)).s = Loaded(ops, u[0])
    BY <1>1, <1>2, <1>3, <1>6, KernelRuns
  <1> QED
    BY <1>3, <1>4, <1>7, <1>8, <1>9

(* The inductive invariant: where each phase leaves the kernel's state. *)
FormulaInv ==
  /\ formula \in Formulas /\ input \in FormulaInputs
  /\ f_at \in {"math", "forward", "back", "done"}
  /\ f_at # "math" => computed = ApplyAll(formula, input) /\ inverted = input
  /\ f_at = "forward" => kernelState = Loaded(formula, input)
  /\ f_at = "back" => kernelState = Loaded(formula, computed)
  /\ f_at = "done" => kernelState = Loaded(formula, input)

LEMMA FormulaInvStep == FormulaInv /\ [FormulaNext]_formulaVars => FormulaInv'
  <1> SUFFICES ASSUME FormulaInv, [FormulaNext]_formulaVars PROVE FormulaInv'
    OBVIOUS
  <1>1. CASE ComputeMath
    <2>1. computed' = ApplyAll(formula, input) /\ inverted' = ApplyAll(InverseAll(formula), computed')
      BY <1>1 DEF ComputeMath
    <2>2. inverted' = input
      BY <2>1, FormulaFacts DEF FormulaInv
    <2> QED
      BY <1>1, <2>1, <2>2 DEF ComputeMath, FormulaInv
  <1>2. CASE KernelForward
    <2>1. PICK r : r = RunForward(kernelState, Compile(formula))
      OBVIOUS
    <2>2. RunKernel("forward", "back", r)
      BY <1>2, <2>1 DEF KernelForward
    <2>3. f_at = "forward" /\ computed = ApplyAll(formula, input) /\ kernelState = Loaded(formula, input)
      BY <2>2 DEF RunKernel, FormulaInv
    <2>4. r.out = "ok" /\ r.s = Loaded(formula, computed)
      BY <2>1, <2>3, FormulaFacts DEF FormulaInv
    <2> QED
      BY <2>2, <2>3, <2>4 DEF RunKernel, FormulaInv
  <1>3. CASE KernelBack
    <2>1. PICK r : r = ReverseAll(kernelState, Compile(formula))
      OBVIOUS
    <2>2. RunKernel("back", "done", r)
      BY <1>3, <2>1 DEF KernelBack
    <2>3. f_at = "back" /\ computed = ApplyAll(formula, input) /\ kernelState = Loaded(formula, computed)
      BY <2>2 DEF RunKernel, FormulaInv
    <2>4. r.out # "fault" /\ r.s = Loaded(formula, input)
      BY <2>1, <2>3, FormulaFacts DEF FormulaInv
    <2> QED
      BY <2>2, <2>3, <2>4 DEF RunKernel, FormulaInv
  <1>4. CASE UNCHANGED formulaVars
    BY <1>4 DEF formulaVars, FormulaInv
  <1> QED
    BY <1>1, <1>2, <1>3, <1>4 DEF FormulaNext

LEMMA FormulaInvHolds ==
  /\ FormulaInv => KernelIsFormula /\ InverseIsExact
  /\ FormulaStart(TRUE) => FormulaInv
  <1>1. FormulaStart(TRUE) => FormulaInv
    BY DEF FormulaStart, FormulaInv
  <1>2. ASSUME FormulaInv PROVE KernelIsFormula /\ InverseIsExact
    <2>1. ASSUME f_at = "back" PROVE kernelState.regs[0] = computed
      BY <1>2, <2>1, FormulaFacts DEF FormulaInv
    <2> QED
      BY <1>2, <2>1 DEF FormulaInv, KernelIsFormula, InverseIsExact
  <1> QED
    BY <1>1, <1>2

(* The kernel compiled from a formula computes it and is taken back exactly to *)
(* its constants and input, whatever the formula and the width of a word.      *)
THEOREM FormulaIsExact == FormulaSpec => [](KernelIsFormula /\ InverseIsExact)
  <1>1. FormulaStart(TRUE) => FormulaInv
    BY FormulaInvHolds
  <1>2. FormulaInv /\ [FormulaNext]_formulaVars => FormulaInv'
    BY FormulaInvStep
  <1>3. FormulaInv => KernelIsFormula /\ InverseIsExact
    BY FormulaInvHolds
  <1> QED
    BY <1>1, <1>2, <1>3, PTL DEF FormulaSpec

-----------------------------------------------------------------------------
(* The cipher. *)

(* The leaves of a round: all but the last change the text alone, the last    *)
(* counts the round.                                                         *)
TextLeaf(i) ==
  /\ i \in Inst /\ i.a \in 0 .. 3
  /\ \/ i.op \in {"xor", "add"} /\ i.b \in 0 .. 8 /\ i.a # i.b
     \/ i.op = "rotl"

CountLeaf == Leaf("inc", 8, 0)

LEMMA BodyIs ==
  /\ Len(RoundBody) = 18
  /\ \A j \in 1 .. 17 : TextLeaf(RoundBody[j])
  /\ RoundBody[18] = CountLeaf
  <1>1. PICK b : b = RoundBody
    OBVIOUS
  <1>2. /\ Len(b) = 18
        /\ b[1] = Leaf("xor", 0, 8) /\ b[2] = Leaf("add", 0, 1) /\ b[3] = Rot(1, 17)
        /\ b[4] = Leaf("xor", 1, 0) /\ b[5] = Leaf("add", 2, 3) /\ b[6] = Rot(3, 13)
        /\ b[7] = Leaf("xor", 3, 2) /\ b[8] = Leaf("add", 0, 2) /\ b[9] = Rot(2, 9)
        /\ b[10] = Leaf("xor", 2, 0) /\ b[11] = Leaf("add", 1, 3) /\ b[12] = Rot(3, 5)
        /\ b[13] = Leaf("xor", 3, 1) /\ b[14] = Leaf("add", 0, 4) /\ b[15] = Leaf("add", 1, 5)
        /\ b[16] = Leaf("add", 2, 6) /\ b[17] = Leaf("add", 3, 7) /\ b[18] = Leaf("inc", 8, 0)
    BY <1>1 DEF RoundBody
  <1>3. ASSUME NEW op \in {"xor", "add"}, NEW r \in 0 .. 3, NEW q \in 0 .. 8, r # q
        PROVE  TextLeaf(Leaf(op, r, q))
    <2>1. 0 \in Word
      BY ModulusFacts DEF Word
    <2> QED
      BY <1>3, <2>1 DEF TextLeaf, Leaf, Inst, Ops, BinaryOps
  <1>4. ASSUME NEW r \in 0 .. 3, NEW k \in Nat PROVE TextLeaf(Rot(r, k))
    <2>1. k % Width \in Word
      BY SmallFacts
    <2>2. Rot(r, k) = [op |-> "rotl", a |-> r, b |-> 0, c |-> 0, k |-> k % Width]
      BY DEF Rot, Leaf
    <2> QED
      BY <2>1, <2>2 DEF TextLeaf, Inst, Ops, UnaryOps
  <1>5. /\ TextLeaf(b[1]) /\ TextLeaf(b[2]) /\ TextLeaf(b[3]) /\ TextLeaf(b[4]) /\ TextLeaf(b[5])
        /\ TextLeaf(b[6]) /\ TextLeaf(b[7]) /\ TextLeaf(b[8]) /\ TextLeaf(b[9])
    BY <1>2, <1>3, <1>4
  <1>6. /\ TextLeaf(b[10]) /\ TextLeaf(b[11]) /\ TextLeaf(b[12]) /\ TextLeaf(b[13])
        /\ TextLeaf(b[14]) /\ TextLeaf(b[15]) /\ TextLeaf(b[16]) /\ TextLeaf(b[17])
    BY <1>2, <1>3, <1>4
  <1>7. \A j \in 1 .. 17 : j \in {1, 2, 3, 4, 5, 6, 7, 8, 9, 10, 11, 12, 13, 14, 15, 16, 17}
    OBVIOUS
  <1>8. \A j \in 1 .. 17 : TextLeaf(b[j])
    BY <1>5, <1>6, <1>7
  <1> QED
    BY <1>1, <1>2, <1>8 DEF CountLeaf

LEMMA BodyInvertible ==
  /\ CountLeaf \in Inst /\ Invertible(CountLeaf)
  /\ \A i : TextLeaf(i) => i \in Inst /\ Invertible(i)
  <1> USE DEF Invertible, IsIrreversible, IrreversibleOps, OperandAlias, MemDstOps, MemSrcOps
  <1>1. CountLeaf \in Inst /\ Invertible(CountLeaf)
    <2>1. 0 \in Word
      BY ModulusFacts DEF Word
    <2> QED
      BY <2>1 DEF CountLeaf, Leaf, Inst, Ops, UnaryOps
  <1>2. \A i : TextLeaf(i) => i \in Inst /\ Invertible(i)
    BY DEF TextLeaf
  <1> QED
    BY <1>1, <1>2

(* What the leaves of n rounds are. *)
LEMMA CipherLeaves ==
  ASSUME NEW n \in Nat
  PROVE  /\ CipherKernel(n) \in Seq(Inst) /\ Len(CipherKernel(n)) = n * 18
         /\ AllInvertible(CipherKernel(n))
         /\ \A k \in 1 .. n * 18 :
              IF (k - 1) % 18 = 17 THEN CipherKernel(n)[k] = CountLeaf ELSE TextLeaf(CipherKernel(n)[k])
  <1>1. PICK l \in Nat : l = n * 18
    OBVIOUS
  <1>2. PICK q : q = CipherKernel(n)
    OBVIOUS
  <1>3. q = [k \in 1 .. l |-> RoundBody[((k - 1) % 18) + 1]]
    BY <1>1, <1>2, BodyIs DEF CipherKernel
  <1>4. ASSUME NEW k \in 1 .. l
        PROVE  IF (k - 1) % 18 = 17 THEN q[k] = CountLeaf ELSE TextLeaf(q[k])
    <2>1. q[k] = RoundBody[((k - 1) % 18) + 1]
      BY <1>3
    <2>2. PICK j \in 0 .. 17 : j = (k - 1) % 18
      OBVIOUS
    <2>3. j = 17 \/ j + 1 \in 1 .. 17
      OBVIOUS
    <2> QED
      BY <2>1, <2>2, <2>3, BodyIs
  <1>5. \A k \in 1 .. l : q[k] \in Inst /\ Invertible(q[k])
    BY <1>4, BodyInvertible
  <1>6. q \in Seq(Inst) /\ Len(q) = l
    BY <1>3, <1>5
  <1>7. AllInvertible(q)
    BY <1>5, <1>6 DEF AllInvertible
  <1> QED
    BY <1>1, <1>2, <1>4, <1>6, <1>7

(* A state with the key in place, the rounds counted, and nothing elsewhere. *)
Kept(s, rounds) ==
  /\ s \in Shape(CipherRegs, {})
  /\ \A r \in 4 .. 7 : s.regs[r] = key[r - 4]
  /\ s.regs[8] = rounds % Modulus
  /\ \A r \in CipherRegs \ (0 .. 8) : s.regs[r] = 0

LEMMA KeptIs ==
  ASSUME key \in [0 .. 3 -> Word], NEW rounds \in Nat
  PROVE  /\ \A text \in [0 .. 3 -> Word] : Kept(CipherState(text, rounds), rounds)
         /\ \A s : Kept(s, rounds) => s = CipherState(TextIn(s), rounds)
  <1>1. 0 .. 8 \subseteq CipherRegs /\ 0 \in Word /\ rounds % Modulus \in Word
    <2>1. PICK m \in Nat \ {0} : m = Modulus
      BY ModulusFacts
    <2>2. rounds % m \in 0 .. m - 1
      OBVIOUS
    <2> QED
      BY <2>1, <2>2, CipherAssumption DEF Word
  <1>2. PICK z : z = [m \in {} |-> 0]
    OBVIOUS
  <1>3. PICK d : d = rounds % Modulus
    OBVIOUS
  <1> DEFINE File(text) == [r \in CipherRegs |-> CASE r \in 0 .. 3 -> text[r]
                                                   [] r \in 4 .. 7 -> key[r - 4]
                                                   [] r = 8        -> d
                                                   [] OTHER        -> 0]
  <1>4. \A text : CipherState(text, rounds) = [regs |-> File(text), mem |-> z]
    BY <1>2, <1>3 DEF CipherState
  <1>5. \A text : /\ \A r \in 0 .. 3 : File(text)[r] = text[r]
                  /\ \A r \in 4 .. 7 : File(text)[r] = key[r - 4]
                  /\ File(text)[8] = d
                  /\ \A r \in CipherRegs \ (0 .. 8) : File(text)[r] = 0
    <2> TAKE text
    <2>1. \A r \in 0 .. 3 : File(text)[r] = text[r]
      BY <1>1
    <2>2. \A r \in 4 .. 7 : File(text)[r] = key[r - 4]
      <3> TAKE r \in 4 .. 7
      <3>1. r \in CipherRegs /\ ~(r \in 0 .. 3) /\ r # 8
        BY <1>1
      <3> QED
        BY <3>1
    <2>3. File(text)[8] = d
      <3>1. 8 \in CipherRegs /\ ~(8 \in 0 .. 3) /\ ~(8 \in 4 .. 7)
        BY <1>1
      <3> QED
        BY <3>1
    <2>4. \A r \in CipherRegs \ (0 .. 8) : File(text)[r] = 0
      <3> TAKE r \in CipherRegs \ (0 .. 8)
      <3>1. r \in CipherRegs /\ ~(r \in 0 .. 3) /\ ~(r \in 4 .. 7) /\ r # 8
        OBVIOUS
      <3> QED
        BY <3>1
    <2> QED
      BY <2>1, <2>2, <2>3, <2>4
  <1>6. \A text : DOMAIN File(text) = CipherRegs /\ File(text) = [r \in CipherRegs |-> File(text)[r]]
    OBVIOUS
  <1> HIDE DEF File
  <1>7. \A r \in CipherRegs : r \in 0 .. 3 \/ r \in 4 .. 7 \/ r = 8 \/ r \in CipherRegs \ (0 .. 8)
    <2>1. \A r \in 0 .. 8 : r \in 0 .. 3 \/ r \in 4 .. 7 \/ r = 8
      OBVIOUS
    <2> QED
      BY <2>1
  <1>8. ASSUME NEW text \in [0 .. 3 -> Word] PROVE Kept(CipherState(text, rounds), rounds)
    <2>1. \A r \in 4 .. 7 : key[r - 4] \in Word
      <3>1. \A r \in 4 .. 7 : r - 4 \in 0 .. 3
        OBVIOUS
      <3> QED
        BY <3>1
    <2>2. \A r \in CipherRegs : File(text)[r] \in Word
      BY <1>1, <1>3, <1>5, <1>7, <2>1
    <2>3. File(text) \in [CipherRegs -> Word]
      BY <1>6, <2>2
    <2>4. z \in [{} -> Word]
      BY <1>2
    <2>5. CipherState(text, rounds) \in Shape(CipherRegs, {})
      <3>1. PICK g : g = File(text) /\ g \in [CipherRegs -> Word]
        BY <2>3
      <3>2. CipherState(text, rounds) = [regs |-> g, mem |-> z]
        BY <1>4, <3>1
      <3> QED
        BY <2>4, <3>1, <3>2 DEF Shape
    <2>6. CipherState(text, rounds).regs = File(text)
      BY <1>4
    <2> QED
      BY <1>3, <1>5, <2>5, <2>6 DEF Kept
  <1>9. ASSUME NEW s, Kept(s, rounds) PROVE s = CipherState(TextIn(s), rounds)
    <2>1. PICK g, h : s = [regs |-> g, mem |-> h] /\ g \in [CipherRegs -> Word] /\ h \in [{} -> Word]
      BY <1>9 DEF Kept, Shape
    <2>2. h = z
      BY <1>2, <2>1
    <2>3. \A r \in 0 .. 3 : TextIn(s)[r] = g[r]
      BY <2>1 DEF TextIn
    <2>4. PICK t : t = TextIn(s)
      OBVIOUS
    <2>5. \A r \in CipherRegs : File(t)[r] = g[r]
      <3>1. /\ \A r \in 4 .. 7 : g[r] = key[r - 4]
            /\ g[8] = d
            /\ \A r \in CipherRegs \ (0 .. 8) : g[r] = 0
        BY <1>3, <1>9, <2>1 DEF Kept
      <3> QED
        BY <1>5, <1>7, <2>3, <2>4, <3>1
    <2>6. File(t) = g
      BY <1>6, <2>1, <2>5
    <2> QED
      BY <1>4, <2>1, <2>2, <2>4, <2>6
  <1> QED
    BY <1>8, <1>9

(* Every leaf runs on such a state and leaves one. *)
LEMMA KeptByLeaf ==
  ASSUME NEW rounds \in Nat, NEW s, Kept(s, rounds)
  PROVE  /\ CanRun(s, CountLeaf) /\ Kept(Exec(s, CountLeaf), rounds + 1)
         /\ \A i : TextLeaf(i) => CanRun(s, i) /\ Kept(Exec(s, i), rounds)
  <1>1. 0 .. 8 \subseteq CipherRegs /\ 0 \in Word
    BY ModulusFacts, CipherAssumption DEF Word
  <1>2. s \in Shape(CipherRegs, {}) /\ DOMAIN s.regs = CipherRegs /\ \A r \in CipherRegs : s.regs[r] \in Word
    BY DEF Kept, Shape
  <1>3. ASSUME NEW r \in CipherRegs, NEW v \in Word
        PROVE  /\ SetReg(s, r, v) \in Shape(CipherRegs, {}) /\ SetReg(s, r, v).regs[r] = v
               /\ \A p \in CipherRegs \ {r} : SetReg(s, r, v).regs[p] = s.regs[p]
    BY <1>2 DEF Shape, SetReg
  <1>4. CanRun(s, CountLeaf) /\ Kept(Exec(s, CountLeaf), rounds + 1)
    <2>1. PICK i : i = CountLeaf /\ i = [op |-> "inc", a |-> 8, b |-> 0, c |-> 0, k |-> 0] /\ i.op \in UnaryOps
      <3>1. /\ CountLeaf = [op |-> "inc", a |-> 8, b |-> 0, c |-> 0, k |-> 0]
            /\ CountLeaf.op \in UnaryOps
        BY DEF CountLeaf, Leaf, UnaryOps
      <3> QED
        BY <3>1
    <2>2. /\ Exec(s, i) = SetReg(s, i.a, Combine(i.op, s.regs[i.a], 0, i.k))
          /\ RegOperands(i) = {i.a} /\ MemOperands(s, i) = {}
      BY <2>1, LeafEffects
    <2>3. CanRun(s, i)
      BY <1>1, <1>2, <2>1, <2>2 DEF CanRun
    <2>4. PICK v : v = WrapAdd(s.regs[8], 1)
      OBVIOUS
    <2>5. v = (rounds + 1) % Modulus /\ v \in Word
      <3>1. PICK m \in Nat \ {0} : m = Modulus
        BY ModulusFacts
      <3>2. s.regs[8] = rounds % m
        BY <3>1 DEF Kept
      <3>3. ((rounds % m) + 1) % m = (rounds + 1) % m
        <4>1. rounds \in Int /\ 1 \in Int
          OBVIOUS
        <4> QED
          BY <4>1, ModGoesOn
      <3>4. (rounds + 1) % m \in 0 .. m - 1
        OBVIOUS
      <3> QED
        BY <2>4, <3>1, <3>2, <3>3, <3>4 DEF WrapAdd, Word
    <2>6. Combine("inc", s.regs[8], 0, 0) = v
      BY <2>4 DEF Combine
    <2>7. Exec(s, i) = SetReg(s, 8, v)
      BY <2>1, <2>2, <2>6
    <2>8. 8 \in CipherRegs /\ \A r \in 4 .. 7 : r \in CipherRegs \ {8}
      BY <1>1
    <2>9. \A r \in CipherRegs \ (0 .. 8) : r \in CipherRegs \ {8}
      OBVIOUS
    <2>10. PICK t : t = SetReg(s, 8, v)
      OBVIOUS
    <2>11. /\ t \in Shape(CipherRegs, {}) /\ t.regs[8] = v
           /\ \A p \in CipherRegs \ {8} : t.regs[p] = s.regs[p]
      BY <1>3, <2>5, <2>8, <2>10
    <2>12. Kept(t, rounds + 1)
      BY <2>5, <2>8, <2>9, <2>11 DEF Kept
    <2> QED
      BY <2>1, <2>3, <2>7, <2>10, <2>12
  <1>5. ASSUME NEW i, TextLeaf(i) PROVE CanRun(s, i) /\ Kept(Exec(s, i), rounds)
    <2>1. i \in Inst /\ i.a \in 0 .. 3 /\ i.a \in CipherRegs /\ i.k \in Word
      BY <1>1, <1>5 DEF TextLeaf, Inst
    <2>2. \E v \in Word : Exec(s, i) = SetReg(s, i.a, v) /\ CanRun(s, i)
      <3>1. CASE i.op = "rotl"
        <4>1. i.op \in UnaryOps /\ i.op \in CombineOps
          BY <3>1 DEF UnaryOps, CombineOps
        <4>2. /\ Exec(s, i) = SetReg(s, i.a, Combine(i.op, s.regs[i.a], 0, i.k))
              /\ RegOperands(i) = {i.a} /\ MemOperands(s, i) = {}
          BY <4>1, LeafEffects
        <4>3. Combine(i.op, s.regs[i.a], 0, i.k) \in Word
          BY <1>1, <1>2, <2>1, <4>1, CombineWord
        <4> QED
          BY <1>2, <2>1, <4>2, <4>3 DEF CanRun
      <3>2. CASE i.op \in {"xor", "add"} /\ i.b \in 0 .. 8
        <4>1. i.op \in {"xor", "add", "sub"} /\ i.op \in CombineOps /\ i.b \in CipherRegs
          BY <1>1, <3>2 DEF CombineOps
        <4>2. /\ Exec(s, i) = SetReg(s, i.a, Combine(i.op, s.regs[i.a], s.regs[i.b], i.k))
              /\ RegOperands(i) = {i.a, i.b} /\ MemOperands(s, i) = {}
          BY <4>1, LeafEffects
        <4>3. Combine(i.op, s.regs[i.a], s.regs[i.b], i.k) \in Word
          BY <1>2, <2>1, <4>1, CombineWord
        <4> QED
          BY <1>2, <2>1, <4>1, <4>2, <4>3 DEF CanRun
      <3> QED
        BY <1>5, <3>1, <3>2 DEF TextLeaf
    <2>3. PICK v \in Word : Exec(s, i) = SetReg(s, i.a, v) /\ CanRun(s, i)
      BY <2>2
    <2>4. PICK t : t = SetReg(s, i.a, v)
      OBVIOUS
    <2>5. t \in Shape(CipherRegs, {}) /\ \A p \in CipherRegs \ {i.a} : t.regs[p] = s.regs[p]
      BY <1>3, <2>1, <2>4
    <2>6. 8 \in CipherRegs \ {i.a} /\ \A r \in 4 .. 7 : r \in CipherRegs \ {i.a}
      BY <1>1, <2>1
    <2>7. \A r \in CipherRegs \ (0 .. 8) : r \in CipherRegs \ {i.a}
      BY <2>1
    <2>8. Kept(t, rounds)
      BY <2>5, <2>6, <2>7 DEF Kept
    <2> QED
      BY <2>3, <2>4, <2>8
  <1> QED
    BY <1>4, <1>5

LEMMA CipherRuns ==
  ASSUME key \in [0 .. 3 -> Word], NEW text \in [0 .. 3 -> Word], NEW n \in Nat, NEW z,
         z = RunForward(CipherState(text, 0), CipherKernel(n)).s
  PROVE  /\ z = CipherState(TextIn(z), n)
         /\ ReverseAll(z, CipherKernel(n)).s = CipherState(text, 0)
  <1>1. PICK q \in Seq(Inst) : q = CipherKernel(n)
    BY CipherLeaves
  <1>2. PICK l \in Nat : l = n * 18 /\ l = Len(q)
    BY <1>1, CipherLeaves
  <1>3. \A k \in 1 .. l : IF (k - 1) % 18 = 17 THEN q[k] = CountLeaf ELSE TextLeaf(q[k])
    BY <1>1, <1>2, CipherLeaves
  <1>4. PICK s : s = CipherState(text, 0)
    OBVIOUS
  <1>5. Kept(s, 0)
    <2>1. 0 \in Nat
      OBVIOUS
    <2> QED
      BY <1>4, <2>1, KeptIs
  <1>6. s \in Shape(CipherRegs, {})
    BY <1>5 DEF Kept
  <1>7. PICK f : /\ f \in [0 .. l -> Res(CipherRegs, {})]
                 /\ Forth(f, s, q, l) /\ RunForward(s, q) = f[l]
    BY <1>2, <1>6, RunIsForth
  <1> DEFINE P == {k \in 0 .. l : f[k].out = "ok" /\ Kept(f[k].s, k \div 18)}
  <1>8. 0 \in P
    <2>1. 0 \div 18 = 0
      OBVIOUS
    <2> QED
      BY <1>5, <1>7, <2>1 DEF Forth, Go
  <1>9. ASSUME NEW k \in 1 .. l, k - 1 \in P PROVE k \in P
    <2>1. f[k] = ForwardLeaf(f[k - 1], q[k]) /\ k \in 0 .. l
      BY <1>7 DEF Forth
    <2>2. PICK r : r = f[k - 1] /\ r.out = "ok" /\ Kept(r.s, (k - 1) \div 18)
      BY <1>9
    <2>3. PICK c \in Nat : c = (k - 1) \div 18
      <3>1. k - 1 \in Nat
        OBVIOUS
      <3> QED
        BY <3>1
    <2>4. Kept(r.s, c)
      BY <2>2, <2>3
    <2>5. CASE (k - 1) % 18 = 17
      <3>1. q[k] = CountLeaf /\ k \div 18 = c + 1
        <4>1. k \div 18 = c + 1
          BY <2>3, <2>5
        <4> QED
          BY <1>3, <2>5, <4>1
      <3>2. CanRun(r.s, q[k]) /\ Kept(Exec(r.s, q[k]), c + 1)
        BY <2>4, <3>1, KeptByLeaf
      <3> QED
        BY <2>1, <2>2, <3>1, <3>2 DEF ForwardLeaf
    <2>6. CASE (k - 1) % 18 # 17
      <3>1. TextLeaf(q[k]) /\ k \div 18 = c
        <4>1. k \div 18 = c
          BY <2>3, <2>6
        <4> QED
          BY <1>3, <2>6, <4>1
      <3>2. CanRun(r.s, q[k]) /\ Kept(Exec(r.s, q[k]), c)
        BY <2>4, <3>1, KeptByLeaf
      <3> QED
        BY <2>1, <2>2, <3>1, <3>2 DEF ForwardLeaf
    <2> QED
      BY <2>5, <2>6
  <1>10. \A k \in 1 .. l : k - 1 \in P => k \in P
    BY <1>9
  <1> HIDE DEF P
  <1>11. l \in P
    <2>1. \A k \in 0 .. l : k \in P
      BY <1>8, <1>10, UpTo
    <2> QED
      BY <2>1
  <1>12. f[l].out = "ok" /\ Kept(f[l].s, n)
    <2>1. l \div 18 = n
      BY <1>2
    <2> QED
      BY <1>11, <2>1 DEF P
  <1>13. RunForward(s, q).out = "ok" /\ z = RunForward(s, q).s /\ Kept(z, n)
    BY <1>1, <1>4, <1>7, <1>12
  <1>14. AllInvertible(q)
    BY <1>1, CipherLeaves
  <1>15. ReverseAll(z, q).s = s
    BY <1>6, <1>13, <1>14, ReverseUndoesRun
  <1>16. z = CipherState(TextIn(z), n)
    BY <1>13, KeptIs
  <1> QED
    BY <1>1, <1>4, <1>15, <1>16

(* The inductive invariant: what encrypting leaves is the run itself. *)
CipherInv ==
  /\ plain \in Plains /\ key \in Keys /\ round_count \in Rounds
  /\ k_at \in {"encrypt", "decrypt", "done"}
  /\ k_at = "decrypt" => crypt = RunForward(CipherState(plain, 0), CipherKernel(round_count)).s
  /\ DecryptIsReverse

LEMMA CipherTyped ==
  ASSUME CipherInv
  PROVE  key \in [0 .. 3 -> Word] /\ plain \in [0 .. 3 -> Word] /\ round_count \in Nat
  BY CipherAssumption DEF CipherInv

LEMMA CipherInvStep == CipherInv /\ [CipherNext]_cipherVars => CipherInv'
  <1> SUFFICES ASSUME CipherInv, [CipherNext]_cipherVars PROVE CipherInv'
    OBVIOUS
  <1>1. ASSUME key' = key PROVE \A t, n : CipherState(t, n)' = CipherState(t, n)
    BY <1>1 DEF CipherState
  <1>2. CASE Encrypt
    BY <1>2 DEF Encrypt, CipherInv, DecryptIsReverse, CipherState
  <1>3. CASE Decrypt
    <2>1. PICK z : z = crypt
      OBVIOUS
    <2>2. k_at = "decrypt" /\ z = RunForward(CipherState(plain, 0), CipherKernel(round_count)).s
      BY <1>3, <2>1 DEF Decrypt, CipherInv
    <2>3. /\ z = CipherState(TextIn(z), round_count)
          /\ ReverseAll(z, CipherKernel(round_count)).s = CipherState(plain, 0)
      BY <2>2, CipherTyped, CipherRuns
    <2>4. crypt' = CipherState(plain, 0)
      BY <1>3, <2>1, <2>3 DEF Decrypt, CounterBack
    <2> QED
      BY <1>3, <2>4 DEF Decrypt, CipherInv, DecryptIsReverse, CipherState
  <1>4. CASE UNCHANGED cipherVars
    BY <1>4 DEF cipherVars, CipherInv, DecryptIsReverse, CipherState
  <1> QED
    BY <1>2, <1>3, <1>4 DEF CipherNext

LEMMA CipherInvHolds ==
  /\ CipherInv => DecryptIsReverse /\ OnlyTextChanges
  /\ CipherStart(TRUE) => CipherInv
  <1>1. CipherStart(TRUE) => CipherInv
    BY DEF CipherStart, CipherInv, DecryptIsReverse
  <1>2. ASSUME CipherInv PROVE OnlyTextChanges
    <2>1. ASSUME k_at = "decrypt" PROVE crypt = CipherState(TextIn(crypt), round_count)
      <3>1. PICK z : z = crypt
        OBVIOUS
      <3>2. z = RunForward(CipherState(plain, 0), CipherKernel(round_count)).s
        BY <1>2, <2>1, <3>1 DEF CipherInv
      <3> QED
        BY <1>2, <3>1, <3>2, CipherTyped, CipherRuns
    <2> QED
      BY <2>1 DEF OnlyTextChanges
  <1> QED
    BY <1>1, <1>2 DEF CipherInv

(* Decrypting is encrypting run back, and the text is all that has to be handed *)
(* over, whatever the text, the key and the number of rounds.                  *)
THEOREM CipherIsExact == CipherSpec => [](DecryptIsReverse /\ OnlyTextChanges)
  <1>1. CipherStart(TRUE) => CipherInv
    BY CipherInvHolds
  <1>2. CipherInv /\ [CipherNext]_cipherVars => CipherInv'
    BY CipherInvStep
  <1>3. CipherInv => DecryptIsReverse /\ OnlyTextChanges
    BY CipherInvHolds
  <1> QED
    BY <1>1, <1>2, <1>3, PTL DEF CipherSpec

(* A kernel computes what it was compiled from, and run back it is the inverse. *)
THEOREM KernelsAreExact == FormulaSpec /\ CipherSpec => []KernelsExact
  <1>1. FormulaSpec => [](KernelIsFormula /\ InverseIsExact)
    BY FormulaIsExact
  <1>2. CipherSpec => [](DecryptIsReverse /\ OnlyTextChanges)
    BY CipherIsExact
  <1> QED
    BY <1>1, <1>2, PTL DEF KernelsExact

-----------------------------------------------------------------------------
(* Synthesis. What the instructions of the pool are, and what they do. *)
SynthFile == [0 .. SynthRegs - 1 -> Word]

PoolLeaves ==
  {i \in Inst : /\ Invertible(i)
                /\ i.a \in 0 .. SynthRegs - 1
                /\ \/ i.op \in {"not", "rotl"}
                   \/ i.op \in {"xor", "add", "sub", "swp"} /\ i.b \in 0 .. SynthRegs - 1}

LEMMA PartLeaves ==
  ASSUME NEW p \in 0 .. SynthRegs - 1
  PROVE  /\ Leaf("not", p, 0) \in PoolLeaves
         /\ \A k \in {1, 7, 13, 31} : Rotl(p, k) \in PoolLeaves
         /\ \A op \in {"xor", "add", "sub", "swp"}, o \in (0 .. SynthRegs - 1) \ {p} :
              Leaf(op, p, o) \in PoolLeaves
  <1> USE DEF PoolLeaves, Leaf, Inst, Ops, UnaryOps, BinaryOps, MemDstOps, MemSrcOps, Invertible,
              IsIrreversible, IrreversibleOps, OperandAlias
  <1>1. SynthRegs \in Nat /\ p \in Nat /\ 0 \in Word
    BY SynthAssumption, ModulusFacts DEF Word
  <1>2. \A k \in {1, 7, 13, 31} : k \in Word
    BY SynthAssumption, ModulusFacts DEF Word
  <1>3. Leaf("not", p, 0) \in PoolLeaves
    BY <1>1
  <1>4. ASSUME NEW k \in {1, 7, 13, 31} PROVE Rotl(p, k) \in PoolLeaves
    <2>1. Rotl(p, k) = [op |-> "rotl", a |-> p, b |-> 0, c |-> 0, k |-> k]
      BY DEF Rotl
    <2>2. k \in Word
      BY <1>2
    <2> QED
      BY <1>1, <2>1, <2>2
  <1>5. ASSUME NEW op \in {"xor", "add", "sub", "swp"}, NEW o \in (0 .. SynthRegs - 1) \ {p}
        PROVE  Leaf(op, p, o) \in PoolLeaves
    <2>1. o \in Nat /\ o # p
      BY <1>1
    <2> QED
      BY <1>1, <2>1
  <1> QED
    BY <1>3, <1>4, <1>5

(* Sequences of them, put together. *)
LEMMA PartIs ==
  ASSUME NEW p \in 0 .. SynthRegs - 1
  PROVE  PoolPart(p) \in Seq(PoolLeaves)
  <1>1. PICK n \in Nat : n = SynthRegs
    BY SynthAssumption
  <1>2. \A v, w \in Seq(PoolLeaves) : v \o w \in Seq(PoolLeaves)
    OBVIOUS
  <1> DEFINE More(o) ==
               IF o = p THEN <<>>
               ELSE <<Leaf("xor", p, o), Leaf("add", p, o), Leaf("sub", p, o)>>
                    \o IF p < o THEN <<Leaf("swp", p, o)>> ELSE <<>>
             Runs(h) == h = [b \in 0 .. n |-> IF b = 0 THEN <<>> ELSE h[b - 1] \o More(b - 1)]
  <1>3. ASSUME NEW o \in 0 .. n - 1 PROVE More(o) \in Seq(PoolLeaves)
    <2>1. CASE o = p
      BY <2>1
    <2>2. CASE o # p
      <3>1. \A op \in {"xor", "add", "sub", "swp"} : Leaf(op, p, o) \in PoolLeaves
        BY <1>1, <2>2, PartLeaves
      <3>2. <<Leaf("xor", p, o), Leaf("add", p, o), Leaf("sub", p, o)>> \in Seq(PoolLeaves)
        BY <3>1
      <3>3. (IF p < o THEN <<Leaf("swp", p, o)>> ELSE <<>>) \in Seq(PoolLeaves)
        BY <3>1
      <3> QED
        BY <1>2, <2>2, <3>2, <3>3
    <2> QED
      BY <2>1, <2>2
  <1> HIDE DEF More
  <1>4. PICK g : Runs(g)
    <2> DEFINE step == [b \in 1 .. n |-> [t \in Seq(PoolLeaves) |-> t \o More(b - 1)]]
    <2>1. step \in [1 .. n -> [Seq(PoolLeaves) -> Seq(PoolLeaves)]]
      <3>1. \A b \in 1 .. n : More(b - 1) \in Seq(PoolLeaves)
        <4>1. \A b \in 1 .. n : b - 1 \in 0 .. n - 1
          OBVIOUS
        <4> QED
          BY <1>3, <4>1
      <3> QED
        BY <1>2, <3>1
    <2>2. <<>> \in Seq(PoolLeaves)
      OBVIOUS
    <2> HIDE DEF step
    <2>3. PICK f : Chain(f, n, Seq(PoolLeaves), <<>>, step)
      BY <2>1, <2>2, Recursion
    <2>4. f \in [0 .. n -> Seq(PoolLeaves)] /\ f[0] = <<>> /\ \A b \in 1 .. n : f[b] = step[b][f[b - 1]]
      BY <2>3 DEF Chain
    <2>5. \A b \in 1 .. n : f[b] = f[b - 1] \o More(b - 1)
      <3> TAKE b \in 1 .. n
      <3>1. f[b - 1] \in Seq(PoolLeaves)
        BY <2>4
      <3> QED
        BY <2>4, <3>1 DEF step
    <2>6. ASSUME NEW b \in 0 .. n PROVE f[b] = IF b = 0 THEN <<>> ELSE f[b - 1] \o More(b - 1)
      <3>1. CASE b = 0
        BY <2>4, <3>1
      <3>2. CASE b # 0
        <4>1. b \in 1 .. n
          BY <3>2
        <4> QED
          BY <2>5, <3>2, <4>1
      <3> QED
        BY <3>1, <3>2
    <2> QED
      BY <2>4, <2>6
  <1>5. PICK e : e = CHOOSE h : Runs(h)
    OBVIOUS
  <1>6. Runs(e)
    BY <1>4, <1>5
  <1>7. e[0] = <<>> /\ \A b \in 1 .. n : e[b] = e[b - 1] \o More(b - 1)
    <2>1. \A b \in 0 .. n : e[b] = IF b = 0 THEN <<>> ELSE e[b - 1] \o More(b - 1)
      BY <1>6
    <2>2. 0 \in 0 .. n /\ \A b \in 1 .. n : b \in 0 .. n /\ b # 0
      OBVIOUS
    <2>3. e[0] = <<>>
      BY <2>1, <2>2
    <2>4. ASSUME NEW b \in 1 .. n PROVE e[b] = e[b - 1] \o More(b - 1)
      BY <2>1, <2>2
    <2> QED
      BY <2>3, <2>4
  <1>8. PoolPart(p) = <<Leaf("not", p, 0)>> \o e[n] \o <<Rotl(p, 1), Rotl(p, 7), Rotl(p, 13), Rotl(p, 31)>>
    BY <1>1, <1>5 DEF PoolPart, More
  <1> HIDE DEF Runs
  <1> DEFINE P == {b \in 0 .. n : e[b] \in Seq(PoolLeaves)}
  <1>9. 0 \in P
    <2>1. <<>> \in Seq(PoolLeaves) /\ 0 \in 0 .. n
      OBVIOUS
    <2>2. e[0] \in Seq(PoolLeaves)
      BY <1>7, <2>1
    <2> QED
      BY <2>1, <2>2
  <1>10. \A b \in 1 .. n : b - 1 \in P => b \in P
    <2> TAKE b \in 1 .. n
    <2>1. More(b - 1) \in Seq(PoolLeaves)
      BY <1>3
    <2>2. ASSUME e[b - 1] \in Seq(PoolLeaves) PROVE e[b] \in Seq(PoolLeaves)
      BY <1>2, <1>7, <2>1, <2>2
    <2>3. b \in 0 .. n
      OBVIOUS
    <2> QED
      BY <2>2, <2>3
  <1> HIDE DEF P
  <1>11. n \in P
    <2>1. \A b \in 0 .. n : b \in P
      BY <1>9, <1>10, UpTo
    <2> QED
      BY <2>1
  <1>12. e[n] \in Seq(PoolLeaves)
    BY <1>11 DEF P
  <1>13. /\ <<Leaf("not", p, 0)>> \in Seq(PoolLeaves)
         /\ <<Rotl(p, 1), Rotl(p, 7), Rotl(p, 13), Rotl(p, 31)>> \in Seq(PoolLeaves)
    <2>1. \A k \in {1, 7, 13, 31} : Rotl(p, k) \in PoolLeaves
      BY PartLeaves
    <2>2. Leaf("not", p, 0) \in PoolLeaves
      BY PartLeaves
    <2> QED
      BY <2>1, <2>2
  <1> QED
    BY <1>2, <1>8, <1>12, <1>13

LEMMA PoolIs == InstPool \in Seq(PoolLeaves)
  <1>1. PICK n \in Nat : n = SynthRegs
    BY SynthAssumption
  <1>2. \A v, w \in Seq(PoolLeaves) : v \o w \in Seq(PoolLeaves)
    OBVIOUS
  <1> DEFINE Runs(h) == h = [b \in 0 .. n |-> IF b = 0 THEN <<>> ELSE h[b - 1] \o PoolPart(b - 1)]
  <1>3. \A b \in 1 .. n : PoolPart(b - 1) \in Seq(PoolLeaves)
    <2> TAKE b \in 1 .. n
    <2>1. b - 1 \in 0 .. n - 1
      OBVIOUS
    <2> QED
      BY <1>1, <2>1, PartIs
  <1>4. PICK g : Runs(g)
    <2> DEFINE step == [b \in 1 .. n |-> [t \in Seq(PoolLeaves) |-> t \o PoolPart(b - 1)]]
    <2>1. step \in [1 .. n -> [Seq(PoolLeaves) -> Seq(PoolLeaves)]]
      BY <1>2, <1>3
    <2>2. <<>> \in Seq(PoolLeaves)
      OBVIOUS
    <2> HIDE DEF step
    <2>3. PICK f : Chain(f, n, Seq(PoolLeaves), <<>>, step)
      BY <2>1, <2>2, Recursion
    <2>4. f \in [0 .. n -> Seq(PoolLeaves)] /\ f[0] = <<>> /\ \A b \in 1 .. n : f[b] = step[b][f[b - 1]]
      BY <2>3 DEF Chain
    <2>5. \A b \in 1 .. n : f[b] = f[b - 1] \o PoolPart(b - 1)
      <3> TAKE b \in 1 .. n
      <3>1. f[b - 1] \in Seq(PoolLeaves)
        BY <2>4
      <3> QED
        BY <2>4, <3>1 DEF step
    <2>6. ASSUME NEW b \in 0 .. n PROVE f[b] = IF b = 0 THEN <<>> ELSE f[b - 1] \o PoolPart(b - 1)
      <3>1. CASE b = 0
        BY <2>4, <3>1
      <3>2. CASE b # 0
        <4>1. b \in 1 .. n
          BY <3>2
        <4> QED
          BY <2>5, <3>2, <4>1
      <3> QED
        BY <3>1, <3>2
    <2> QED
      BY <2>4, <2>6
  <1>5. PICK e : e = CHOOSE h : Runs(h)
    OBVIOUS
  <1>6. Runs(e)
    BY <1>4, <1>5
  <1>7. e[0] = <<>> /\ \A b \in 1 .. n : e[b] = e[b - 1] \o PoolPart(b - 1)
    <2>1. \A b \in 0 .. n : e[b] = IF b = 0 THEN <<>> ELSE e[b - 1] \o PoolPart(b - 1)
      BY <1>6
    <2>2. 0 \in 0 .. n /\ \A b \in 1 .. n : b \in 0 .. n /\ b # 0
      OBVIOUS
    <2>3. e[0] = <<>>
      BY <2>1, <2>2
    <2>4. ASSUME NEW b \in 1 .. n PROVE e[b] = e[b - 1] \o PoolPart(b - 1)
      BY <2>1, <2>2
    <2> QED
      BY <2>3, <2>4
  <1>8. InstPool = e[n]
    BY <1>1, <1>5 DEF InstPool
  <1> HIDE DEF Runs
  <1> DEFINE P == {b \in 0 .. n : e[b] \in Seq(PoolLeaves)}
  <1>9. 0 \in P
    <2>1. <<>> \in Seq(PoolLeaves) /\ 0 \in 0 .. n
      OBVIOUS
    <2>2. e[0] \in Seq(PoolLeaves)
      BY <1>7, <2>1
    <2> QED
      BY <2>1, <2>2
  <1>10. \A b \in 1 .. n : b - 1 \in P => b \in P
    <2> TAKE b \in 1 .. n
    <2>1. PoolPart(b - 1) \in Seq(PoolLeaves)
      BY <1>3
    <2>2. ASSUME e[b - 1] \in Seq(PoolLeaves) PROVE e[b] \in Seq(PoolLeaves)
      BY <1>2, <1>7, <2>1, <2>2
    <2>3. b \in 0 .. n
      OBVIOUS
    <2> QED
      BY <2>2, <2>3
  <1> HIDE DEF P
  <1>11. n \in P
    <2>1. \A b \in 0 .. n : b \in P
      BY <1>9, <1>10, UpTo
    <2> QED
      BY <2>1
  <1> QED
    BY <1>8, <1>11 DEF P

SynthShape == Shape(0 .. SynthRegs - 1, {})

LEMMA BareIs ==
  /\ \A x \in SynthFile : Bare(x) \in SynthShape /\ Bare(x).regs = x
  /\ \A s \in SynthShape : s.regs \in SynthFile /\ Bare(s.regs) = s
  <1>1. PICK z : z = [m \in {} |-> 0]
    OBVIOUS
  <1>2. z \in [{} -> Word] /\ \A h \in [{} -> Word] : h = z
    BY <1>1
  <1>3. \A x : Bare(x) = [regs |-> x, mem |-> z]
    BY <1>1 DEF Bare
  <1>4. \A x \in SynthFile : Bare(x) \in SynthShape /\ Bare(x).regs = x
    BY <1>2, <1>3 DEF SynthFile, SynthShape, Shape
  <1>5. ASSUME NEW s \in SynthShape PROVE s.regs \in SynthFile /\ Bare(s.regs) = s
    <2>1. PICK g, h : s = [regs |-> g, mem |-> h] /\ g \in SynthFile /\ h \in [{} -> Word]
      BY <1>5 DEF SynthShape, Shape, SynthFile
    <2>2. h = z
      BY <1>2, <2>1
    <2> QED
      BY <1>3, <2>1, <2>2
  <1> QED
    BY <1>4, <1>5

LEMMA PoolLeafRuns ==
  ASSUME NEW i \in PoolLeaves, NEW s \in SynthShape
  PROVE  CanRun(s, i) /\ Exec(s, i) \in SynthShape
  <1>1. i \in Inst
    BY DEF PoolLeaves
  <1>2. Fits(0 .. SynthRegs - 1, {}, s, i)
    BY DEF Fits, PoolLeaves, RegOperands, MemOperands, UnaryOps, BinaryOps, TernaryOps, MemDstOps, MemSrcOps
  <1> QED
    BY <1>1, <1>2, ShapeState, CanRunFits DEF SynthShape

(* The tuples of register files a task's inputs go through. *)
Files(t) == [DOMAIN t -> SynthFile]

LEMMA AfterTyped ==
  ASSUME NEW t, NEW f \in Files(t), NEW i \in PoolLeaves
  PROVE  /\ After(f, i) \in Files(t)
         /\ \A n \in DOMAIN t : Exec(Bare(f[n]), i) = Bare(After(f, i)[n])
  <1>1. ASSUME NEW n \in DOMAIN t
        PROVE  Exec(Bare(f[n]), i).regs \in SynthFile /\ Exec(Bare(f[n]), i) = Bare(Exec(Bare(f[n]), i).regs)
    <2>1. f[n] \in SynthFile
      BY DEF Files
    <2>2. Bare(f[n]) \in SynthShape
      BY <2>1, BareIs
    <2>3. PICK s \in SynthShape : s = Exec(Bare(f[n]), i)
      BY <2>2, PoolLeafRuns
    <2> QED
      BY <2>3, BareIs
  <1>2. DOMAIN f = DOMAIN t
    BY DEF Files
  <1>3. After(f, i) = [n \in DOMAIN t |-> Exec(Bare(f[n]), i).regs]
    BY <1>2 DEF After
  <1>4. After(f, i) \in Files(t)
    BY <1>1, <1>3 DEF Files
  <1>5. \A n \in DOMAIN t : After(f, i)[n] = Exec(Bare(f[n]), i).regs
    BY <1>3
  <1> QED
    BY <1>1, <1>4, <1>5

(* A program that leads from s to z without a fault. *)
Leads(s, p, z) ==
  /\ p \in Seq(PoolLeaves)
  /\ RunForward(s, p).out = "ok" /\ RunForward(s, p).s = z

LEMMA LeadsOn ==
  ASSUME NEW s \in SynthShape, NEW z \in SynthShape, NEW p, Leads(s, p, z), NEW i \in PoolLeaves
  PROVE  Leads(s, Append(p, i), Exec(z, i))
  <1>1. PICK n \in Nat : n = Len(p)
    BY DEF Leads
  <1>2. p \in Seq(PoolLeaves) /\ p \in Seq(Inst) /\ \A v \in PoolLeaves : v \in Inst
    <2>1. \A v \in PoolLeaves : v \in Inst
      BY DEF PoolLeaves
    <2> QED
      BY <2>1 DEF Leads
  <1>3. PICK q : q = Append(p, i)
    OBVIOUS
  <1>4. /\ q \in Seq(PoolLeaves) /\ q \in Seq(Inst) /\ Len(q) = n + 1
        /\ q[n + 1] = i /\ \A k \in 1 .. n : q[k] = p[k]
    BY <1>1, <1>2, <1>3
  <1> DEFINE R == 0 .. SynthRegs - 1
  <1>a. s \in Shape(R, {})
    BY DEF SynthShape
  <1>b. n + 1 \in Nat /\ n + 1 = Len(q)
    BY <1>4
  <1>5. PICK f \in [0 .. n -> Res(R, {})] : Forth(f, s, p, n) /\ RunForward(s, p) = f[n]
    BY <1>1, <1>2, <1>a, RunIsForth
  <1>6. PICK g \in [0 .. n + 1 -> Res(R, {})] : Forth(g, s, q, n + 1) /\ RunForward(s, q) = g[n + 1]
    BY <1>4, <1>a, <1>b, RunIsForth
  <1>10. g[n] = f[n]
    <2>1. BeginAlike(q, p, n)
      BY <1>4 DEF BeginAlike
    <2>2. \A k \in 1 .. n : k \in 1 .. n + 1
      OBVIOUS
    <2>3. Forth(g, s, q, n)
      BY <1>6, <2>2 DEF Forth
    <2>4. Forth(f, s, p, n)
      BY <1>5
    <2> QED
      BY <2>1, <2>3, <2>4, SameStart
  <1>11. g[n + 1] = ForwardLeaf(g[n], i)
    <2>1. n + 1 \in 1 .. n + 1 /\ (n + 1) - 1 = n
      OBVIOUS
    <2> QED
      BY <1>4, <1>6, <2>1 DEF Forth
  <1>12. g[n].out = "ok" /\ g[n].s = z
    BY <1>5, <1>10 DEF Leads
  <1>13. CanRun(z, i)
    BY PoolLeafRuns
  <1>14. RunForward(s, q).out = "ok" /\ RunForward(s, q).s = Exec(z, i)
    BY <1>6, <1>11, <1>12, <1>13 DEF ForwardLeaf
  <1> QED
    BY <1>3, <1>4, <1>14 DEF Leads

LEMMA LeadsNowhere ==
  ASSUME NEW s \in SynthShape
  PROVE  Leads(s, <<>>, s)
  <1>1. <<>> \in Seq(PoolLeaves) /\ <<>> \in Seq(Inst) /\ Len(<<>>) = 0
    OBVIOUS
  <1>2. PICK n \in Nat : n = 0
    OBVIOUS
  <1>b. PICK p \in Seq(Inst) : p = <<>> /\ n = Len(p)
    BY <1>1, <1>2
  <1> DEFINE R == 0 .. SynthRegs - 1
  <1>3. PICK f \in [0 .. n -> Res(R, {})] : Forth(f, s, p, n) /\ RunForward(s, p) = f[n]
    <2>1. s \in Shape(R, {})
      BY DEF SynthShape
    <2> QED
      <3>1. p \in Seq(Inst) /\ n = Len(p)
        BY <1>b
      <3>2. PICK q \in Seq(Inst) : q = p /\ n = Len(q)
        BY <3>1
      <3>3. HasRun(R, {}, s, q, n)
        BY <2>1, <3>2, RunExists
      <3> QED
        BY <3>2, <3>3 DEF HasRun
  <1>4. RunForward(s, p) = Go(s)
    BY <1>2, <1>3 DEF Forth
  <1> QED
    BY <1>1, <1>b, <1>4 DEF Leads, Go

(* Such a program can be taken back. *)
LEMMA LeadsBack ==
  ASSUME NEW s \in SynthShape, NEW p, NEW z, Leads(s, p, z)
  PROVE  ReverseAll(z, p).s = s
  <1>1. \A v \in PoolLeaves : v \in Inst /\ Invertible(v)
    BY DEF PoolLeaves
  <1>2. PICK q : q = p
    OBVIOUS
  <1>3. q \in Seq(PoolLeaves)
    BY <1>2 DEF Leads
  <1>4. q \in Seq(Inst) /\ AllInvertible(q)
    BY <1>1, <1>3 DEF AllInvertible
  <1>5. RunForward(s, q).out = "ok" /\ RunForward(s, q).s = z
    BY <1>2 DEF Leads
  <1> QED
    BY <1>2, <1>4, <1>5, ReverseUndoesRun DEF SynthShape

TaskSet == Seq([inp : SynthFile, want : SynthFile])

(* What the pool makes of the tuples of a set, and of the inputs in n steps.   *)
Image(X) == {After(f, InstPool[j]) : f \in X, j \in DOMAIN InstPool}

ReachOf(t, n) ==
  LET layer[k \in 0 .. n] ==
        IF k = 0 THEN {Asked(t)}
        ELSE {After(on, InstPool[j]) : on \in layer[k - 1], j \in DOMAIN InstPool}
  IN  layer[n]

LEMMA AskedTyped ==
  ASSUME NEW t \in TaskSet
  PROVE  Asked(t) \in Files(t) /\ \A n \in DOMAIN t : Asked(t)[n] = t[n].inp /\ t[n].inp \in SynthFile
  <1>1. \A n \in DOMAIN t : t[n] \in [inp : SynthFile, want : SynthFile]
    <2>1. PICK V : V = [inp : SynthFile, want : SynthFile]
      OBVIOUS
    <2>2. t \in Seq(V)
      BY <2>1 DEF TaskSet
    <2>3. \A n \in DOMAIN t : t[n] \in V
      BY <2>2
    <2> QED
      BY <2>1, <2>3
  <1> QED
    BY <1>1 DEF Asked, Files

LEMMA ImageFiles ==
  ASSUME NEW t, NEW X \in SUBSET Files(t)
  PROVE  Image(X) \in SUBSET Files(t)
  <1>1. \A j \in DOMAIN InstPool : InstPool[j] \in PoolLeaves
    BY PoolIs
  <1>2. ASSUME NEW f \in X, NEW j \in DOMAIN InstPool PROVE After(f, InstPool[j]) \in Files(t)
    <2>1. f \in Files(t)
      OBVIOUS
    <2> QED
      BY <1>1, <2>1, AfterTyped
  <1> QED
    BY <1>2 DEF Image

Layers(l, t, n) ==
  /\ l \in [0 .. n -> SUBSET Files(t)] /\ l[0] = {Asked(t)}
  /\ \A k \in 1 .. n : l[k] = Image(l[k - 1])

LEMMA LayersExist ==
  ASSUME NEW t \in TaskSet, NEW n \in Nat
  PROVE  \E l : Layers(l, t, n)
  <1> DEFINE S == SUBSET Files(t)
             step == [k \in 1 .. n |-> [X \in S |-> Image(X)]]
  <1>1. step \in [1 .. n -> [S -> S]]
    BY ImageFiles
  <1>2. {Asked(t)} \in S
    BY AskedTyped
  <1> HIDE DEF step, S
  <1>3. PICK l : Chain(l, n, S, {Asked(t)}, step)
    BY <1>1, <1>2, Recursion
  <1>4. l \in [0 .. n -> S] /\ l[0] = {Asked(t)} /\ \A k \in 1 .. n : l[k] = step[k][l[k - 1]]
    BY <1>3 DEF Chain
  <1>5. ASSUME NEW k \in 1 .. n PROVE l[k] = Image(l[k - 1])
    <2>1. l[k - 1] \in S
      BY <1>4
    <2> QED
      BY <1>4, <2>1 DEF step
  <1>6. l \in [0 .. n -> SUBSET Files(t)]
    BY <1>4 DEF S
  <1> QED
    BY <1>4, <1>5, <1>6 DEF Layers

LEMMA ReachFollows ==
  ASSUME NEW t, NEW n \in Nat, NEW l, Layers(l, t, n)
  PROVE  ReachOf(t, n) = l[n]
  <1> DEFINE Runs(h) == h = [k \in 0 .. n |-> IF k = 0 THEN {Asked(t)} ELSE Image(h[k - 1])]
  <1>1. Runs(l)
    <2>1. ASSUME NEW k \in 0 .. n PROVE l[k] = IF k = 0 THEN {Asked(t)} ELSE Image(l[k - 1])
      <3>1. k = 0 \/ k \in 1 .. n
        OBVIOUS
      <3> QED
        BY <3>1 DEF Layers
    <2>2. l = [k \in 0 .. n |-> l[k]]
      BY DEF Layers
    <2> QED
      BY <2>1, <2>2
  <1>2. PICK g : g = CHOOSE h : Runs(h)
    OBVIOUS
  <1>3. Runs(g)
    BY <1>1, <1>2
  <1>4. ReachOf(t, n) = g[n]
    BY <1>2 DEF ReachOf, Image
  <1>5. g[0] = {Asked(t)} /\ \A k \in 1 .. n : g[k] = Image(g[k - 1])
    <2>1. g[0] = {Asked(t)}
      BY <1>3
    <2>2. ASSUME NEW k \in 1 .. n PROVE g[k] = Image(g[k - 1])
      <3>1. k \in 0 .. n /\ k # 0
        OBVIOUS
      <3> QED
        BY <1>3, <3>1
    <2> QED
      BY <2>1, <2>2
  <1> HIDE DEF Runs
  <1> DEFINE P == {k \in 0 .. n : g[k] = l[k]}
  <1>6. 0 \in P
    <2>1. g[0] = l[0]
      BY <1>5 DEF Layers
    <2> QED
      BY <2>1
  <1>7. \A k \in 1 .. n : k - 1 \in P => k \in P
    BY <1>5 DEF Layers
  <1> HIDE DEF P
  <1>8. \A k \in 0 .. n : k \in P
    BY <1>6, <1>7, UpTo
  <1> QED
    BY <1>4, <1>8 DEF P

LEMMA ReachIs ==
  ASSUME NEW t \in TaskSet
  PROVE  /\ ReachOf(t, 0) = {Asked(t)}
         /\ \A n \in Nat : ReachOf(t, n) \subseteq Files(t) /\ ReachOf(t, n + 1) = Image(ReachOf(t, n))
  <1>1. ReachOf(t, 0) = {Asked(t)}
    <2>1. PICK l : Layers(l, t, 0)
      BY LayersExist
    <2>2. ReachOf(t, 0) = l[0]
      BY <2>1, ReachFollows
    <2> QED
      BY <2>1, <2>2 DEF Layers
  <1>2. ASSUME NEW n \in Nat
        PROVE  ReachOf(t, n) \subseteq Files(t) /\ ReachOf(t, n + 1) = Image(ReachOf(t, n))
    <2>1. PICK m \in Nat : m = n + 1
      OBVIOUS
    <2>2. PICK l : Layers(l, t, m)
      BY LayersExist
    <2>3. ReachOf(t, m) = l[m]
      BY <2>2, ReachFollows
    <2> DEFINE b == [k \in 0 .. n |-> l[k]]
    <2>4. \A k \in 0 .. n : k \in 0 .. m
      BY <2>1
    <2>5. Layers(b, t, n)
      <3>1. b \in [0 .. n -> SUBSET Files(t)]
        BY <2>2, <2>4 DEF Layers
      <3>2. b[0] = {Asked(t)}
        BY <2>2 DEF Layers
      <3>3. ASSUME NEW k \in 1 .. n PROVE b[k] = Image(b[k - 1])
        <4>1. k \in 1 .. m /\ k \in 0 .. n /\ k - 1 \in 0 .. n
          BY <2>1
        <4> QED
          BY <2>2, <4>1 DEF Layers
      <3> HIDE DEF b
      <3> QED
        BY <3>1, <3>2, <3>3 DEF Layers
    <2>6. b[n] = l[n]
      OBVIOUS
    <2> HIDE DEF b
    <2>7. ReachOf(t, n) = l[n]
      BY <2>5, <2>6, ReachFollows
    <2>8. l[m] = Image(l[n]) /\ l[n] \in SUBSET Files(t)
      <3>1. m \in 1 .. m /\ m - 1 = n /\ n \in 0 .. m
        BY <2>1
      <3> QED
        BY <2>2, <3>1 DEF Layers
    <2> QED
      BY <2>1, <2>3, <2>7, <2>8
  <1> QED
    BY <1>1, <1>2

Meets(t, f) == \A n \in DOMAIN t : f[n] = t[n].want

(* A set that has the inputs and is closed reaches no further. *)
LEMMA ClosedReach ==
  ASSUME NEW t \in TaskSet, NEW X, Asked(t) \in X, Image(X) \subseteq X, NEW n \in Nat
  PROVE  ReachOf(t, n) \subseteq X
  <1> DEFINE P == {k \in 0 .. n : ReachOf(t, k) \subseteq X}
  <1>1. 0 \in P
    BY ReachIs
  <1>2. ASSUME NEW k \in 1 .. n, k - 1 \in P PROVE k \in P
    <2>1. k - 1 \in Nat /\ (k - 1) + 1 = k
      OBVIOUS
    <2>2. PICK j \in Nat : j = k - 1 /\ j + 1 = k
      BY <2>1
    <2>3. ReachOf(t, k) = Image(ReachOf(t, j)) /\ ReachOf(t, j) \subseteq X
      BY <1>2, <2>2, ReachIs
    <2>4. Image(ReachOf(t, j)) \subseteq Image(X)
      BY <2>3 DEF Image
    <2> QED
      BY <2>3, <2>4
  <1>3. \A k \in 1 .. n : k - 1 \in P => k \in P
    BY <1>2
  <1> HIDE DEF P
  <1>4. \A k \in 0 .. n : k \in P
    BY <1>1, <1>3, UpTo
  <1> QED
    BY <1>4 DEF P

(* Entries whose program of d instructions leads from the inputs where it says. *)
GoodEntries(t, d) ==
  {e \in [prog : Seq(PoolLeaves), on : Files(t)] :
     /\ Len(e.prog) = d
     /\ \A n \in DOMAIN t : Leads(Bare(t[n].inp), e.prog, Bare(e.on[n]))}

OnsOf(q) == {q[x].on : x \in DOMAIN q}

LEMMA NextEntry ==
  ASSUME NEW t \in TaskSet, NEW d \in Nat, NEW e \in GoodEntries(t, d), NEW i \in PoolLeaves
  PROVE  [prog |-> Append(e.prog, i), on |-> After(e.on, i)] \in GoodEntries(t, d + 1)
  <1>1. PICK p \in Seq(PoolLeaves), f \in Files(t) :
          e.prog = p /\ e.on = f /\ Len(p) = d /\ \A n \in DOMAIN t : Leads(Bare(t[n].inp), p, Bare(f[n]))
    BY DEF GoodEntries
  <1>2. Append(p, i) \in Seq(PoolLeaves) /\ Len(Append(p, i)) = d + 1
    BY <1>1
  <1>3. After(f, i) \in Files(t) /\ \A n \in DOMAIN t : Exec(Bare(f[n]), i) = Bare(After(f, i)[n])
    BY AfterTyped
  <1>4. ASSUME NEW n \in DOMAIN t PROVE Leads(Bare(t[n].inp), Append(p, i), Bare(After(f, i)[n]))
    <2>1. Bare(t[n].inp) \in SynthShape /\ Bare(f[n]) \in SynthShape
      BY AskedTyped, BareIs DEF Files
    <2>2. Leads(Bare(t[n].inp), p, Bare(f[n]))
      BY <1>1
    <2>3. Leads(Bare(t[n].inp), Append(p, i), Exec(Bare(f[n]), i))
      BY <2>1, <2>2, LeadsOn
    <2> QED
      BY <1>3, <2>3
  <1>5. PICK g : g = [prog |-> Append(p, i), on |-> After(f, i)]
    OBVIOUS
  <1>6. g \in [prog : Seq(PoolLeaves), on : Files(t)] /\ g.prog = Append(p, i) /\ g.on = After(f, i)
    BY <1>2, <1>3, <1>5
  <1>7. g \in GoodEntries(t, d + 1)
    BY <1>2, <1>4, <1>6 DEF GoodEntries
  <1> QED
    BY <1>1, <1>5, <1>7

(* The turn of one instruction of the pool over an entry, and of all of them.  *)
TurnStep(e, t, k) ==
  LET on == After(e.on, InstPool[k])
      np == Append(e.prog, InstPool[k])
  IN  IF t.hit # Nothing THEN t
      ELSE IF Fulfils(on) THEN [t EXCEPT !.hit = np]
      ELSE IF Repeats(t.seen, on) THEN t
      ELSE [t EXCEPT !.seen = @ \union {on},
                     !.next = Append(@, [prog |-> np, on |-> on])]

TurnStart == [next |-> upcoming, seen |-> visited, hit |-> Nothing]

TurnEnd(e) ==
  LET turn[k \in 0 .. Len(InstPool)] ==
        IF k = 0 THEN TurnStart ELSE TurnStep(e, turn[k - 1], k)
  IN  turn[Len(InstPool)]

Turns(d) ==
  [next : Seq(GoodEntries(task, d + 1)), seen : SUBSET Files(task), hit : Seq(PoolLeaves)]

(* What holds of the turn after the first k instructions of the pool. *)
Turned(r, e, d, k) ==
  /\ r \in Turns(d)
  /\ r.seen = visited \union OnsOf(r.next)
  /\ OnsOf(upcoming) \subseteq OnsOf(r.next)
  /\ r.hit # Nothing =>
       \E j \in 1 .. Len(InstPool) :
         /\ r.hit = Append(e.prog, InstPool[j])
         /\ Fulfils(After(e.on, InstPool[j]))
  /\ r.hit = Nothing =>
       \A j \in 1 .. k : /\ ~Fulfils(After(e.on, InstPool[j]))
                         /\ After(e.on, InstPool[j]) \in r.seen

(* What may be expanded. *)
CanTurn(e, d) ==
  /\ task \in TaskSet /\ d \in Nat /\ e \in GoodEntries(task, d)
  /\ upcoming \in Seq(GoodEntries(task, d + 1))
  /\ visited \in SUBSET Files(task) /\ OnsOf(upcoming) \subseteq visited

LEMMA OnsGrow ==
  ASSUME NEW S, NEW q \in Seq(S), NEW g \in S
  PROVE  OnsOf(Append(q, g)) = OnsOf(q) \union {g.on}
  <1>1. PICK n \in Nat : n = Len(q)
    OBVIOUS
  <1>2. PICK w : w = Append(q, g)
    OBVIOUS
  <1>3. w \in Seq(S) /\ Len(w) = n + 1 /\ w[n + 1] = g /\ \A k \in 1 .. n : w[k] = q[k]
    BY <1>1, <1>2
  <1>4. DOMAIN w = 1 .. n + 1 /\ DOMAIN q = 1 .. n
    BY <1>1, <1>3
  <1>5. \A k \in 1 .. n + 1 : k \in 1 .. n \/ k = n + 1
    OBVIOUS
  <1>6. n + 1 \in 1 .. n + 1 /\ \A k \in 1 .. n : k \in 1 .. n + 1
    OBVIOUS
  <1> QED
    BY <1>2, <1>3, <1>4, <1>5, <1>6 DEF OnsOf

LEMMA TurnTyped ==
  ASSUME NEW e, NEW d, CanTurn(e, d), NEW r \in Turns(d), NEW k \in 1 .. Len(InstPool)
  PROVE  TurnStep(e, r, k) \in Turns(d)
  <1>1. PICK i \in PoolLeaves : i = InstPool[k]
    BY PoolIs
  <1>2. PICK f : f = After(e.on, i)
    OBVIOUS
  <1>3. PICK p : p = Append(e.prog, i)
    OBVIOUS
  <1>4. [prog |-> p, on |-> f] \in GoodEntries(task, d + 1)
    BY <1>2, <1>3, NextEntry DEF CanTurn
  <1>5. p \in Seq(PoolLeaves) /\ f \in Files(task)
    BY <1>4 DEF GoodEntries
  <1>6. PICK N, S, H : /\ N = Seq(GoodEntries(task, d + 1)) /\ S = SUBSET Files(task) /\ H = Seq(PoolLeaves)
                       /\ r \in [next : N, seen : S, hit : H]
    BY DEF Turns
  <1>7. \A x \in S : x \union {f} \in S
    BY <1>5, <1>6
  <1>8. \A q \in N : Append(q, [prog |-> p, on |-> f]) \in N
    BY <1>4, <1>6
  <1>9. [r EXCEPT !.hit = p] \in [next : N, seen : S, hit : H]
    BY <1>5, <1>6
  <1>10. [r EXCEPT !.seen = @ \union {f}, !.next = Append(@, [prog |-> p, on |-> f])]
           \in [next : N, seen : S, hit : H]
    BY <1>6, <1>7, <1>8
  <1>11. TurnStep(e, r, k) \in [next : N, seen : S, hit : H]
    <2>1. TurnStep(e, r, k) =
            IF r.hit # Nothing THEN r
            ELSE IF Fulfils(f) THEN [r EXCEPT !.hit = p]
            ELSE IF Repeats(r.seen, f) THEN r
            ELSE [r EXCEPT !.seen = @ \union {f}, !.next = Append(@, [prog |-> p, on |-> f])]
      BY <1>1, <1>2, <1>3 DEF TurnStep
    <2> QED
      BY <1>6, <1>9, <1>10, <2>1
  <1> QED
    BY <1>6, <1>11 DEF Turns

LEMMA TurnKeeps ==
  ASSUME NEW e, NEW d, CanTurn(e, d), NEW k \in 1 .. Len(InstPool), NEW r, Turned(r, e, d, k - 1)
  PROVE  Turned(TurnStep(e, r, k), e, d, k)
  <1>1. PICK i \in PoolLeaves : i = InstPool[k]
    BY PoolIs
  <1>2. PICK f : f = After(e.on, i)
    OBVIOUS
  <1>3. PICK p : p = Append(e.prog, i)
    OBVIOUS
  <1>4. PICK g : g = [prog |-> p, on |-> f] /\ g \in GoodEntries(task, d + 1)
    BY <1>2, <1>3, NextEntry DEF CanTurn
  <1>a. PICK v : v = TurnStep(e, r, k)
    OBVIOUS
  <1>5. v = IF r.hit # Nothing THEN r
            ELSE IF Fulfils(f) THEN [r EXCEPT !.hit = p]
            ELSE IF Repeats(r.seen, f) THEN r
            ELSE [r EXCEPT !.seen = @ \union {f}, !.next = Append(@, g)]
    BY <1>1, <1>2, <1>3, <1>4, <1>a DEF TurnStep
  <1>6. v \in Turns(d) /\ r \in Turns(d)
    BY <1>a, TurnTyped DEF Turned
  <1>7. r.next \in Seq(GoodEntries(task, d + 1)) /\ p # Nothing
    <2>1. p # Nothing
      <3>1. e.prog \in Seq(PoolLeaves)
        BY DEF CanTurn, GoodEntries
      <3>2. PICK n \in Nat, b \in Seq(PoolLeaves) : b = e.prog /\ n = Len(b)
        BY <3>1
      <3>3. Len(Append(b, i)) = n + 1
        BY <3>2
      <3> QED
        BY <1>3, <3>2, <3>3 DEF Nothing
    <2> QED
      BY <1>6, <2>1 DEF Turns
  <1>8. CASE r.hit # Nothing
    <2>1. v = r
      BY <1>5, <1>8
    <2> QED
      BY <1>6, <1>8, <1>a, <2>1 DEF Turned
  <1>b. \A j \in 1 .. k : j \in 1 .. k - 1 \/ j = k
    OBVIOUS
  <1>9. CASE r.hit = Nothing /\ Fulfils(f)
    <2>1. v.hit = p /\ v.seen = r.seen /\ v.next = r.next
      BY <1>5, <1>6, <1>9 DEF Turns
    <2>2. v.hit = Append(e.prog, InstPool[k]) /\ Fulfils(After(e.on, InstPool[k]))
      BY <1>1, <1>2, <1>3, <1>9, <2>1
    <2> QED
      BY <1>6, <1>7, <1>a, <2>1, <2>2 DEF Turned
  <1>10. CASE r.hit = Nothing /\ ~Fulfils(f) /\ Repeats(r.seen, f)
    <2>1. v = r /\ f \in r.seen
      BY <1>5, <1>10 DEF Repeats
    <2>2. \A j \in 1 .. k : ~Fulfils(After(e.on, InstPool[j])) /\ After(e.on, InstPool[j]) \in r.seen
      <3>1. \A j \in 1 .. k - 1 : ~Fulfils(After(e.on, InstPool[j])) /\ After(e.on, InstPool[j]) \in r.seen
        BY <1>10 DEF Turned
      <3> QED
        BY <1>1, <1>2, <1>b, <1>10, <2>1, <3>1
    <2> QED
      BY <1>10, <1>a, <2>1, <2>2 DEF Turned
  <1>11. CASE r.hit = Nothing /\ ~Fulfils(f) /\ ~Repeats(r.seen, f)
    <2>1. v.hit = r.hit /\ v.seen = r.seen \union {f} /\ v.next = Append(r.next, g)
      BY <1>5, <1>6, <1>11 DEF Turns
    <2>2. OnsOf(v.next) = OnsOf(r.next) \union {f}
      BY <1>4, <1>7, <2>1, OnsGrow
    <2>3. \A j \in 1 .. k : ~Fulfils(After(e.on, InstPool[j])) /\ After(e.on, InstPool[j]) \in v.seen
      <3>1. \A j \in 1 .. k - 1 : ~Fulfils(After(e.on, InstPool[j])) /\ After(e.on, InstPool[j]) \in r.seen
        BY <1>11 DEF Turned
      <3> QED
        BY <1>1, <1>2, <1>b, <1>11, <2>1, <3>1
    <2>4. r.seen = visited \union OnsOf(r.next) /\ OnsOf(upcoming) \subseteq OnsOf(r.next)
      BY DEF Turned
    <2>5. v.seen = visited \union OnsOf(v.next) /\ OnsOf(upcoming) \subseteq OnsOf(v.next)
      BY <2>1, <2>2, <2>4
    <2> QED
      BY <1>6, <1>11, <1>a, <2>1, <2>3, <2>5 DEF Turned
  <1> QED
    BY <1>8, <1>9, <1>10, <1>11

LEMMA TurnEnds ==
  ASSUME NEW e, NEW d, CanTurn(e, d)
  PROVE  Turned(TurnEnd(e), e, d, Len(InstPool))
  <1>1. PICK n \in Nat : n = Len(InstPool)
    BY PoolIs
  <1>2. Turned(TurnStart, e, d, 0) /\ TurnStart \in Turns(d)
    <2>1. <<>> \in Seq(PoolLeaves) /\ Nothing = <<>>
      BY DEF Nothing
    <2>2. TurnStart \in Turns(d) /\ TurnStart.hit = Nothing /\ TurnStart.next = upcoming /\ TurnStart.seen = visited
      BY <2>1 DEF TurnStart, Turns, CanTurn
    <2>3. \A j \in 1 .. 0 : FALSE
      OBVIOUS
    <2> QED
      BY <2>2, <2>3 DEF Turned, CanTurn
  <1> DEFINE Runs(h) == h = [k \in 0 .. n |-> IF k = 0 THEN TurnStart ELSE TurnStep(e, h[k - 1], k)]
  <1>3. PICK g : Runs(g)
    <2> DEFINE step == [k \in 1 .. n |-> [r \in Turns(d) |-> TurnStep(e, r, k)]]
    <2>1. step \in [1 .. n -> [Turns(d) -> Turns(d)]]
      BY <1>1, TurnTyped
    <2> HIDE DEF step
    <2>2. PICK f : Chain(f, n, Turns(d), TurnStart, step)
      BY <1>2, <2>1, Recursion
    <2>3. f \in [0 .. n -> Turns(d)] /\ f[0] = TurnStart /\ \A k \in 1 .. n : f[k] = step[k][f[k - 1]]
      BY <2>2 DEF Chain
    <2>4. ASSUME NEW k \in 0 .. n PROVE f[k] = IF k = 0 THEN TurnStart ELSE TurnStep(e, f[k - 1], k)
      <3>1. CASE k = 0
        BY <2>3, <3>1
      <3>2. CASE k # 0
        <4>1. k \in 1 .. n /\ k - 1 \in 0 .. n
          BY <3>2
        <4>2. f[k - 1] \in Turns(d)
          BY <2>3, <4>1
        <4> QED
          BY <2>3, <3>2, <4>1, <4>2 DEF step
      <3> QED
        BY <3>1, <3>2
    <2> QED
      BY <2>3, <2>4
  <1>4. PICK h : h = CHOOSE b : Runs(b)
    OBVIOUS
  <1>5. Runs(h)
    BY <1>3, <1>4
  <1>6. h[0] = TurnStart /\ \A k \in 1 .. n : h[k] = TurnStep(e, h[k - 1], k)
    <2>1. h[0] = TurnStart
      BY <1>5
    <2>2. ASSUME NEW k \in 1 .. n PROVE h[k] = TurnStep(e, h[k - 1], k)
      <3>1. k \in 0 .. n /\ k # 0
        OBVIOUS
      <3> QED
        BY <1>5, <3>1
    <2> QED
      BY <2>1, <2>2
  <1>7. TurnEnd(e) = h[n]
    BY <1>1, <1>4 DEF TurnEnd
  <1> HIDE DEF Runs
  <1> DEFINE P == {k \in 0 .. n : Turned(h[k], e, d, k)}
  <1>8. 0 \in P
    BY <1>2, <1>6
  <1>9. ASSUME NEW k \in 1 .. n, k - 1 \in P PROVE k \in P
    <2>1. Turned(h[k - 1], e, d, k - 1)
      BY <1>9
    <2>2. Turned(TurnStep(e, h[k - 1], k), e, d, k)
      BY <1>1, <2>1, TurnKeeps
    <2> QED
      BY <1>6, <2>2
  <1>10. \A k \in 1 .. n : k - 1 \in P => k \in P
    BY <1>9
  <1> HIDE DEF P
  <1>11. \A k \in 0 .. n : k \in P
    BY <1>8, <1>10, UpTo
  <1> QED
    BY <1>1, <1>7, <1>11 DEF P

NoneWithin(t, n) == \A d \in 1 .. n : \A f \in ReachOf(t, d) : ~Meets(t, f)

(* Where a search stands that has expanded the tuples of E. *)
Explored(E) ==
  /\ E \in SUBSET Files(task)
  /\ frontier \in Seq(GoodEntries(task, depth_now))
  /\ upcoming \in Seq(GoodEntries(task, depth_now + 1))
  /\ visited = E \union OnsOf(frontier) \union OnsOf(upcoming)
  /\ \A f \in E, j \in DOMAIN InstPool :
       ~Meets(task, After(f, InstPool[j])) /\ After(f, InstPool[j]) \in visited
  /\ \A k \in 0 .. depth_now - 1 : ReachOf(task, k) \subseteq E
  /\ ReachOf(task, depth_now) \subseteq E \union OnsOf(frontier)

SynthInv ==
  /\ task \in Tasks /\ depth_now \in 0 .. MaxDepth
  /\ y_at \in {"search", "found", "none"}
  /\ y_at = "search" => \E E : Explored(E)
  /\ y_at = "found" =>
       /\ NoneWithin(task, depth_now)
       /\ \E f : [prog |-> found, on |-> f] \in GoodEntries(task, depth_now + 1) /\ Meets(task, f)
  /\ y_at = "none" => NoneWithin(task, MaxDepth)

LEMMA SynthTyped ==
  ASSUME SynthInv
  PROVE  task \in TaskSet /\ depth_now \in Nat /\ MaxDepth \in Nat
  <1>1. MaxDepth \in Nat /\ Tasks \subseteq TaskSet
    BY SynthAssumption DEF TaskSet, SynthFile
  <1>2. task \in Tasks /\ depth_now \in 0 .. MaxDepth
    BY DEF SynthInv
  <1> QED
    BY <1>1, <1>2

LEMMA Missed ==
  ASSUME NEW t \in TaskSet, NEW n \in Nat, NEW E,
         \A k \in 0 .. n - 1 : ReachOf(t, k) \subseteq E,
         \A f \in E, j \in DOMAIN InstPool : ~Meets(t, After(f, InstPool[j]))
  PROVE  NoneWithin(t, n)
  <1>1. ASSUME NEW d \in 1 .. n, NEW f \in ReachOf(t, d) PROVE ~Meets(t, f)
    <2>1. PICK k \in 0 .. n - 1 : k + 1 = d
      <3>1. d - 1 \in 0 .. n - 1 /\ (d - 1) + 1 = d
        OBVIOUS
      <3> QED
        BY <3>1
    <2>2. f \in Image(ReachOf(t, k))
      BY <2>1, ReachIs
    <2>3. PICK x \in ReachOf(t, k), j \in DOMAIN InstPool : f = After(x, InstPool[j])
      BY <2>2 DEF Image
    <2> QED
      BY <2>1, <2>3
  <1> QED
    BY <1>1 DEF NoneWithin

LEMMA NoOns == OnsOf(<<>>) = {}
  <1>1. DOMAIN <<>> = {}
    OBVIOUS
  <1> QED
    BY <1>1 DEF OnsOf

LEMMA SynthStarts == SynthStart(TRUE) => SynthInv
  <1> SUFFICES ASSUME SynthStart(TRUE) PROVE SynthInv
    OBVIOUS
  <1>1. /\ task \in Tasks /\ y_at = "search" /\ depth_now = 0 /\ upcoming = <<>>
        /\ visited = {Asked(task)} /\ frontier = <<[prog |-> <<>>, on |-> Asked(task)]>>
    BY DEF SynthStart
  <1>2. task \in TaskSet /\ MaxDepth \in Nat
    BY <1>1, SynthAssumption DEF TaskSet, SynthFile
  <1>3. PICK e : e = [prog |-> <<>>, on |-> Asked(task)]
    OBVIOUS
  <1>4. e \in GoodEntries(task, 0)
    <2>1. Asked(task) \in Files(task)
      BY <1>2, AskedTyped
    <2>2. \A n \in DOMAIN task : Leads(Bare(task[n].inp), <<>>, Bare(Asked(task)[n]))
      <3> TAKE n \in DOMAIN task
      <3>1. Asked(task)[n] = task[n].inp /\ Bare(task[n].inp) \in SynthShape
        BY <1>2, AskedTyped, BareIs
      <3> QED
        BY <3>1, LeadsNowhere
    <2>3. <<>> \in Seq(PoolLeaves) /\ Len(<<>>) = 0
      OBVIOUS
    <2>4. e \in [prog : Seq(PoolLeaves), on : Files(task)] /\ e.prog = <<>> /\ e.on = Asked(task)
      BY <1>3, <2>1, <2>3
    <2> QED
      BY <2>2, <2>3, <2>4 DEF GoodEntries
  <1>5. frontier \in Seq(GoodEntries(task, 0)) /\ OnsOf(frontier) = {Asked(task)}
    <2>1. frontier = <<e>>
      BY <1>1, <1>3
    <2>2. <<e>> \in Seq(GoodEntries(task, 0))
      BY <1>4
    <2>3. DOMAIN <<e>> = {1} /\ <<e>>[1] = e
      OBVIOUS
    <2>4. OnsOf(<<e>>) = {e.on}
      BY <2>3 DEF OnsOf
    <2> QED
      BY <1>3, <2>1, <2>2, <2>4
  <1>6. upcoming \in Seq(GoodEntries(task, 0 + 1)) /\ OnsOf(upcoming) = {}
    BY <1>1, NoOns
  <1>7. ReachOf(task, 0) = {Asked(task)}
    BY <1>2, ReachIs
  <1>8. \A k \in 0 .. 0 - 1 : FALSE
    OBVIOUS
  <1>9. Explored({})
    BY <1>1, <1>5, <1>6, <1>7, <1>8 DEF Explored
  <1> QED
    BY <1>1, <1>2, <1>9 DEF SynthInv

LEMMA ExpandKeeps ==
  ASSUME SynthInv, Expand
  PROVE  SynthInv'
  <1>1. PICK e : e = frontier[1]
    OBVIOUS
  <1>2. PICK r : r = TurnEnd(frontier[1]) /\ r = TurnEnd(e)
    BY <1>1
  <1>3. /\ y_at = "search" /\ depth_now < MaxDepth /\ frontier # <<>>
        /\ frontier' = Tail(frontier) /\ task' = task /\ depth_now' = depth_now
    BY DEF Expand
  <1>4. /\ found' = r.hit /\ y_at' = (IF r.hit # Nothing THEN "found" ELSE "search")
        /\ visited' = r.seen /\ upcoming' = r.next
    <2>1. LET z == TurnEnd(frontier[1])
          IN  /\ found' = z.hit /\ y_at' = (IF z.hit # Nothing THEN "found" ELSE "search")
              /\ visited' = z.seen /\ upcoming' = z.next
      BY DEF Expand, TurnEnd, TurnStart, TurnStep
    <2> QED
      BY <1>2, <2>1
  <1>5. PICK t \in TaskSet, d \in Nat : t = task /\ d = depth_now /\ d <= MaxDepth /\ t \in Tasks
    <2>1. /\ task \in TaskSet /\ depth_now \in Nat /\ MaxDepth \in Nat
          /\ depth_now \in 0 .. MaxDepth /\ task \in Tasks
      BY SynthTyped DEF SynthInv
    <2>2. depth_now <= MaxDepth
      BY <2>1
    <2> QED
      BY <2>1, <2>2
  <1>6. PICK E : Explored(E)
    BY <1>3 DEF SynthInv
  <1>7. /\ E \in SUBSET Files(t)
        /\ frontier \in Seq(GoodEntries(t, d)) /\ upcoming \in Seq(GoodEntries(t, d + 1))
        /\ visited = E \union OnsOf(frontier) \union OnsOf(upcoming)
        /\ \A f \in E, j \in DOMAIN InstPool :
             ~Meets(t, After(f, InstPool[j])) /\ After(f, InstPool[j]) \in visited
        /\ \A k \in 0 .. d - 1 : ReachOf(t, k) \subseteq E
        /\ ReachOf(t, d) \subseteq E \union OnsOf(frontier)
    BY <1>5, <1>6 DEF Explored
  <1>8. /\ e \in GoodEntries(t, d) /\ Tail(frontier) \in Seq(GoodEntries(t, d))
        /\ OnsOf(frontier) = {e.on} \union OnsOf(Tail(frontier))
    <2>1. PICK q \in Seq(GoodEntries(t, d)), n \in Nat : q = frontier /\ n = Len(q)
      BY <1>7
    <2>2. q # <<>> /\ n # 0
      BY <1>3, <2>1
    <2>3. PICK w : w = Tail(q)
      OBVIOUS
    <2>4. w \in Seq(GoodEntries(t, d)) /\ Len(w) = n - 1 /\ \A k \in 1 .. n - 1 : w[k] = q[k + 1]
      BY <2>1, <2>2, <2>3
    <2>5. DOMAIN q = 1 .. n /\ DOMAIN w = 1 .. n - 1
      BY <2>1, <2>2, <2>4
    <2>6. 1 \in 1 .. n /\ \A k \in 1 .. n : k = 1 \/ (k - 1 \in 1 .. n - 1 /\ (k - 1) + 1 = k)
      BY <2>2
    <2>7. \A k \in 1 .. n - 1 : k + 1 \in 1 .. n
      OBVIOUS
    <2>8. OnsOf(q) \subseteq {q[1].on} \union OnsOf(w)
      <3> SUFFICES ASSUME NEW k \in 1 .. n PROVE q[k].on \in {q[1].on} \union OnsOf(w)
        BY <2>5 DEF OnsOf
      <3>1. CASE k = 1
        BY <3>1
      <3>2. CASE k # 1
        <4>1. PICK j \in 1 .. n - 1 : j + 1 = k
          BY <2>6, <3>2
        <4>2. q[k].on = w[j].on
          BY <2>4, <4>1
        <4> QED
          BY <2>5, <4>2 DEF OnsOf
      <3> QED
        BY <3>1, <3>2
    <2>9. {q[1].on} \union OnsOf(w) \subseteq OnsOf(q)
      <3>1. q[1].on \in OnsOf(q)
        BY <2>5, <2>6 DEF OnsOf
      <3>2. ASSUME NEW k \in 1 .. n - 1 PROVE w[k].on \in OnsOf(q)
        <4>1. w[k] = q[k + 1] /\ k + 1 \in 1 .. n
          BY <2>4, <2>7
        <4> QED
          BY <2>5, <4>1 DEF OnsOf
      <3> QED
        BY <2>5, <3>1, <3>2 DEF OnsOf
    <2>10. q[1] \in GoodEntries(t, d)
      BY <2>1, <2>6
    <2> QED
      BY <1>1, <2>1, <2>3, <2>4, <2>8, <2>9, <2>10
  <1>9. e.on \in Files(t) /\ e.prog \in Seq(PoolLeaves)
    BY <1>8 DEF GoodEntries
  <1>10. \A x \in Nat : \A q \in Seq(GoodEntries(t, x)) : OnsOf(q) \in SUBSET Files(t)
    <2> TAKE x \in Nat
    <2> TAKE q \in Seq(GoodEntries(t, x))
    <2>1. \A k \in DOMAIN q : q[k] \in GoodEntries(t, x)
      OBVIOUS
    <2>2. \A k \in DOMAIN q : q[k].on \in Files(t)
      BY <2>1 DEF GoodEntries
    <2> QED
      BY <2>2 DEF OnsOf
  <1>11. visited \in SUBSET Files(t)
    <2>1. d + 1 \in Nat
      OBVIOUS
    <2>2. OnsOf(frontier) \in SUBSET Files(t) /\ OnsOf(upcoming) \in SUBSET Files(t)
      BY <1>7, <1>10, <2>1
    <2> QED
      BY <1>7, <2>2
  <1>12. CanTurn(e, d)
    BY <1>5, <1>7, <1>8, <1>11 DEF CanTurn
  <1>13. Turned(r, e, d, Len(InstPool))
    BY <1>2, <1>12, TurnEnds
  <1>14. \A f : Fulfils(f) <=> Meets(t, f)
    BY <1>5 DEF Fulfils, Meets
  <1>15. DOMAIN InstPool = 1 .. Len(InstPool)
    BY PoolIs
  <1>16. NoneWithin(t, d)
    BY <1>7, Missed
  <1>17. CASE r.hit # Nothing
    <2>1. PICK j \in 1 .. Len(InstPool) :
            r.hit = Append(e.prog, InstPool[j]) /\ Fulfils(After(e.on, InstPool[j]))
      BY <1>13, <1>17 DEF Turned
    <2>2. PICK i \in PoolLeaves : i = InstPool[j]
      BY <1>15, PoolIs
    <2>3. [prog |-> Append(e.prog, i), on |-> After(e.on, i)] \in GoodEntries(t, d + 1)
      BY <1>8, NextEntry
    <2>4. [prog |-> r.hit, on |-> After(e.on, i)] \in GoodEntries(t, d + 1) /\ Meets(t, After(e.on, i))
      BY <1>14, <2>1, <2>2, <2>3
    <2>5. /\ task' = t /\ depth_now' = d /\ found' = r.hit /\ y_at' = "found"
      BY <1>3, <1>4, <1>5, <1>17
    <2>6. d \in 0 .. MaxDepth
      BY <1>5, SynthTyped
    <2> QED
      BY <1>5, <1>16, <2>4, <2>5, <2>6 DEF SynthInv
  <1>18. CASE r.hit = Nothing
    <2>1. /\ r.seen = visited \union OnsOf(r.next) /\ OnsOf(upcoming) \subseteq OnsOf(r.next)
          /\ r.next \in Seq(GoodEntries(t, d + 1))
          /\ \A j \in DOMAIN InstPool : ~Meets(t, After(e.on, InstPool[j])) /\ After(e.on, InstPool[j]) \in r.seen
      BY <1>5, <1>13, <1>14, <1>15, <1>18 DEF Turned, Turns
    <2>2. PICK F : F = E \union {e.on}
      OBVIOUS
    <2>3. F \in SUBSET Files(t)
      BY <1>7, <1>9, <2>2
    <2>4. r.seen = F \union OnsOf(Tail(frontier)) \union OnsOf(r.next)
      BY <1>7, <1>8, <2>1, <2>2
    <2>5. \A f \in F, j \in DOMAIN InstPool :
            ~Meets(t, After(f, InstPool[j])) /\ After(f, InstPool[j]) \in r.seen
      BY <1>7, <2>1, <2>2
    <2>6. \A k \in 0 .. d - 1 : ReachOf(t, k) \subseteq F
      BY <1>7, <2>2
    <2>7. ReachOf(t, d) \subseteq F \union OnsOf(Tail(frontier))
      BY <1>7, <1>8, <2>2
    <2>8. /\ task' = t /\ depth_now' = d /\ y_at' = "search" /\ visited' = r.seen
          /\ frontier' = Tail(frontier) /\ upcoming' = r.next
      BY <1>3, <1>4, <1>5, <1>18
    <2>9. Explored(F)'
      BY <1>8, <2>1, <2>3, <2>4, <2>5, <2>6, <2>7, <2>8 DEF Explored
    <2>10. d \in 0 .. MaxDepth
      BY <1>5, SynthTyped
    <2> QED
      BY <1>5, <2>8, <2>9, <2>10 DEF SynthInv
  <1> QED
    BY <1>17, <1>18

LEMMA NextLayerKeeps ==
  ASSUME SynthInv, NextLayer
  PROVE  SynthInv'
  <1>1. /\ y_at = "search" /\ frontier = <<>> /\ depth_now < MaxDepth
        /\ frontier' = upcoming /\ upcoming' = <<>> /\ depth_now' = depth_now + 1
        /\ y_at' = (IF upcoming = <<>> THEN "none" ELSE "search")
        /\ task' = task /\ visited' = visited /\ found' = found
    BY DEF NextLayer
  <1>2. PICK t \in TaskSet, d \in Nat : t = task /\ d = depth_now /\ d < MaxDepth /\ t \in Tasks
    BY <1>1, SynthTyped DEF SynthInv
  <1>3. PICK E : Explored(E)
    BY <1>1 DEF SynthInv
  <1>4. /\ E \in SUBSET Files(t) /\ upcoming \in Seq(GoodEntries(t, d + 1))
        /\ visited = E \union OnsOf(upcoming)
        /\ \A f \in E, j \in DOMAIN InstPool :
             ~Meets(t, After(f, InstPool[j])) /\ After(f, InstPool[j]) \in visited
        /\ \A k \in 0 .. d - 1 : ReachOf(t, k) \subseteq E
        /\ ReachOf(t, d) \subseteq E
    BY <1>1, <1>2, <1>3, NoOns DEF Explored
  <1>5. \A k \in 0 .. (d + 1) - 1 : ReachOf(t, k) \subseteq E
    <2>1. \A k \in 0 .. (d + 1) - 1 : k = d \/ k \in 0 .. d - 1
      OBVIOUS
    <2> QED
      BY <1>4, <2>1
  <1>6. d + 1 \in 0 .. MaxDepth /\ MaxDepth \in Nat
    BY <1>2, SynthTyped
  <1>7. CASE upcoming = <<>>
    <2>1. visited = E
      BY <1>4, <1>7, NoOns
    <2>2. Asked(t) \in E
      <3>1. 0 \in 0 .. (d + 1) - 1
        OBVIOUS
      <3> QED
        BY <1>5, <3>1, ReachIs
    <2>3. Image(E) \subseteq E
      BY <1>4, <2>1 DEF Image
    <2>4. \A k \in 0 .. MaxDepth - 1 : ReachOf(t, k) \subseteq E
      BY <2>2, <2>3, ClosedReach
    <2>5. NoneWithin(t, MaxDepth)
      BY <1>4, <1>6, <2>4, Missed
    <2>6. task' = t /\ y_at' = "none" /\ depth_now' = d + 1
      BY <1>1, <1>2, <1>7
    <2> QED
      BY <1>2, <1>6, <2>5, <2>6 DEF SynthInv
  <1>8. CASE upcoming # <<>>
    <2>1. ReachOf(t, d + 1) \subseteq E \union OnsOf(upcoming)
      <3>1. ReachOf(t, d + 1) = Image(ReachOf(t, d))
        BY ReachIs
      <3>2. Image(ReachOf(t, d)) \subseteq visited
        BY <1>4 DEF Image
      <3> QED
        BY <1>4, <3>1, <3>2
    <2>2. PICK c \in Nat : c = d + 1
      OBVIOUS
    <2>3. /\ task' = t /\ y_at' = "search" /\ depth_now' = c /\ frontier' = upcoming
          /\ upcoming' = <<>> /\ visited' = visited
      BY <1>1, <1>2, <1>8, <2>2
    <2>4. OnsOf(upcoming)' = {} /\ OnsOf(frontier)' = OnsOf(upcoming)
      BY <2>3, NoOns DEF OnsOf
    <2>5. upcoming' \in Seq(GoodEntries(t, c + 1))
      <3>1. <<>> \in Seq(GoodEntries(t, c + 1))
        OBVIOUS
      <3> QED
        BY <2>3, <3>1
    <2>6. /\ frontier' \in Seq(GoodEntries(t, c)) /\ ReachOf(t, c) \subseteq E \union OnsOf(upcoming)
          /\ \A k \in 0 .. c - 1 : ReachOf(t, k) \subseteq E
      BY <1>4, <1>5, <2>1, <2>2, <2>3
    <2>7. Explored(E)'
      BY <1>4, <2>3, <2>4, <2>5, <2>6 DEF Explored
    <2> QED
      BY <1>2, <1>6, <2>2, <2>3, <2>7 DEF SynthInv
  <1> QED
    BY <1>7, <1>8

LEMMA GiveUpKeeps ==
  ASSUME SynthInv, GiveUpSearch
  PROVE  SynthInv'
  <1>1. y_at = "search" /\ depth_now = MaxDepth /\ y_at' = "none" /\ task' = task /\ depth_now' = depth_now
    BY DEF GiveUpSearch
  <1>2. PICK t \in TaskSet, d \in Nat : t = task /\ d = MaxDepth /\ t \in Tasks
    BY <1>1, SynthTyped DEF SynthInv
  <1>3. PICK E : Explored(E)
    BY <1>1 DEF SynthInv
  <1>4. /\ \A f \in E, j \in DOMAIN InstPool : ~Meets(t, After(f, InstPool[j]))
        /\ \A k \in 0 .. d - 1 : ReachOf(t, k) \subseteq E
    BY <1>1, <1>2, <1>3 DEF Explored
  <1>5. NoneWithin(t, d)
    BY <1>4, Missed
  <1> QED
    BY <1>1, <1>2, <1>5 DEF SynthInv

LEMMA SynthIdles == SynthInv /\ UNCHANGED synthVars => SynthInv'
  <1> SUFFICES ASSUME SynthInv, UNCHANGED synthVars PROVE SynthInv'
    OBVIOUS
  <1>1. /\ task' = task /\ depth_now' = depth_now /\ y_at' = y_at /\ found' = found
        /\ frontier' = frontier /\ upcoming' = upcoming /\ visited' = visited
    BY DEF synthVars
  <1>2. ASSUME NEW E, Explored(E) PROVE Explored(E)'
    BY <1>1, <1>2 DEF Explored
  <1> QED
    BY <1>1, <1>2 DEF SynthInv

LEMMA SynthSays == SynthInv => FoundIsShortest
  <1> SUFFICES ASSUME SynthInv PROVE FoundIsShortest
    OBVIOUS
  <1>1. PICK t \in TaskSet : t = task
    BY SynthTyped
  <1>2. \A n : Reach(n) = ReachOf(t, n)
    BY <1>1 DEF Reach, ReachOf
  <1>3. \A f : Fulfils(f) <=> Meets(t, f)
    BY <1>1 DEF Fulfils, Meets
  <1>4. ASSUME y_at = "found"
        PROVE  /\ \A n \in DOMAIN task :
                    /\ RunForward(Bare(task[n].inp), found).s.regs = task[n].want
                    /\ ReverseAll(RunForward(Bare(task[n].inp), found).s, found).s = Bare(task[n].inp)
               /\ \A d \in 1 .. Len(found) - 1 : \A f \in Reach(d) : ~Fulfils(f)
    <2>1. NoneWithin(t, depth_now) /\ depth_now \in Nat
      BY <1>1, <1>4, SynthTyped DEF SynthInv
    <2>2. PICK f : [prog |-> found, on |-> f] \in GoodEntries(t, depth_now + 1) /\ Meets(t, f)
      BY <1>1, <1>4 DEF SynthInv
    <2>3. /\ f \in Files(t) /\ Len(found) = depth_now + 1
          /\ \A n \in DOMAIN t : Leads(Bare(t[n].inp), found, Bare(f[n]))
      <3>1. PICK e : e = [prog |-> found, on |-> f]
        OBVIOUS
      <3>2. e.prog = found /\ e.on = f /\ e \in GoodEntries(t, depth_now + 1)
        BY <2>2, <3>1
      <3>3. e.on \in Files(t) /\ Len(e.prog) = depth_now + 1
            /\ \A n \in DOMAIN t : Leads(Bare(t[n].inp), e.prog, Bare(e.on[n]))
        BY <3>2 DEF GoodEntries
      <3> QED
        BY <3>2, <3>3
    <2>4. ASSUME NEW n \in DOMAIN t
          PROVE  /\ RunForward(Bare(t[n].inp), found).s.regs = t[n].want
                 /\ ReverseAll(RunForward(Bare(t[n].inp), found).s, found).s = Bare(t[n].inp)
      <3>1. Bare(t[n].inp) \in SynthShape /\ f[n] \in SynthFile
        BY <2>3, AskedTyped, BareIs DEF Files
      <3>2. Leads(Bare(t[n].inp), found, Bare(f[n]))
        BY <2>3
      <3>3. RunForward(Bare(t[n].inp), found).s = Bare(f[n])
        BY <3>2 DEF Leads
      <3>4. Bare(f[n]).regs = t[n].want
        BY <2>2, <3>1, BareIs DEF Meets
      <3>5. ReverseAll(Bare(f[n]), found).s = Bare(t[n].inp)
        BY <3>1, <3>2, LeadsBack
      <3> QED
        BY <3>3, <3>4, <3>5
    <2>5. \A d \in 1 .. Len(found) - 1 : d \in 1 .. depth_now
      BY <2>1, <2>3
    <2>6. \A d \in 1 .. Len(found) - 1 : \A g \in Reach(d) : ~Fulfils(g)
      BY <1>2, <1>3, <2>1, <2>5 DEF NoneWithin
    <2> QED
      BY <1>1, <2>4, <2>6
  <1>5. ASSUME y_at = "none" PROVE \A d \in 1 .. MaxDepth : \A f \in Reach(d) : ~Fulfils(f)
    <2>1. NoneWithin(t, MaxDepth)
      BY <1>1, <1>5 DEF SynthInv
    <2> QED
      BY <1>2, <1>3, <2>1 DEF NoneWithin
  <1> QED
    BY <1>4, <1>5 DEF FoundIsShortest

(* The search finds a shortest program, and gives up only when there is none   *)
(* within the depth, for every task over any number of registers.              *)
THEOREM SearchIsShortest == SynthSpec => []FoundIsShortest
  <1>1. SynthInv /\ [SynthNext]_synthVars => SynthInv'
    BY ExpandKeeps, NextLayerKeeps, GiveUpKeeps, SynthIdles DEF SynthNext
  <1> QED
    BY <1>1, SynthStarts, SynthSays, PTL DEF SynthSpec

-----------------------------------------------------------------------------
(* The pipeline: its parser. *)

LEMMA EtlFacts ==
  /\ Cols \in Nat \ {0} /\ Modulus \in Nat \ {0, 1} /\ WordBytes = 8
  /\ 0 \in Word /\ Modulus - 1 \in Word
  /\ \A f \in Csvs : Len(f) \in Nat /\ Len(f) * Cols <= Modulus
  /\ \A f \in Csvs : \A n \in 1 .. Len(f) : f[n] \in FileLine
  <1>1. Modulus \in Nat \ {0, 1}
    BY ModulusFacts
  <1>2. Len(Targets) \in Nat \ {0}
    <2>1. PICK S : S = 0 .. Modulus \div 2 - 1
      OBVIOUS
    <2>2. Targets \in Seq(S) /\ Targets # <<>>
      BY <2>1, EtlAssumption
    <2> QED
      BY <2>2
  <1>3. \A f \in Csvs : Len(f) \in Nat /\ \A n \in 1 .. Len(f) : f[n] \in FileLine
    <2> TAKE f \in Csvs
    <2>1. f \in Seq(FileLine)
      BY EtlAssumption
    <2> HIDE DEF FileLine
    <2> QED
      BY <2>1
  <1> QED
    BY <1>1, <1>2, <1>3, EtlAssumption DEF Cols, Word, WordBytes

(* Sequences of one length with the same elements are one. *)
LEMMA SameSequence ==
  ASSUME NEW S, NEW p \in Seq(S), NEW q \in Seq(S), Len(p) = Len(q),
         \A i \in 1 .. Len(p) : p[i] = q[i]
  PROVE  p = q
  OBVIOUS

(* Arenas of words. *)
Buffers == [buf : Seq(Word), marks : Seq(Nat), cap : Nat, moves : Nat]

LEMMA ReserveIs ==
  ASSUME NEW a \in Buffers
  PROVE  Reserve(a, 1) \in Buffers /\ Reserve(a, 1).buf = a.buf /\ Reserve(a, 1).marks = a.marks
  <1>1. PICK b \in Seq(Word), m \in Seq(Nat), c \in Nat, v \in Nat :
          a = [buf |-> b, marks |-> m, cap |-> c, moves |-> v]
    BY DEF Buffers
  <1>2. PICK need \in Nat : need = Len(a.buf) + 1
    BY <1>1
  <1>3. CASE need <= a.cap
    BY <1>2, <1>3 DEF Reserve
  <1>4. CASE ~(need <= a.cap)
    <2>1. PICK e \in Nat : e = (IF need > 2 * a.cap THEN need ELSE 2 * a.cap)
      BY <1>1
    <2>2. Reserve(a, 1) = [buf |-> b, marks |-> m, cap |-> e, moves |-> v + 1]
      BY <1>1, <1>2, <1>4, <2>1 DEF Reserve
    <2> QED
      BY <1>1, <2>2 DEF Buffers
  <1> QED
    BY <1>3, <1>4

(* A word allocated and written is a word put at the end. *)
PutWord(a, v) == WriteWord(Alloc(a, WordBytes), MarkOf(a), v)

LEMMA PutWordIs ==
  ASSUME NEW a \in Buffers, NEW v \in Word
  PROVE  /\ PutWord(a, v) \in Buffers /\ PutWord(a, v).marks = a.marks
         /\ PutWord(a, v).buf = Append(a.buf, v)
  <1>1. PICK t \in Buffers : t = Reserve(a, 1) /\ t.buf = a.buf /\ t.marks = a.marks
    BY ReserveIs
  <1>2. PICK b \in Seq(Word), m \in Seq(Nat), c \in Nat, w \in Nat :
          t = [buf |-> b, marks |-> m, cap |-> c, moves |-> w]
    BY DEF Buffers
  <1>3. PICK n \in Nat : n = Len(b) /\ a.buf = b /\ a.marks = m
    BY <1>1, <1>2
  <1>4. DivCeil(WordBytes, WordBytes) = 1
    BY DEF DivCeil, WordBytes
  <1>a. PICK z : z = [i \in 1 .. 1 |-> 0]
    OBVIOUS
  <1>5. z \in Seq(Word) /\ Len(z) = 1 /\ z = [i \in 1 .. 1 |-> 0]
    BY <1>a, EtlFacts
  <1>b. \A p, q \in Seq(Word) : p \o q \in Seq(Word) /\ Len(p \o q) = Len(p) + Len(q)
    OBVIOUS
  <1>c. PICK d : d = b \o z
    OBVIOUS
  <1>6. d \in Seq(Word) /\ d = b \o z /\ Len(d) = n + 1
    BY <1>b, <1>c, <1>3, <1>5
  <1>7. Alloc(a, WordBytes) = [buf |-> d, marks |-> m, cap |-> c, moves |-> w]
    <2>1. Alloc(a, WordBytes) = [t EXCEPT !.buf = @ \o z]
      BY <1>1, <1>4, <1>5 DEF Alloc
    <2> QED
      BY <1>2, <1>6, <2>1
  <1>8. MarkOf(a) \div WordBytes + 1 = n + 1
    <2>1. MarkOf(a) = n * 8
      BY <1>3 DEF MarkOf, WordBytes
    <2>2. (n * 8) \div 8 = n
      OBVIOUS
    <2> QED
      BY <2>1, <2>2 DEF WordBytes
  <1>9. [d EXCEPT ![n + 1] = v] = Append(b, v)
    <2>1. Len(d) = n + 1 /\ \A i \in 1 .. n : d[i] = b[i]
      BY <1>3, <1>5, <1>6
    <2>a. PICK e : e = [d EXCEPT ![n + 1] = v]
      OBVIOUS
    <2>2. e \in Seq(Word) /\ e = [d EXCEPT ![n + 1] = v]
      <3>1. d \in [1 .. n + 1 -> Word]
        <4>1. \A q \in Seq(Word) : q \in [1 .. Len(q) -> Word]
          OBVIOUS
        <4> QED
          BY <1>6, <4>1
      <3>2. e \in [1 .. n + 1 -> Word]
        BY <2>a, <3>1
      <3>3. \A q \in [1 .. n + 1 -> Word] : q \in Seq(Word)
        OBVIOUS
      <3> QED
        BY <2>a, <3>2, <3>3
    <2>3. Len(e) = n + 1 /\ e[n + 1] = v /\ \A i \in 1 .. n : e[i] = b[i]
      BY <2>1, <2>2
    <2>b. PICK f : f = Append(b, v)
      OBVIOUS
    <2>4. f \in Seq(Word) /\ f = Append(b, v)
      BY <2>b
    <2>5. Len(f) = n + 1 /\ f[n + 1] = v /\ \A i \in 1 .. n : f[i] = b[i]
      BY <1>3, <2>4
    <2>6. Len(e) = Len(f) /\ \A i \in 1 .. Len(e) : e[i] = f[i]
      BY <2>3, <2>5
    <2>7. e = f
      BY <2>2, <2>4, <2>6, SameSequence
    <2> QED
      BY <2>2, <2>4, <2>7
  <1>10. PutWord(a, v) = [buf |-> Append(b, v), marks |-> m, cap |-> c, moves |-> w]
    <2>1. PICK x : x = Alloc(a, WordBytes) /\ x = [buf |-> d, marks |-> m, cap |-> c, moves |-> w]
      BY <1>7
    <2>2. PICK o : o = MarkOf(a) /\ o \div WordBytes + 1 = n + 1
      BY <1>8
    <2>4. WriteWord(x, o, v) = [x EXCEPT !.buf = [x.buf EXCEPT ![n + 1] = v]]
      BY <2>2 DEF WriteWord
    <2>5. PICK f : f = Append(b, v)
      OBVIOUS
    <2>6. [x.buf EXCEPT ![n + 1] = v] = f
      BY <1>9, <2>1, <2>5
    <2>7. [x EXCEPT !.buf = f] = [buf |-> f, marks |-> m, cap |-> c, moves |-> w]
      BY <2>1
    <2>3. WriteWord(x, MarkOf(a), v) = [buf |-> Append(b, v), marks |-> m, cap |-> c, moves |-> w]
      BY <2>2, <2>4, <2>5, <2>6, <2>7
    <2> QED
      BY <2>1, <2>3 DEF PutWord
  <1>11. Append(b, v) \in Seq(Word)
    OBVIOUS
  <1> QED
    BY <1>1, <1>2, <1>10, <1>11 DEF Buffers

(* How far the fields of a line are numbers. *)
LEMMA GoodFieldsIs ==
  ASSUME NEW l \in FileLine
  PROVE  /\ GoodFields(l) \in 0 .. Cols
         /\ \A c \in 1 .. GoodFields(l) : l.fields[c] \in Word
         /\ GoodFields(l) = Cols => Len(l.fields) = Cols
  <1>a. Cols \in Nat \ {0}
    BY EtlFacts
  <1>1. CASE Len(l.fields) # Cols
    BY <1>1, <1>a DEF GoodFields
  <1>2. CASE Len(l.fields) = Cols
    <2> DEFINE wrong == {c \in 1 .. Cols : l.fields[c] = -1}
    <2>1. \A c \in 1 .. Cols : l.fields[c] \in Word \union {-1}
      <3>1. PICK S : S = Word \union {-1}
        OBVIOUS
      <3>2. l.fields \in Seq(S)
        BY <3>1 DEF FileLine
      <3> QED
        BY <1>2, <3>1, <3>2
    <2>2. CASE wrong = {}
      <3>1. GoodFields(l) = Cols
        BY <1>2, <2>2 DEF GoodFields
      <3> QED
        BY <1>2, <1>a, <2>1, <2>2, <3>1
    <2>3. CASE wrong # {}
      <3>1. \E m \in wrong : \A d \in wrong : m <= d
        <4>1. \A d \in wrong : d \in Nat
          BY <1>a
        <4> HIDE DEF wrong
        <4>2. wrong \subseteq Nat
          BY <4>1
        <4>3. PICK x \in wrong : TRUE
          BY <2>3
        <4> QED
          BY <4>2, <4>3, LeastNat
      <3>2. PICK m \in wrong : m = (CHOOSE c \in wrong : \A d \in wrong : c <= d) /\ \A d \in wrong : m <= d
        BY <3>1
      <3>3. GoodFields(l) = m - 1
        BY <1>2, <2>3, <3>2 DEF GoodFields
      <3>4. m \in 1 .. Cols
        OBVIOUS
      <3>5. \A c \in 1 .. m - 1 : c \in 1 .. Cols /\ c \notin wrong
        <4> TAKE c \in 1 .. m - 1
        <4>1. c \in 1 .. Cols /\ ~(m <= c)
          BY <1>a, <3>4
        <4> QED
          BY <3>2, <4>1
      <3> QED
        BY <1>2, <1>a, <2>1, <3>3, <3>4, <3>5
    <2> QED
      BY <2>2, <2>3
  <1> QED
    BY <1>1, <1>2

(* A line's mark and its words. *)
Holds(z, a, l, g) ==
  /\ z \in Buffers /\ z.marks = <<Len(a.buf)>>
  /\ Len(z.buf) = Len(a.buf) + g
  /\ \A i \in 1 .. Len(a.buf) : z.buf[i] = a.buf[i]
  /\ \A c \in 1 .. g : z.buf[Len(a.buf) + c] = l.fields[c]

LEMMA WrittenIs ==
  ASSUME NEW a \in Buffers, a.marks = <<>>, NEW l \in FileLine,
         NEW g \in Nat, g = GoodFields(l)
  PROVE  Holds(Written(a, l), a, l, g)
  <1>1. \A c \in 1 .. g : l.fields[c] \in Word
    BY GoodFieldsIs
  <1> DEFINE step == [k \in 1 .. g |-> [p \in Buffers |-> PutWord(p, l.fields[k])]]
  <1>2. step \in [1 .. g -> [Buffers -> Buffers]]
    BY <1>1, PutWordIs
  <1>3. PICK z : z = PushMark(a)
    OBVIOUS
  <1>4. z \in Buffers /\ z.marks = <<Len(a.buf)>> /\ z.buf = a.buf
    <2>1. PICK b \in Seq(Word), m \in Seq(Nat), c \in Nat, v \in Nat :
            a = [buf |-> b, marks |-> m, cap |-> c, moves |-> v]
      BY DEF Buffers
    <2>2. PICK n \in Nat : n = Len(b)
      BY <2>1
    <2>3. Append(m, n) \in Seq(Nat) /\ Append(<<>>, n) = <<n>> /\ m = <<>>
      BY <2>1
    <2>4. z = [buf |-> b, marks |-> Append(m, n), cap |-> c, moves |-> v]
      BY <1>3, <2>1, <2>2 DEF PushMark
    <2> QED
      BY <2>1, <2>2, <2>3, <2>4 DEF Buffers
  <1> HIDE DEF step
  <1>5. PICK u : Chain(u, g, Buffers, z, step)
    BY <1>2, <1>4, Recursion
  <1>6. u \in [0 .. g -> Buffers] /\ u[0] = z /\ \A k \in 1 .. g : u[k] = step[k][u[k - 1]]
    BY <1>5 DEF Chain
  <1>7. ASSUME NEW k \in 1 .. g PROVE u[k] = PutWord(u[k - 1], l.fields[k])
    <2>1. k - 1 \in 0 .. g
      OBVIOUS
    <2>2. u[k - 1] \in Buffers
      BY <1>6, <2>1
    <2> QED
      BY <1>6, <2>2 DEF step
  <1> DEFINE Runs(h) ==
        h = [c \in 0 .. GoodFields(l) |->
              IF c = 0 THEN PushMark(a)
              ELSE WriteWord(Alloc(h[c - 1], WordBytes), MarkOf(h[c - 1]), l.fields[c])]
  <1>8. Runs(u)
    <2>1. \A c \in 0 .. g : c = 0 \/ c \in 1 .. g
      OBVIOUS
    <2>2. \A c \in 0 .. g :
            u[c] = IF c = 0 THEN PushMark(a)
                   ELSE WriteWord(Alloc(u[c - 1], WordBytes), MarkOf(u[c - 1]), l.fields[c])
      BY <1>3, <1>6, <1>7, <2>1 DEF PutWord
    <2> QED
      BY <1>6, <2>2
  <1>9. PICK h : h = CHOOSE f : Runs(f)
    OBVIOUS
  <1>10. Runs(h)
    BY <1>8, <1>9
  <1>11. Written(a, l) = h[g]
    BY <1>9 DEF Written
  <1>12. h[0] = z /\ \A k \in 1 .. g : h[k] = PutWord(h[k - 1], l.fields[k])
    BY <1>3, <1>10 DEF PutWord
  <1> HIDE DEF Runs
  <1> DEFINE P == {k \in 0 .. g : Holds(h[k], a, l, k)}
  <1>13. 0 \in P
    <2>1. Len(a.buf) \in Nat
      BY DEF Buffers
    <2> QED
      BY <1>4, <1>12, <2>1 DEF Holds
  <1>14. ASSUME NEW k \in 1 .. g, k - 1 \in P PROVE k \in P
    <2>1. PICK p \in Buffers : p = h[k - 1] /\ Holds(p, a, l, k - 1)
      BY <1>14 DEF Holds
    <2>2. PICK q : q = h[k] /\ q \in Buffers /\ q.marks = p.marks /\ q.buf = Append(p.buf, l.fields[k])
      BY <1>1, <1>12, <2>1, PutWordIs
    <2>3. PICK n \in Nat : n = Len(a.buf)
      BY DEF Buffers
    <2>4. PICK d \in Seq(Word), w \in Word : d = p.buf /\ w = l.fields[k] /\ Len(d) = n + k - 1
      BY <1>1, <2>1, <2>3 DEF Buffers, Holds
    <2>5. PICK e : e = Append(d, w)
      OBVIOUS
    <2>6. Len(e) = n + k /\ e[n + k] = w /\ \A i \in 1 .. n + k - 1 : e[i] = d[i]
      <3>1. Len(e) = Len(d) + 1 /\ e[Len(d) + 1] = w /\ \A i \in 1 .. Len(d) : e[i] = d[i]
        BY <2>5
      <3>2. Len(d) = n + k - 1 /\ Len(d) + 1 = n + k
        BY <1>1, <2>4
      <3> QED
        BY <3>1, <3>2
    <2>7. \A i \in 1 .. n : e[i] = a.buf[i]
      BY <2>1, <2>3, <2>4, <2>6 DEF Holds
    <2>8. \A c \in 1 .. k : e[n + c] = l.fields[c]
      <3> TAKE c \in 1 .. k
      <3>1. CASE c = k
        BY <2>4, <2>6, <3>1
      <3>2. CASE c # k
        <4>1. c \in 1 .. k - 1 /\ n + c \in 1 .. n + k - 1
          BY <3>2
        <4> QED
          BY <2>1, <2>3, <2>4, <2>6, <4>1 DEF Holds
      <3> QED
        BY <3>1, <3>2
    <2> QED
      <3>1. q \in Buffers /\ q.marks = <<Len(a.buf)>> /\ q.buf = e
        BY <2>1, <2>2, <2>4, <2>5 DEF Holds
      <3>2. Holds(q, a, l, k)
        BY <2>3, <2>6, <2>7, <2>8, <3>1 DEF Holds
      <3>3. k \in 0 .. g
        OBVIOUS
      <3> QED
        BY <2>2, <3>2, <3>3
  <1>15. \A k \in 1 .. g : k - 1 \in P => k \in P
    BY <1>14
  <1> HIDE DEF P
  <1>16. \A k \in 0 .. g : k \in P
    BY <1>13, <1>15, UpTo
  <1> QED
    BY <1>11, <1>16 DEF P

(* What a refused line leaves, and an accepted one. *)
LEMMA RefusedIs ==
  ASSUME NEW a \in Buffers, NEW z, NEW l, NEW g \in Nat, Holds(z, a, l, g)
  PROVE  /\ Refuse(z, MarkOf(a)) \in Buffers /\ Refuse(z, MarkOf(a)).marks = <<>>
         /\ Refuse(z, MarkOf(a)).buf = a.buf
  <1>1. PICK n \in Nat, d \in Seq(Word) : n = Len(d) /\ d = a.buf
    BY DEF Buffers
  <1>2. PICK b \in Seq(Word), c \in Nat, v \in Nat :
          z = [buf |-> b, marks |-> <<n>>, cap |-> c, moves |-> v]
    BY <1>1 DEF Holds, Buffers
  <1>3. Len(b) = n + g /\ \A i \in 1 .. n : b[i] = d[i]
    BY <1>1, <1>2 DEF Holds
  <1>4. PICK o : o = MarkOf(a) /\ o \div WordBytes = n
    <2>1. MarkOf(a) = n * 8
      <3>1. Len(a.buf) = n
        BY <1>1
      <3> QED
        BY <3>1 DEF MarkOf, WordBytes
    <2>2. (n * 8) \div 8 = n
      OBVIOUS
    <2> QED
      BY <2>1, <2>2 DEF WordBytes
  <1>5. SubSeq(b, 1, n) = d
    <2>1. PICK e : e = SubSeq(b, 1, n)
      OBVIOUS
    <2>2. e \in Seq(Word) /\ Len(e) = n /\ \A i \in 1 .. n : e[i] = b[i]
      BY <1>3, <2>1
    <2>3. Len(e) = Len(d) /\ \A i \in 1 .. Len(e) : e[i] = d[i]
      BY <1>1, <1>3, <2>2
    <2>4. e = d
      BY <2>2, <2>3, SameSequence
    <2> QED
      BY <2>1, <2>4
  <1>6. MarksBelow(<<n>>, n) = <<>>
    <2>1. {i \in DOMAIN <<n>> : <<n>>[i] < n} = {}
      OBVIOUS
    <2> QED
      BY <2>1 DEF MarksBelow
  <1>7. Refuse(z, o) = [buf |-> d, marks |-> <<>>, cap |-> c, moves |-> v]
    <2>1. Rollback(z, o) = [z EXCEPT !.buf = SubSeq(z.buf, 1, n), !.marks = MarksBelow(z.marks, n)]
      BY <1>4 DEF Rollback
    <2>2. z.buf = b /\ z.marks = <<n>>
      BY <1>2
    <2>3. Rollback(z, o) = [z EXCEPT !.buf = d, !.marks = <<>>]
      BY <1>5, <1>6, <2>1, <2>2
    <2> QED
      BY <1>2, <2>3 DEF Refuse
  <1>8. <<>> \in Seq(Nat)
    OBVIOUS
  <1> QED
    BY <1>1, <1>4, <1>7, <1>8 DEF Buffers

LEMMA CommittedIs ==
  ASSUME NEW a \in Buffers, NEW z, NEW l, NEW g \in Nat, Holds(z, a, l, g)
  PROVE  CommitMark(z) \in Buffers /\ CommitMark(z).marks = <<>> /\ CommitMark(z).buf = z.buf
  <1>1. PICK n \in Nat : n = Len(a.buf)
    BY DEF Buffers
  <1>2. PICK b \in Seq(Word), c \in Nat, v \in Nat :
          z = [buf |-> b, marks |-> <<n>>, cap |-> c, moves |-> v]
    BY <1>1 DEF Holds, Buffers
  <1>3. <<n>> # <<>> /\ SubSeq(<<n>>, 1, Len(<<n>>) - 1) = <<>> /\ <<>> \in Seq(Nat)
    OBVIOUS
  <1>4. CommitMark(z) = [buf |-> b, marks |-> <<>>, cap |-> c, moves |-> v]
    BY <1>2, <1>3 DEF CommitMark
  <1>5. PICK y : y = CommitMark(z)
    OBVIOUS
  <1>6. y \in Buffers /\ y.marks = <<>> /\ y.buf = b /\ z.buf = b
    BY <1>2, <1>3, <1>4, <1>5 DEF Buffers
  <1> QED
    BY <1>5, <1>6

LEMMA RowRead ==
  ASSUME NEW a \in Buffers, NEW z, NEW l, NEW g \in Nat, Holds(z, a, l, g), NEW c \in 1 .. g
  PROVE  ReadWord(z, MarkOf(a) + (c - 1) * WordBytes) = l.fields[c]
  <1>1. PICK n \in Nat : n = Len(a.buf)
    BY DEF Buffers
  <1>2. MarkOf(a) + (c - 1) * WordBytes = (n + c - 1) * 8
    <2>1. MarkOf(a) = n * 8 /\ WordBytes = 8
      BY <1>1 DEF MarkOf, WordBytes
    <2>2. n * 8 + (c - 1) * 8 = (n + c - 1) * 8
      OBVIOUS
    <2> QED
      BY <2>1, <2>2
  <1>3. ((n + c - 1) * 8) \div 8 + 1 = n + c
    OBVIOUS
  <1>4. (MarkOf(a) + (c - 1) * WordBytes) \div WordBytes + 1 = n + c
    BY <1>2, <1>3 DEF WordBytes
  <1>5. z.buf[n + c] = l.fields[c]
    BY <1>1 DEF Holds
  <1> QED
    BY <1>4, <1>5 DEF ReadWord

-----------------------------------------------------------------------------
(* Products. *)
LEMMA ProductGrows ==
  ASSUME NEW x \in Nat, NEW y \in Nat, NEW z \in Nat
  PROVE  /\ x * z \in Nat /\ (x + 1) * z = x * z + z
         /\ x <= y => x * z <= y * z
  <1>1. x * z \in Nat /\ (x + 1) * z = x * z + z
    OBVIOUS
  <1>2. ASSUME x <= y PROVE x * z <= y * z
    <2>1. PICK d \in Nat : y = x + d
      BY <1>2
    <2>2. y * z = x * z + d * z /\ d * z \in Nat /\ x * z \in Nat
      BY <2>1
    <2> QED
      BY <2>2
  <1> QED
    BY <1>1, <1>2

(* The words of row r among those of n rows. *)
LEMMA RowInside ==
  ASSUME NEW n \in Nat, NEW r \in 1 .. n, NEW c \in 1 .. Cols
  PROVE  /\ (r - 1) * Cols \in Nat /\ (r - 1) * Cols + Cols = r * Cols /\ r * Cols <= n * Cols
         /\ (r - 1) * Cols + c \in 1 .. n * Cols
         /\ Cell(r, c) \in 0 .. n * Cols - 1
  <1>1. PICK m \in Nat \ {0} : m = Cols
    BY EtlFacts
  <1>2. PICK q \in Nat : q = r - 1 /\ r = q + 1 /\ r <= n
    OBVIOUS
  <1>3. q * m \in Nat /\ r * m = q * m + m /\ r * m <= n * m
    BY <1>1, <1>2, ProductGrows
  <1> QED
    BY <1>1, <1>2, <1>3 DEF Cell

(* How many lines were accepted grows with each of them. *)
LEMMA AcceptedGrows ==
  ASSUME csv \in Csvs
  PROVE  /\ AcceptedTo(0) = 0
         /\ \A n \in 0 .. Len(csv) : AcceptedTo(n) \in Nat
         /\ \A n \in 1 .. Len(csv) :
              AcceptedTo(n) = AcceptedTo(n - 1) + (IF Accepted(n) THEN 1 ELSE 0)
  <1>1. PICK m \in Nat : m = Len(csv)
    BY EtlFacts
  <1>2. PICK T : T = {k \in 1 .. m : Accepted(k)}
    OBVIOUS
  <1>3. T \subseteq 1 .. m
    BY <1>2
  <1>4. /\ CountUp(T, 0) = 0
        /\ \A p \in 0 .. m : CountUp(T, p) \in Nat
        /\ \A p \in 1 .. m : CountUp(T, p) = CountUp(T, p - 1) + (IF p \in T THEN 1 ELSE 0)
    BY <1>3, CountSteps
  <1>5. \A p \in 0 .. m : AcceptedTo(p) = CountUp(T, p)
    <2> TAKE p \in 0 .. m
    <2>1. {j \in T : j <= p} = {k \in 1 .. p : Accepted(k)}
      BY <1>2
    <2> QED
      BY <2>1 DEF CountUp, AcceptedTo
  <1>6. \A p \in 1 .. m : p - 1 \in 0 .. m /\ p \in 0 .. m /\ (p \in T <=> Accepted(p))
    BY <1>2
  <1> HIDE DEF AcceptedTo, Accepted
  <1> QED
    BY <1>1, <1>4, <1>5, <1>6

Phases == {"parse", "base", "applyA", "undoA", "applyB", "undoB", "again", "filter", "done", "panic"}
RowValues == [1 .. Cols -> Word]

EtlTyped ==
  /\ csv \in Csvs /\ checked \in BOOLEAN /\ e_at \in Phases
  /\ lines_read \in 0 .. Len(csv)
  /\ rows \in Seq(RowValues) /\ ids \in Seq(Word) /\ Len(ids) = Len(rows)
  /\ Len(rows) <= lines_read /\ row \in 0 .. Len(rows)
  /\ bad \in [A : Nat, B : Nat]

(* The rows are the accepted lines and the arena holds them; the ids kept are *)
(* those of the good lines.                                                  *)
ArenaHasRows ==
  /\ arena \in Buffers /\ arena.marks = <<>> /\ Len(arena.buf) = Len(rows) * Cols
  /\ \A r \in 1 .. Len(rows) : \A c \in 1 .. Cols : arena.buf[(r - 1) * Cols + c] = rows[r][c]
RowsAreLines ==
  \A k \in 1 .. lines_read : Accepted(k) =>
    /\ AcceptedTo(k) \in 1 .. Len(rows) /\ ids[AcceptedTo(k)] = IdOf(csv[k])
    /\ \A c \in 1 .. Cols : rows[AcceptedTo(k)][c] = csv[k].fields[c]
IdsAreGood ==
  /\ \A r \in 1 .. Len(ids) : \E k \in 1 .. lines_read : GoodLine(k) /\ ids[r] = IdOf(csv[k])
  /\ \A k \in 1 .. lines_read : GoodLine(k) => \E r \in 1 .. Len(ids) : ids[r] = IdOf(csv[k])
ParseInv ==
  /\ Len(rows) = AcceptedTo(lines_read)
  /\ ArenaHasRows /\ RowsAreLines /\ IdsAreGood

(* Nothing said of lines changes while the file is the same. *)
LEMMA LinesStay ==
  ASSUME csv' = csv
  PROVE  /\ \A k : GoodLine(k)' <=> GoodLine(k)
         /\ \A k : Accepted(k)' <=> Accepted(k)
         /\ \A k : AcceptedTo(k)' = AcceptedTo(k)
         /\ \A k : IdOf(csv[k])' = IdOf(csv[k])
  <1>1. \A k : GoodLine(k)' <=> GoodLine(k)
    BY DEF GoodLine
  <1>2. \A k : IdOf(csv[k])' = IdOf(csv[k])
    BY DEF IdOf
  <1>3. \A k : Accepted(k)' <=> Accepted(k)
    BY DEF Accepted, GoodLine
  <1>4. \A k : AcceptedTo(k)' = AcceptedTo(k)
    BY DEF AcceptedTo, Accepted, GoodLine
  <1> QED
    BY <1>1, <1>2, <1>3, <1>4

(* A line is accepted when it is good and its id was not seen. *)
LEMMA AcceptedIs ==
  ASSUME EtlTyped, ParseInv, NEW n \in Nat, n = lines_read + 1, n <= Len(csv)
  PROVE  Accepted(n) <=> GoodFields(csv[n]) = Cols /\ ~Seen(IdOf(csv[n]))
  <1>1. lines_read \in Nat /\ n - 1 = lines_read /\ DOMAIN ids = 1 .. Len(ids)
    BY EtlFacts DEF EtlTyped
  <1>2. Seen(IdOf(csv[n])) <=>
          \E j \in 1 .. n - 1 : GoodLine(j) /\ IdOf(csv[j]) = IdOf(csv[n])
    <2>1. /\ \A r \in 1 .. Len(ids) : \E k \in 1 .. n - 1 : GoodLine(k) /\ ids[r] = IdOf(csv[k])
          /\ \A k \in 1 .. n - 1 : GoodLine(k) => \E r \in 1 .. Len(ids) : ids[r] = IdOf(csv[k])
      BY <1>1 DEF ParseInv, IdsAreGood
    <2>2. Seen(IdOf(csv[n])) <=> \E r \in 1 .. Len(ids) : ids[r] = IdOf(csv[n])
      BY <1>1 DEF Seen
    <2> HIDE DEF GoodLine, IdOf
    <2> QED
      BY <2>1, <2>2, Zenon
  <1> QED
    BY <1>2 DEF Accepted, GoodLine

(* A line that is refused leaves all as it was. *)
LEMMA RefuseKeeps ==
  ASSUME EtlTyped, ParseInv, UNCHANGED <<csv, ids, rows>>, lines_read' = lines_read + 1,
         lines_read < Len(csv), ~Accepted(lines_read + 1),
         ~GoodLine(lines_read + 1) \/ Seen(IdOf(csv[lines_read + 1])),
         arena' \in Buffers, arena'.marks = <<>>, arena'.buf = arena.buf
  PROVE  ParseInv'
  <1>1. PICK n \in Nat : n = lines_read + 1 /\ n - 1 = lines_read /\ n \in 1 .. Len(csv) /\ lines_read \in Nat
    BY EtlFacts DEF EtlTyped
  <1>2. AcceptedTo(n) = AcceptedTo(n - 1) /\ AcceptedTo(n)' = AcceptedTo(n)
    <2>1. csv \in Csvs
      BY DEF EtlTyped
    <2>2. AcceptedTo(n) = AcceptedTo(n - 1) + (IF Accepted(n) THEN 1 ELSE 0) /\ AcceptedTo(n - 1) \in Nat
      <3>1. n - 1 \in 0 .. Len(csv)
        BY <1>1, EtlFacts DEF EtlTyped
      <3> HIDE DEF AcceptedTo, Accepted
      <3> QED
        BY <1>1, <2>1, <3>1, AcceptedGrows
    <2> QED
      BY <1>1, <2>2, LinesStay
  <1>3. (Len(rows) = AcceptedTo(lines_read))'
    BY <1>1, <1>2 DEF ParseInv
  <1>4. ArenaHasRows'
    BY DEF ParseInv, ArenaHasRows
  <1>5. RowsAreLines'
    <2>1. \A k \in 1 .. n : k \in 1 .. n - 1 \/ k = n
      OBVIOUS
    <2>2. \A k \in 1 .. n - 1 : Accepted(k) =>
            /\ AcceptedTo(k) \in 1 .. Len(rows) /\ ids[AcceptedTo(k)] = IdOf(csv[k])
            /\ \A c \in 1 .. Cols : rows[AcceptedTo(k)][c] = csv[k].fields[c]
      BY <1>1 DEF ParseInv, RowsAreLines
    <2>3. ~Accepted(n)
      BY <1>1
    <2>4. \A k \in 1 .. n : Accepted(k) =>
            /\ AcceptedTo(k) \in 1 .. Len(rows) /\ ids[AcceptedTo(k)] = IdOf(csv[k])
            /\ \A c \in 1 .. Cols : rows[AcceptedTo(k)][c] = csv[k].fields[c]
      BY <2>1, <2>2, <2>3
    <2> HIDE DEF AcceptedTo, Accepted, IdOf
    <2> QED
      BY <1>1, <2>4, LinesStay DEF RowsAreLines
  <1>6. IdsAreGood'
    <2>1. \A r \in 1 .. Len(ids) : \E k \in 1 .. n : GoodLine(k) /\ ids[r] = IdOf(csv[k])
      <3>1. \A r \in 1 .. Len(ids) : \E k \in 1 .. n - 1 : GoodLine(k) /\ ids[r] = IdOf(csv[k])
        BY <1>1 DEF ParseInv, IdsAreGood
      <3>2. \A k \in 1 .. n - 1 : k \in 1 .. n
        BY <1>1
      <3> HIDE DEF GoodLine, IdOf
      <3> QED
        BY <3>1, <3>2
    <2>2. \A k \in 1 .. n : GoodLine(k) => \E r \in 1 .. Len(ids) : ids[r] = IdOf(csv[k])
      <3>1. \A k \in 1 .. n - 1 : GoodLine(k) => \E r \in 1 .. Len(ids) : ids[r] = IdOf(csv[k])
        BY <1>1 DEF ParseInv, IdsAreGood
      <3>2. GoodLine(n) => \E r \in 1 .. Len(ids) : ids[r] = IdOf(csv[n])
        <4>1. DOMAIN ids = 1 .. Len(ids)
          BY DEF EtlTyped
        <4> HIDE DEF GoodLine, IdOf
        <4> QED
          BY <1>1, <4>1 DEF Seen
      <3>3. \A k \in 1 .. n : k \in 1 .. n - 1 \/ k = n
        BY <1>1
      <3> HIDE DEF GoodLine, IdOf
      <3> QED
        BY <3>1, <3>2, <3>3
    <2> HIDE DEF GoodLine, IdOf
    <2> QED
      BY <1>1, <2>1, <2>2, LinesStay DEF IdsAreGood
  <1> QED
    BY <1>3, <1>4, <1>5, <1>6 DEF ParseInv

LEMMA AppendIs ==
  ASSUME NEW S, NEW q \in Seq(S), NEW x \in S
  PROVE  /\ Len(Append(q, x)) = Len(q) + 1 /\ Append(q, x)[Len(q) + 1] = x
         /\ \A r \in 1 .. Len(q) : Append(q, x)[r] = q[r]
         /\ Append(q, x) \in Seq(S)
  OBVIOUS

(* An accepted line is a row more, and its words in the arena. *)
LEMMA AcceptKeeps ==
  ASSUME EtlTyped, ParseInv, csv' = csv, NEW n \in 1 .. Len(csv), n = lines_read + 1,
         Accepted(n), lines_read' = n,
         ids' = Append(ids, IdOf(csv[n])), IdOf(csv[n]) \in Word,
         NEW w \in RowValues, rows' = Append(rows, w),
         \A c \in 1 .. Cols : w[c] = csv[n].fields[c],
         arena' \in Buffers, arena'.marks = <<>>,
         Len(arena'.buf) = Len(arena.buf) + Cols,
         \A i \in 1 .. Len(arena.buf) : arena'.buf[i] = arena.buf[i],
         \A c \in 1 .. Cols : arena'.buf[Len(arena.buf) + c] = w[c]
  PROVE  ParseInv'
  <1>1. PICK m \in Nat : m = Len(rows) /\ m = Len(ids) /\ n - 1 = lines_read /\ m = AcceptedTo(n - 1)
    <2>1. lines_read \in Nat /\ n - 1 = lines_read
      BY DEF EtlTyped
    <2>2. Len(rows) \in Nat /\ Len(ids) = Len(rows)
      BY DEF EtlTyped
    <2>3. Len(rows) = AcceptedTo(lines_read)
      BY DEF ParseInv
    <2> QED
      BY <2>1, <2>2, <2>3
  <1>2. PICK v : v = IdOf(csv[n])
    OBVIOUS
  <1>3. /\ Len(rows') = m + 1 /\ rows'[m + 1] = w /\ \A r \in 1 .. m : rows'[r] = rows[r]
        /\ Len(ids') = m + 1 /\ ids'[m + 1] = v /\ \A r \in 1 .. m : ids'[r] = ids[r]
    <2>2. rows \in Seq(RowValues) /\ ids \in Seq(Word) /\ v \in Word
      BY <1>2 DEF EtlTyped
    <2>3. Len(rows') = m + 1 /\ rows'[m + 1] = w /\ \A r \in 1 .. m : rows'[r] = rows[r]
      <3>1. PICK q \in Seq(RowValues) : q = rows /\ Len(q) = m /\ rows' = Append(q, w)
        BY <1>1, <2>2
      <3>2. /\ Len(Append(q, w)) = m + 1 /\ Append(q, w)[m + 1] = w
            /\ \A r \in 1 .. m : Append(q, w)[r] = q[r]
        BY <3>1, AppendIs
      <3> QED
        BY <3>1, <3>2
    <2>4. Len(ids') = m + 1 /\ ids'[m + 1] = v /\ \A r \in 1 .. m : ids'[r] = ids[r]
      <3>1. PICK q \in Seq(Word) : q = ids /\ Len(q) = m /\ ids' = Append(q, v)
        BY <1>1, <1>2, <2>2
      <3>2. /\ Len(Append(q, v)) = m + 1 /\ Append(q, v)[m + 1] = v
            /\ \A r \in 1 .. m : Append(q, v)[r] = q[r]
        BY <2>2, <3>1, AppendIs
      <3> QED
        BY <3>1, <3>2
    <2> QED
      BY <2>3, <2>4
  <1>a. Len(rows') = m + 1 /\ Len(ids') = m + 1
    BY <1>3
  <1>4. AcceptedTo(n) = m + 1 /\ AcceptedTo(n)' = m + 1
    <2>1. csv \in Csvs
      BY DEF EtlTyped
    <2>2. AcceptedTo(n) = AcceptedTo(n - 1) + (IF Accepted(n) THEN 1 ELSE 0)
      <3> HIDE DEF AcceptedTo, Accepted
      <3> QED
        BY <2>1, AcceptedGrows
    <2> QED
      BY <1>1, <2>2, LinesStay
  <1>5. ArenaHasRows'
    <2>1. PICK k \in Nat \ {0} : k = Cols
      BY EtlFacts
    <2>2. Len(arena.buf) = m * k /\ (m + 1) * k = m * k + k /\ m * k \in Nat
      BY <1>1, <2>1, ProductGrows DEF ParseInv, ArenaHasRows
    <2>3. Len(arena'.buf) = Len(rows') * Cols
      BY <1>3, <2>1, <2>2
    <2>4. ASSUME NEW r \in 1 .. m + 1, NEW c \in 1 .. Cols
          PROVE  arena'.buf[(r - 1) * Cols + c] = rows'[r][c]
      <3>1. CASE r = m + 1
        <4>1. (r - 1) * Cols + c = Len(arena.buf) + c
          BY <2>1, <2>2, <3>1
        <4> QED
          BY <1>3, <3>1, <4>1
      <3>2. CASE r # m + 1
        <4>1. r \in 1 .. m
          BY <3>2
        <4>2. (r - 1) * Cols + c \in 1 .. m * Cols
          BY <4>1, RowInside
        <4>3. (r - 1) * Cols + c \in 1 .. Len(arena.buf)
          BY <2>1, <2>2, <4>2
        <4>4. arena.buf[(r - 1) * Cols + c] = rows[r][c]
          BY <1>1, <4>1 DEF ParseInv, ArenaHasRows
        <4> QED
          BY <1>3, <4>1, <4>3, <4>4
      <3> QED
        BY <3>1, <3>2
    <2> QED
      BY <1>3, <2>3, <2>4 DEF ArenaHasRows
  <1>6. RowsAreLines'
    <2>1. \A k \in 1 .. n : k \in 1 .. n - 1 \/ k = n
      OBVIOUS
    <2>2. \A k \in 1 .. n - 1 : Accepted(k) =>
            /\ AcceptedTo(k) \in 1 .. m /\ ids[AcceptedTo(k)] = IdOf(csv[k])
            /\ \A c \in 1 .. Cols : rows[AcceptedTo(k)][c] = csv[k].fields[c]
      BY <1>1 DEF ParseInv, RowsAreLines
    <2>3. \A k \in 1 .. n - 1 : Accepted(k) =>
            /\ AcceptedTo(k) \in 1 .. m + 1 /\ ids'[AcceptedTo(k)] = IdOf(csv[k])
            /\ \A c \in 1 .. Cols : rows'[AcceptedTo(k)][c] = csv[k].fields[c]
      <3>1. \A r \in 1 .. m : r \in 1 .. m + 1
        OBVIOUS
      <3> HIDE DEF AcceptedTo, Accepted, IdOf
      <3> QED
        BY <1>3, <2>2, <3>1
    <2>4. /\ AcceptedTo(n) \in 1 .. m + 1 /\ ids'[AcceptedTo(n)] = IdOf(csv[n])
          /\ \A c \in 1 .. Cols : rows'[AcceptedTo(n)][c] = csv[n].fields[c]
      BY <1>2, <1>3, <1>4
    <2>5. \A k \in 1 .. n : Accepted(k) =>
            /\ AcceptedTo(k) \in 1 .. m + 1 /\ ids'[AcceptedTo(k)] = IdOf(csv[k])
            /\ \A c \in 1 .. Cols : rows'[AcceptedTo(k)][c] = csv[k].fields[c]
      BY <2>1, <2>3, <2>4
    <2> HIDE DEF AcceptedTo, Accepted, IdOf
    <2> QED
      BY <1>a, <2>5, LinesStay DEF RowsAreLines
  <1>7. IdsAreGood'
    <2>a. GoodLine(n)
      BY DEF Accepted
    <2>1. \A r \in 1 .. m + 1 : \E k \in 1 .. n : GoodLine(k) /\ ids'[r] = IdOf(csv[k])
      <3>1. \A r \in 1 .. m : \E k \in 1 .. n - 1 : GoodLine(k) /\ ids[r] = IdOf(csv[k])
        BY <1>1 DEF ParseInv, IdsAreGood
      <3>2. \A k \in 1 .. n - 1 : k \in 1 .. n
        OBVIOUS
      <3>3. n \in 1 .. n /\ \A r \in 1 .. m + 1 : r \in 1 .. m \/ r = m + 1
        OBVIOUS
      <3> HIDE DEF GoodLine, IdOf
      <3> QED
        BY <1>2, <1>3, <2>a, <3>1, <3>2, <3>3
    <2>2. \A k \in 1 .. n : GoodLine(k) => \E r \in 1 .. m + 1 : ids'[r] = IdOf(csv[k])
      <3>1. \A k \in 1 .. n - 1 : GoodLine(k) => \E r \in 1 .. m : ids[r] = IdOf(csv[k])
        BY <1>1 DEF ParseInv, IdsAreGood
      <3>2. \A r \in 1 .. m : r \in 1 .. m + 1
        OBVIOUS
      <3>3. m + 1 \in 1 .. m + 1 /\ \A k \in 1 .. n : k \in 1 .. n - 1 \/ k = n
        OBVIOUS
      <3> HIDE DEF GoodLine, IdOf
      <3> QED
        BY <1>2, <1>3, <3>1, <3>2, <3>3
    <2>3. \A k : (GoodLine(k)' <=> GoodLine(k)) /\ IdOf(csv[k])' = IdOf(csv[k])
      BY LinesStay
    <2>4. lines_read' = n /\ Len(ids)' = m + 1
      BY <1>3
    <2> HIDE DEF GoodLine, IdOf
    <2>5. \A r \in 1 .. Len(ids)' : \E k \in 1 .. lines_read' : GoodLine(k)' /\ ids'[r] = IdOf(csv[k])'
      BY <2>1, <2>3, <2>4
    <2>6. \A k \in 1 .. lines_read' : GoodLine(k)' => \E r \in 1 .. Len(ids)' : ids'[r] = IdOf(csv[k])'
      BY <2>2, <2>3, <2>4
    <2> QED
      BY <2>5, <2>6 DEF IdsAreGood
  <1> QED
    BY <1>3, <1>4, <1>5, <1>6, <1>7 DEF ParseInv

LEMMA ParseLineKeeps ==
  ASSUME EtlTyped, ParseInv, ParseLine
  PROVE  EtlTyped' /\ ParseInv'
  <1>1. PICK n \in Nat : n = lines_read + 1 /\ n \in 1 .. Len(csv) /\ n <= Len(csv)
    BY EtlFacts DEF EtlTyped, ParseLine
  <1>2. PICK l \in FileLine : l = csv[n]
    BY <1>1, EtlFacts DEF EtlTyped
  <1>3. PICK g \in 0 .. Cols : g = GoodFields(l) /\ g \in Nat
    BY GoodFieldsIs, EtlFacts
  <1>4. PICK z : z = Written(arena, l) /\ Holds(z, arena, l, g)
    BY <1>3, WrittenIs DEF ParseInv, ArenaHasRows
  <1>5. arena \in Buffers
    BY DEF ParseInv, ArenaHasRows
  <1>6. /\ UNCHANGED <<csv, e_at, table, row, bad, kept, checked>> /\ lines_read' = n
        /\ e_at = "parse"
    BY <1>1 DEF ParseLine
  <1>7. Accepted(n) <=> g = Cols /\ ~Seen(IdOf(l))
    BY <1>1, <1>2, <1>3, AcceptedIs
  <1>8. g < Cols \/ g = Cols
    BY <1>3, EtlFacts
  <1>9. CASE g < Cols \/ Seen(IdOf(l))
    <2>1. arena' = Refuse(z, MarkOf(arena)) /\ UNCHANGED <<ids, rows>>
      BY <1>1, <1>2, <1>3, <1>4, <1>9 DEF ParseLine
    <2>2. arena' \in Buffers /\ arena'.marks = <<>> /\ arena'.buf = arena.buf
      BY <1>3, <1>4, <1>5, <2>1, RefusedIs
    <2>3. ~GoodLine(lines_read + 1) \/ Seen(IdOf(csv[lines_read + 1]))
      BY <1>1, <1>2, <1>3, <1>9, EtlFacts DEF GoodLine
    <2>4. ~Accepted(lines_read + 1)
      BY <1>1, <1>3, <1>7, <1>9, EtlFacts
    <2>5. ParseInv'
      <3>1. lines_read < Len(csv)
        BY DEF ParseLine
      <3> HIDE DEF Accepted, GoodLine, Seen, IdOf
      <3> QED
        BY <1>1, <1>6, <2>1, <2>2, <2>3, <2>4, <3>1, RefuseKeeps
    <2>6. EtlTyped'
      BY <1>1, <1>6, <2>1, EtlFacts DEF EtlTyped
    <2> QED
      BY <2>5, <2>6
  <1>10. CASE g = Cols /\ ~Seen(IdOf(l))
    <2>a. ~(g < Cols)
      BY <1>10, EtlFacts
    <2>1. /\ arena' = CommitMark(z)
          /\ ids' = Append(ids, IdOf(l))
          /\ rows' = Append(rows, [c \in 1 .. Cols |-> ReadWord(z, MarkOf(arena) + (c - 1) * WordBytes)])
      BY <1>1, <1>2, <1>3, <1>4, <1>10, <2>a DEF ParseLine
    <2>2. arena' \in Buffers /\ arena'.marks = <<>> /\ arena'.buf = z.buf
      BY <1>3, <1>4, <1>5, <2>1, CommittedIs
    <2>3. PICK w : w = [c \in 1 .. Cols |-> ReadWord(z, MarkOf(arena) + (c - 1) * WordBytes)]
      OBVIOUS
    <2>4. \A c \in 1 .. Cols : w[c] = l.fields[c]
      BY <1>3, <1>4, <1>5, <1>10, <2>3, RowRead
    <2>5. \A c \in 1 .. Cols : l.fields[c] \in Word
      BY <1>3, <1>10, GoodFieldsIs
    <2>6. w \in RowValues
      BY <2>3, <2>4, <2>5 DEF RowValues
    <2>7. IdOf(l) \in Word
      BY EtlFacts DEF IdOf, FileLine
    <2>8. Accepted(n)
      BY <1>7, <1>10
    <2>9. /\ Len(arena'.buf) = Len(arena.buf) + Cols
          /\ \A i \in 1 .. Len(arena.buf) : arena'.buf[i] = arena.buf[i]
          /\ \A c \in 1 .. Cols : arena'.buf[Len(arena.buf) + c] = w[c]
      BY <1>4, <1>10, <2>2, <2>4 DEF Holds
    <2>10. /\ csv' = csv /\ lines_read' = n /\ rows' = Append(rows, w) /\ ids' = Append(ids, IdOf(csv[n]))
           /\ IdOf(csv[n]) \in Word /\ \A c \in 1 .. Cols : w[c] = csv[n].fields[c]
      BY <1>2, <1>6, <2>1, <2>3, <2>4, <2>7
    <2>11. ParseInv'
      <3> HIDE DEF Accepted, IdOf
      <3> QED
        BY <1>1, <2>2, <2>6, <2>8, <2>9, <2>10, AcceptKeeps
    <2>12. EtlTyped'
      <3>1. PICK q \in Seq(RowValues), h \in Seq(Word), m \in Nat :
              q = rows /\ h = ids /\ Len(q) = m /\ Len(h) = m /\ m < n /\ row \in 0 .. m
        BY <1>1 DEF EtlTyped
      <3>2. PICK v \in Word : v = IdOf(csv[n])
        BY <2>10
      <3>3. Append(q, w) \in Seq(RowValues) /\ Len(Append(q, w)) = m + 1
        BY <2>6, <3>1, AppendIs
      <3>4. Append(h, v) \in Seq(Word) /\ Len(Append(h, v)) = m + 1
        BY <3>1, <3>2, AppendIs
      <3>5. rows' \in Seq(RowValues) /\ ids' \in Seq(Word) /\ Len(rows') = m + 1 /\ Len(ids') = m + 1
        BY <2>10, <3>1, <3>2, <3>3, <3>4
      <3>6. m + 1 <= n /\ row \in 0 .. m + 1
        BY <3>1
      <3>7. lines_read' \in 0 .. Len(csv)
        BY <1>1, <1>6
      <3> QED
        BY <1>6, <3>5, <3>6, <3>7 DEF EtlTyped
    <2> QED
      BY <2>11, <2>12
  <1> QED
    BY <1>8, <1>9, <1>10

(* A part of a sequence. *)
IsPart(q, S, b, o, k) == q \in Seq(S) /\ Len(q) = k /\ \A c \in 1 .. k : q[c] = b[o + c]

LEMMA PieceIs ==
  ASSUME NEW S, NEW b \in Seq(S), NEW o \in Nat, NEW k \in Nat, o + k <= Len(b)
  PROVE  IsPart(SubSeq(b, o + 1, o + k), S, b, o, k)
  <1>1. PICK q : q = SubSeq(b, o + 1, o + k)
    OBVIOUS
  <1>2. Len(q) = k
    BY <1>1
  <1>3. \A c \in 1 .. k : q[c] = b[o + c]
    BY <1>1
  <1>4. \A c \in 1 .. k : o + c \in 1 .. Len(b)
    OBVIOUS
  <1>5. \A c \in 1 .. k : b[o + c] \in S
    BY <1>4
  <1>6. q \in Seq(S)
    BY <1>1, <1>2, <1>3, <1>5
  <1> QED
    BY <1>1, <1>2, <1>3, <1>6 DEF IsPart

(* The invariant says what the parser promises. *)
LEMMA ParsedIs ==
  ASSUME EtlTyped, ParseInv
  PROVE  ParsedExactly
  <1>1. PICK m \in Nat, k \in Nat \ {0} : m = Len(rows) /\ k = Cols
    BY EtlFacts DEF EtlTyped
  <1>2. arena.marks = <<>> /\ Len(rows) = AcceptedTo(lines_read) /\ Len(ids) = Len(rows)
    BY DEF EtlTyped, ParseInv, ArenaHasRows
  <1>3. Len(arena.buf) = Cols * Len(rows)
    BY <1>1 DEF ParseInv, ArenaHasRows
  <1>4. ASSUME NEW j \in 1 .. lines_read, Accepted(j)
        PROVE  LET r == AcceptedTo(j)
               IN  /\ ids[r] = IdOf(csv[j]) /\ rows[r] = csv[j].fields
                   /\ SubSeq(arena.buf, (r - 1) * Cols + 1, r * Cols) = csv[j].fields
    <2>1. PICK r \in 1 .. m : r = AcceptedTo(j) /\ ids[r] = IdOf(csv[j])
                          /\ \A c \in 1 .. Cols : rows[r][c] = csv[j].fields[c]
      BY <1>1, <1>4 DEF ParseInv, RowsAreLines
    <2>2. PICK S : S = Word \union {-1}
      OBVIOUS
    <2>3. csv[j] \in FileLine /\ GoodFields(csv[j]) = Cols
      <3>1. j \in 1 .. Len(csv)
        BY EtlFacts DEF EtlTyped
      <3> QED
        BY <1>4, <3>1, EtlFacts DEF EtlTyped, Accepted, GoodLine
    <2>4. PICK f \in Seq(S) : f = csv[j].fields /\ Len(f) = Cols
      BY <2>2, <2>3, GoodFieldsIs DEF FileLine
    <2>5. \A c \in 1 .. Cols : f[c] \in Word /\ rows[r][c] = f[c]
      BY <2>1, <2>3, <2>4, GoodFieldsIs
    <2>6. rows[r] = f
      <3>1. rows[r] \in RowValues
        BY <1>1 DEF EtlTyped
      <3>2. PICK q : q = rows[r]
        OBVIOUS
      <3>3. q \in Seq(Word) /\ Len(q) = k
        BY <1>1, <3>1, <3>2 DEF RowValues
      <3>4. \A p \in Seq(Word) : p \in Seq(S)
        <4>1. \A x \in Word : x \in S
          BY <2>2
        <4> HIDE DEF Word
        <4> QED
          BY <4>1
      <3>5. Len(q) = Len(f) /\ \A c \in 1 .. Len(q) : q[c] = f[c]
        BY <1>1, <2>4, <2>5, <3>2, <3>3
      <3>6. q = f
        BY <3>3, <3>4, <3>5, SameSequence
      <3> QED
        BY <3>2, <3>6
    <2>7. SubSeq(arena.buf, (r - 1) * Cols + 1, r * Cols) = f
      <3>1. /\ (r - 1) * Cols \in Nat /\ (r - 1) * Cols + Cols = r * Cols /\ r * Cols <= m * Cols
        <4>1. 1 \in 1 .. Cols
          BY EtlFacts
        <4> QED
          BY <4>1, RowInside
      <3>2. PICK b \in Seq(Word), o \in Nat :
              b = arena.buf /\ o = (r - 1) * Cols /\ o + k <= Len(b) /\ r * Cols = o + k
        BY <1>1, <3>1 DEF ParseInv, ArenaHasRows, Buffers
      <3>3. PICK q : q = SubSeq(b, o + 1, o + k)
        OBVIOUS
      <3>4. q \in Seq(Word) /\ Len(q) = k /\ \A c \in 1 .. k : q[c] = b[o + c]
        <4>1. k \in Nat /\ o + k <= Len(b)
          BY <3>2
        <4>2. IsPart(SubSeq(b, o + 1, o + k), Word, b, o, k)
          BY <3>2, <4>1, PieceIs
        <4> QED
          BY <3>3, <4>2 DEF IsPart
      <3>5. \A c \in 1 .. k : b[o + c] = f[c]
        BY <1>1, <2>5, <3>2 DEF ParseInv, ArenaHasRows
      <3>6. \A p \in Seq(Word) : p \in Seq(S)
        <4>1. \A x \in Word : x \in S
          BY <2>2
        <4> HIDE DEF Word
        <4> QED
          BY <4>1
      <3>7. Len(q) = Len(f) /\ \A c \in 1 .. Len(q) : q[c] = f[c]
        BY <1>1, <2>4, <3>4, <3>5
      <3>8. q = f
        BY <3>4, <3>6, <3>7, SameSequence
      <3> QED
        BY <3>2, <3>3, <3>8
    <2> QED
      BY <2>1, <2>4, <2>6, <2>7
  <1> HIDE DEF AcceptedTo, Accepted, IdOf
  <1> QED
    BY <1>2, <1>3, <1>4 DEF ParsedExactly

-----------------------------------------------------------------------------
(* The pipeline: a row's sweep. *)

LEMMA SweepLeaves ==
  /\ Kernel \in Seq(Inst) /\ Len(Kernel) = Cols
  /\ \A c \in 1 .. Cols : Kernel[c] = Leaf("madd", Cols + c, c)
  /\ AllInvertible(Kernel)
  <1>1. Cols \in Nat \ {0} /\ 0 \in Word
    BY EtlFacts
  <1>2. \A c \in 1 .. Cols : Leaf("madd", Cols + c, c) \in Inst
    BY <1>1 DEF Leaf, Inst, Ops, BinaryOps, MemDstOps
  <1>3. Kernel \in Seq(Inst) /\ Len(Kernel) = Cols /\ DOMAIN Kernel = 1 .. Cols
    BY <1>1, <1>2 DEF Kernel
  <1>4. \A c \in 1 .. Cols : Kernel[c] = Leaf("madd", Cols + c, c)
    BY DEF Kernel
  <1>5. \A c \in 1 .. Cols : Invertible(Leaf("madd", Cols + c, c))
    BY <1>1 DEF Leaf, Invertible, IsIrreversible, IrreversibleOps, OperandAlias
  <1> QED
    BY <1>3, <1>4, <1>5 DEF AllInvertible

EtlShape(n) == Shape(0 .. 2 * Cols, 0 .. n * Cols - 1)

(* The address registers are those of row r. *)
Aimed(s, r) == \A c \in 1 .. Cols : s.regs[Cols + c] = Cell(r, c)

(* The first k columns of row r have their deltas added. *)
Added(s, r, k) ==
  [regs |-> s.regs,
   mem  |-> [m \in DOMAIN s.mem |->
               IF (r - 1) * Cols <= m /\ m < (r - 1) * Cols + k
               THEN WrapAdd(s.mem[m], s.regs[m - (r - 1) * Cols + 1]) ELSE s.mem[m]]]

LEMMA WrapAddWord ==
  ASSUME NEW x \in Word, NEW y \in Word
  PROVE  WrapAdd(x, y) \in Word
  BY EtlFacts DEF WrapAdd, Word

LEMMA AddedTyped ==
  ASSUME NEW n \in Nat, NEW r \in 1 .. n, NEW s \in EtlShape(n), NEW k \in 0 .. Cols
  PROVE  Added(s, r, k) \in EtlShape(n)
  <1>1. PICK w \in Nat \ {0}, o \in Nat : w = Cols /\ o = (r - 1) * Cols
    <2>1. (r - 1) * Cols \in Nat
      BY EtlFacts, ProductGrows
    <2> QED
      BY <2>1, EtlFacts
  <1>2. PICK N : N = 0 .. n * Cols - 1
    OBVIOUS
  <1>3. N \subseteq Int
    BY <1>1, <1>2
  <1>4. s.regs \in [0 .. 2 * w -> Word] /\ s.mem \in [N -> Word] /\ DOMAIN s.mem = N
    BY <1>1, <1>2 DEF EtlShape, Shape
  <1>5. \A m \in N : o <= m /\ m < o + k => m - o + 1 \in 0 .. 2 * w
    BY <1>1, <1>3
  <1>6. \A m \in N : o <= m /\ m < o + k => WrapAdd(s.mem[m], s.regs[m - o + 1]) \in Word
    BY <1>4, <1>5, WrapAddWord
  <1>7. Added(s, r, k) =
          [regs |-> s.regs,
           mem  |-> [m \in N |-> IF o <= m /\ m < o + k
                                 THEN WrapAdd(s.mem[m], s.regs[m - o + 1]) ELSE s.mem[m]]]
    BY <1>1, <1>4 DEF Added
  <1> HIDE DEF Word
  <1> QED
    BY <1>1, <1>2, <1>4, <1>6, <1>7 DEF EtlShape, Shape

LEMMA SweepRuns ==
  ASSUME NEW n \in Nat, NEW r \in 1 .. n, NEW s \in EtlShape(n), Aimed(s, r)
  PROVE  RunForward(s, Kernel) = [s |-> Added(s, r, Cols), done |-> Cols, out |-> "ok"]
  <1>1. PICK w \in Nat \ {0}, o \in Nat : w = Cols /\ o = (r - 1) * Cols
    <2>1. (r - 1) * Cols \in Nat
      BY EtlFacts, ProductGrows
    <2> QED
      BY <2>1, EtlFacts
  <1>2. PICK N, R : N = 0 .. n * Cols - 1 /\ R = 0 .. 2 * Cols
    OBVIOUS
  <1>3. s.regs \in [R -> Word] /\ s.mem \in [N -> Word] /\ DOMAIN s.mem = N
    BY <1>2 DEF EtlShape, Shape
  <1> DEFINE c == [k \in 0 .. Cols |-> Added(s, r, k)]
  <1>4. c \in [0 .. Cols -> Shape(R, N)]
    BY <1>2, AddedTyped DEF EtlShape
  <1>5. c[0] = s
    <2>1. \A m \in N : ~(o <= m /\ m < o + 0)
      BY <1>1, <1>2
    <2>2. Added(s, r, 0) = [regs |-> s.regs, mem |-> [m \in N |-> s.mem[m]]]
      BY <1>1, <1>3, <2>1 DEF Added
    <2>3. [m \in N |-> s.mem[m]] = s.mem /\ s = [regs |-> s.regs, mem |-> s.mem]
      BY <1>2, <1>3 DEF EtlShape, Shape
    <2> QED
      BY <1>1, <2>2, <2>3
  <1>6. ASSUME NEW k \in 1 .. Cols
        PROVE  CanRun(c[k - 1], Kernel[k]) /\ c[k] = Exec(c[k - 1], Kernel[k])
    <2>1. PICK i : i = Kernel[k] /\ i = [op |-> "madd", a |-> Cols + k, b |-> k, c |-> 0, k |-> 0]
      BY SweepLeaves DEF Leaf
    <2>2. PICK x, y : x = Added(s, r, k - 1) /\ y = Added(s, r, k) /\ c[k - 1] = x /\ c[k] = y
      <3>1. k - 1 \in 0 .. Cols /\ k \in 0 .. Cols
        BY <1>1
      <3> QED
        BY <3>1
    <2>3. Cols + k \in R /\ k \in R
      BY <1>1, <1>2
    <2>4. x.regs = s.regs /\ x.regs[Cols + k] = o + k - 1 /\ o + k - 1 \in N
      <3>1. Cell(r, k) \in 0 .. n * Cols - 1 /\ Cell(r, k) = o + k - 1
        BY <1>1, RowInside DEF Cell
      <3> QED
        BY <1>2, <2>2, <3>1 DEF Added, Aimed
    <2>5. RegOperands(i) = {Cols + k, k} /\ MemOperands(x, i) = {o + k - 1}
      BY <2>1, <2>4 DEF RegOperands, MemOperands, UnaryOps, BinaryOps, TernaryOps, MemDstOps, MemSrcOps
    <2>6. DOMAIN x.regs = R /\ DOMAIN x.mem = N
      BY <1>3, <2>2 DEF Added
    <2>7. CanRun(x, i)
      BY <2>3, <2>4, <2>5, <2>6 DEF CanRun
    <2>8. Exec(x, i) = SetMem(x, o + k - 1, WrapAdd(x.mem[o + k - 1], x.regs[k]))
      BY <2>1, <2>4 DEF Exec, Combine, UnaryOps, MemDstOps, MemSrcOps
    <2>9. x.mem = [m \in N |-> IF o <= m /\ m < o + (k - 1)
                               THEN WrapAdd(s.mem[m], s.regs[m - o + 1]) ELSE s.mem[m]]
      BY <1>1, <1>3, <2>2 DEF Added
    <2>10. y.mem = [m \in N |-> IF o <= m /\ m < o + k
                                THEN WrapAdd(s.mem[m], s.regs[m - o + 1]) ELSE s.mem[m]]
      BY <1>1, <1>3, <2>2 DEF Added
    <2>11. x.mem[o + k - 1] = s.mem[o + k - 1]
      BY <1>1, <2>4, <2>9
    <2>12. PICK v : v = WrapAdd(s.mem[o + k - 1], s.regs[k])
      OBVIOUS
    <2>13. y.mem = [x.mem EXCEPT ![o + k - 1] = v]
      <3>1. \A m \in N : m = o + k - 1 => o <= m /\ m < o + k /\ m - o + 1 = k
        BY <1>1
      <3>2. \A m \in N : m # o + k - 1 => (m < o + k <=> m < o + (k - 1))
        BY <1>1, <1>2
      <3> QED
        BY <2>9, <2>10, <2>12, <3>1, <3>2
    <2>14. SetMem(x, o + k - 1, v) = y
      <3>1. x = [regs |-> s.regs, mem |-> x.mem] /\ y = [regs |-> s.regs, mem |-> y.mem]
        BY <2>2 DEF Added
      <3> QED
        BY <2>13, <3>1 DEF SetMem
    <2> QED
      BY <2>1, <2>2, <2>4, <2>7, <2>8, <2>11, <2>12, <2>14
  <1>7. StatesOf(c, Kernel, Cols)
    BY <1>6 DEF StatesOf
  <1>8. c[Cols] = Added(s, r, Cols)
    BY <1>1
  <1> HIDE DEF c
  <1>9. RunForward(c[0], Kernel) = [s |-> c[Cols], done |-> Cols, out |-> "ok"]
    BY <1>1, <1>4, <1>7, SweepLeaves, RunFollows
  <1> QED
    BY <1>5, <1>8, <1>9

(* The words of different rows are apart. *)
LEMMA RowsApart ==
  ASSUME NEW n \in Nat, NEW q \in 1 .. n, NEW r \in 1 .. n, NEW c \in 1 .. Cols
  PROVE  /\ Cell(q, c) \in 0 .. n * Cols - 1
         /\ (r - 1) * Cols <= Cell(q, c) /\ Cell(q, c) < (r - 1) * Cols + Cols <=> q = r
         /\ Cell(r, c) - (r - 1) * Cols + 1 = c
  <1>1. PICK w \in Nat \ {0} : w = Cols
    BY EtlFacts
  <1>2. PICK x \in Nat, y \in Nat : x = q - 1 /\ y = r - 1
    OBVIOUS
  <1>3. /\ x * w \in Nat /\ (x + 1) * w = x * w + w
        /\ y * w \in Nat /\ (y + 1) * w = y * w + w
        /\ x + 1 <= y => (x + 1) * w <= y * w
        /\ y + 1 <= x => (y + 1) * w <= x * w
    <2>1. x + 1 \in Nat /\ y + 1 \in Nat /\ w \in Nat
      OBVIOUS
    <2> QED
      BY <2>1, ProductGrows
  <1>4. PICK a \in Nat, b \in Nat : a = x * w /\ b = y * w /\ a = (q - 1) * Cols /\ b = (r - 1) * Cols
    BY <1>1, <1>2, <1>3
  <1>5. (x < y => a + w <= b) /\ (y < x => b + w <= a) /\ (x = y => a = b)
    BY <1>3, <1>4
  <1>6. Cell(q, c) = a + c - 1 /\ Cell(r, c) = b + c - 1
    BY <1>4 DEF Cell
  <1>7. c \in 1 .. w /\ (q = r <=> x = y)
    BY <1>1, <1>2
  <1>8. b <= a + c - 1 /\ a + c - 1 < b + w <=> x = y
    BY <1>5, <1>7
  <1>9. Cell(q, c) \in 0 .. n * Cols - 1
    BY RowInside
  <1> QED
    BY <1>1, <1>4, <1>6, <1>7, <1>8, <1>9

(* What adding does to each cell. *)
LEMMA AddedCells ==
  ASSUME NEW n \in Nat, NEW r \in 1 .. n, NEW s \in EtlShape(n),
         NEW q \in 1 .. n, NEW c \in 1 .. Cols
  PROVE  Added(s, r, Cols).mem[Cell(q, c)] =
           IF q = r THEN WrapAdd(s.mem[Cell(r, c)], s.regs[c]) ELSE s.mem[Cell(q, c)]
  <1>1. DOMAIN s.mem = 0 .. n * Cols - 1
    BY DEF EtlShape, Shape
  <1>2. PICK m : m = Cell(q, c) /\ m \in DOMAIN s.mem
    BY <1>1, RowsApart
  <1>3. /\ (r - 1) * Cols <= m /\ m < (r - 1) * Cols + Cols <=> q = r
        /\ Cell(r, c) - (r - 1) * Cols + 1 = c
    BY <1>2, RowsApart
  <1>4. Added(s, r, Cols).mem[m] =
          IF (r - 1) * Cols <= m /\ m < (r - 1) * Cols + Cols
          THEN WrapAdd(s.mem[m], s.regs[m - (r - 1) * Cols + 1]) ELSE s.mem[m]
    BY <1>2 DEF Added
  <1> QED
    BY <1>2, <1>3, <1>4

(* Aiming at a row and setting deltas touches registers only. *)
LEMMA AimIs ==
  ASSUME NEW n \in Nat, n * Cols <= Modulus, NEW r \in 1 .. n, NEW s \in EtlShape(n)
  PROVE  /\ Aim(s, r) \in EtlShape(n) /\ Aimed(Aim(s, r), r) /\ Aim(s, r).mem = s.mem
         /\ \A c \in 1 .. Cols : Aim(s, r).regs[c] = s.regs[c]
  <1>1. PICK w \in Nat \ {0} : w = Cols
    BY EtlFacts
  <1>2. PICK g, m, N : s = [regs |-> g, mem |-> m] /\ g \in [0 .. 2 * w -> Word] /\ N = 0 .. n * Cols - 1
                   /\ m \in [N -> Word]
    BY <1>1 DEF EtlShape, Shape
  <1>3. PICK h : h = [q \in 0 .. 2 * w |-> IF q > w THEN Cell(r, q - w) ELSE g[q]]
    OBVIOUS
  <1>4. \A q \in 0 .. 2 * w : q > w => Cell(r, q - w) \in Word
    <2> SUFFICES ASSUME NEW q \in 0 .. 2 * w, q > w PROVE Cell(r, q - w) \in Word
      OBVIOUS
    <2>1. q - w \in 1 .. Cols
      BY <1>1
    <2>2. Cell(r, q - w) \in 0 .. n * Cols - 1
      BY <2>1, RowInside
    <2>3. n * Cols \in Nat /\ Modulus \in Nat
      BY EtlFacts, ProductGrows
    <2> QED
      BY <2>2, <2>3 DEF Word
  <1>5. h \in [0 .. 2 * w -> Word]
    BY <1>2, <1>3, <1>4
  <1>6. Aim(s, r) = [regs |-> h, mem |-> m]
    <2>1. Aim(s, r) = [s EXCEPT !.regs = [q \in DOMAIN s.regs |->
                                            IF q > Cols THEN Cell(r, q - Cols) ELSE s.regs[q]]]
      BY DEF Aim
    <2>2. s.regs = g /\ DOMAIN g = 0 .. 2 * w
      BY <1>2
    <2>3. [q \in DOMAIN s.regs |-> IF q > Cols THEN Cell(r, q - Cols) ELSE s.regs[q]] = h
      BY <1>1, <1>3, <2>2
    <2>4. [s EXCEPT !.regs = h] = [regs |-> h, mem |-> m]
      BY <1>2
    <2> QED
      BY <2>1, <2>3, <2>4
  <1>7. \A c \in 1 .. w : h[w + c] = Cell(r, c) /\ h[c] = g[c]
    <2> TAKE c \in 1 .. w
    <2>1. w + c \in 0 .. 2 * w /\ w + c > w /\ w + c - w = c /\ c \in 0 .. 2 * w /\ ~(c > w)
      OBVIOUS
    <2> QED
      BY <1>3, <2>1
  <1> QED
    BY <1>1, <1>2, <1>5, <1>6, <1>7 DEF EtlShape, Shape, Aimed

LEMMA SetDeltasIs ==
  ASSUME NEW n \in Nat, NEW r, NEW s \in EtlShape(n), Aimed(s, r), NEW d \in [1 .. Cols -> Int]
  PROVE  /\ SetDeltas(s, d) \in EtlShape(n) /\ Aimed(SetDeltas(s, d), r)
         /\ SetDeltas(s, d).mem = s.mem
         /\ \A c \in 1 .. Cols : SetDeltas(s, d).regs[c] = d[c] % Modulus
  <1>1. PICK w \in Nat \ {0} : w = Cols
    BY EtlFacts
  <1>2. PICK g, m, N : s = [regs |-> g, mem |-> m] /\ g \in [0 .. 2 * w -> Word] /\ N = 0 .. n * Cols - 1
                   /\ m \in [N -> Word]
    BY <1>1 DEF EtlShape, Shape
  <1>3. PICK h : h = [q \in 0 .. 2 * w |-> IF q \in 1 .. w THEN d[q] % Modulus ELSE g[q]]
    OBVIOUS
  <1>4. \A q \in 1 .. w : d[q] % Modulus \in Word
    BY <1>1, EtlFacts DEF Word
  <1>5. h \in [0 .. 2 * w -> Word]
    BY <1>2, <1>3, <1>4
  <1>6. SetDeltas(s, d) = [regs |-> h, mem |-> m]
    <2>1. SetDeltas(s, d) = [s EXCEPT !.regs = [q \in DOMAIN s.regs |->
                                IF q \in 1 .. Cols THEN d[q] % Modulus ELSE s.regs[q]]]
      BY DEF SetDeltas
    <2>2. s.regs = g /\ DOMAIN g = 0 .. 2 * w
      BY <1>2
    <2>3. [q \in DOMAIN s.regs |-> IF q \in 1 .. Cols THEN d[q] % Modulus ELSE s.regs[q]] = h
      BY <1>1, <1>3, <2>2
    <2>4. [s EXCEPT !.regs = h] = [regs |-> h, mem |-> m]
      BY <1>2
    <2> QED
      BY <2>1, <2>3, <2>4
  <1>7. \A c \in 1 .. w : h[w + c] = g[w + c] /\ h[c] = d[c] % Modulus
    <2> TAKE c \in 1 .. w
    <2>1. w + c \in 0 .. 2 * w /\ w + c \notin 1 .. w /\ c \in 0 .. 2 * w
      OBVIOUS
    <2> QED
      BY <1>3, <2>1
  <1> QED
    BY <1>1, <1>2, <1>5, <1>6, <1>7 DEF EtlShape, Shape, Aimed
(* Modular sums. *)
LEMMA WrapDelta ==
  ASSUME NEW x \in Int, NEW d \in Int
  PROVE  WrapAdd(x, d % Modulus) = (x + d) % Modulus
  <1>1. PICK m \in Nat \ {0} : m = Modulus
    BY EtlFacts
  <1>2. PICK p \in Int, e \in 0 .. m - 1 : p = d \div m /\ e = d % m /\ d = p * m + e
    BY DivModSplit
  <1>3. PICK u \in Int : u = x + e
    OBVIOUS
  <1>4. PICK v \in Int, g \in 0 .. m - 1 : v = u \div m /\ g = u % m /\ u = v * m + g
    BY DivModSplit
  <1>5. PICK k \in Int : k = v + p /\ k * m = v * m + p * m
    OBVIOUS
  <1>a. v * m \in Int /\ p * m \in Int
    OBVIOUS
  <1>b. PICK a \in Int : a = v * m
    BY <1>a
  <1>c. PICK b \in Int : b = p * m
    BY <1>a
  <1>6. k * m = a + b /\ u = a + g /\ d = b + e
    BY <1>2, <1>4, <1>5, <1>b, <1>c
  <1>7. x + d = k * m + g
    BY <1>3, <1>6
  <1>8. (k * m + g) % m = g
    BY DivModUnique
  <1> QED
    BY <1>1, <1>2, <1>3, <1>4, <1>7, <1>8 DEF WrapAdd

(* The words of the cells of row r in s are those of f. *)
RowOf(s, r, f) == \A c \in 1 .. Cols : s.mem[Cell(r, c)] = f[c]
Laden(s, d)    == \A c \in 1 .. Cols : s.regs[c] = d[c] % Modulus
OthersSame(n, z, s, r) ==
  \A q \in 1 .. n : \A c \in 1 .. Cols : q # r => z.mem[Cell(q, c)] = s.mem[Cell(q, c)]
PlusDelta(f, d) == [c \in 1 .. Cols |-> (f[c] + d[c]) % Modulus]

(* Applying deltas to a row: it has them on it, the others are as they were. *)
Sweeps(n, how, s, r, f, d) ==
  /\ how.out = "ok" /\ how.s \in EtlShape(n)
  /\ Laden(how.s, d) /\ RowOf(how.s, r, f) /\ OthersSame(n, how.s, s, r)

LEMMA SweepForward ==
  ASSUME NEW n \in Nat, n * Cols <= Modulus, NEW r \in 1 .. n, NEW s \in EtlShape(n),
         NEW d \in [1 .. Cols -> Int], NEW f \in RowValues, RowOf(s, r, f)
  PROVE  Sweeps(n, RunForward(SetDeltas(Aim(s, r), d), Kernel), s, r, PlusDelta(f, d), d)
  <1>1. PICK a \in EtlShape(n) : a = Aim(s, r) /\ Aimed(a, r) /\ a.mem = s.mem
    BY AimIs
  <1>2. PICK t \in EtlShape(n) : /\ t = SetDeltas(a, d) /\ Aimed(t, r) /\ t.mem = s.mem
                                 /\ \A c \in 1 .. Cols : t.regs[c] = d[c] % Modulus
    <2>1. /\ SetDeltas(a, d) \in EtlShape(n) /\ Aimed(SetDeltas(a, d), r)
          /\ SetDeltas(a, d).mem = a.mem
          /\ \A c \in 1 .. Cols : SetDeltas(a, d).regs[c] = d[c] % Modulus
      BY <1>1, SetDeltasIs
    <2> QED
      BY <1>1, <2>1
  <1>3. PICK z : z = Added(t, r, Cols)
    OBVIOUS
  <1>4. RunForward(t, Kernel) = [s |-> z, done |-> Cols, out |-> "ok"]
    BY <1>2, <1>3, SweepRuns
  <1>5. z \in EtlShape(n) /\ z.regs = t.regs
    <2>1. Cols \in 0 .. Cols
      BY EtlFacts
    <2> QED
      BY <1>3, <2>1, AddedTyped DEF Added
  <1>6. RowOf(z, r, PlusDelta(f, d))
    <2> SUFFICES ASSUME NEW c \in 1 .. Cols
                 PROVE  z.mem[Cell(r, c)] = (f[c] + d[c]) % Modulus
      BY DEF RowOf, PlusDelta
    <2>1. z.mem[Cell(r, c)] = WrapAdd(f[c], d[c] % Modulus)
      BY <1>2, <1>3, AddedCells DEF RowOf
    <2>2. f[c] \in Int /\ d[c] \in Int
      BY DEF RowValues, Word
    <2> QED
      BY <2>1, <2>2, WrapDelta
  <1>7. OthersSame(n, z, s, r)
    BY <1>2, <1>3, AddedCells DEF OthersSame
  <1>8. Laden(z, d)
    BY <1>2, <1>5 DEF Laden
  <1> QED
    BY <1>1, <1>2, <1>4, <1>5, <1>6, <1>7, <1>8 DEF Sweeps

(* Taking them back. *)
LEMMA SweepBack ==
  ASSUME NEW n \in Nat, n * Cols <= Modulus, NEW r \in 1 .. n, NEW s \in EtlShape(n),
         NEW d \in [1 .. Cols -> Int], NEW f \in RowValues, RowOf(s, r, PlusDelta(f, d)), Laden(s, d)
  PROVE  Sweeps(n, ReverseAll(Aim(s, r), Kernel), s, r, f, d)
  <1>1. PICK a \in EtlShape(n) : /\ a = Aim(s, r) /\ Aimed(a, r) /\ a.mem = s.mem
                                 /\ \A c \in 1 .. Cols : a.regs[c] = s.regs[c]
    BY AimIs
  <1>a. PICK w \in Nat \ {0}, o \in Nat : w = Cols /\ o = (r - 1) * Cols
    <2>1. (r - 1) * Cols \in Nat
      BY EtlFacts, ProductGrows
    <2> QED
      BY <2>1, EtlFacts
  <1>b. PICK N : N = 0 .. n * Cols - 1
    OBVIOUS
  <1>2. w = Cols /\ N = 0 .. n * Cols - 1 /\ o = (r - 1) * Cols
    BY <1>a, <1>b
  <1>3. a = [regs |-> a.regs, mem |-> a.mem] /\ a.regs \in [0 .. 2 * Cols -> Word] /\ a.mem \in [N -> Word]
    BY <1>2 DEF EtlShape, Shape
  <1>4. PICK m : m = [x \in N |-> IF o <= x /\ x < o + w THEN f[x - o + 1] ELSE a.mem[x]]
    OBVIOUS
  <1>5. m \in [N -> Word]
    <2>1. \A x \in N : o <= x /\ x < o + w => x - o + 1 \in 1 .. Cols
      BY <1>2
    <2> HIDE DEF Word
    <2> QED
      BY <1>3, <1>4, <2>1 DEF RowValues
  <1>6. PICK t \in EtlShape(n) : t = [regs |-> a.regs, mem |-> m]
    BY <1>2, <1>3, <1>5 DEF EtlShape, Shape
  <1>7. Aimed(t, r)
    BY <1>1, <1>6 DEF Aimed
  <1>8. Added(t, r, Cols) = a
    <2>1. Added(t, r, Cols).mem = [x \in N |-> IF o <= x /\ x < o + w
                                   THEN WrapAdd(m[x], a.regs[x - o + 1]) ELSE m[x]]
      BY <1>2, <1>5, <1>6 DEF Added
    <2>2. ASSUME NEW x \in N, o <= x, x < o + w
          PROVE  WrapAdd(m[x], a.regs[x - o + 1]) = a.mem[x]
      <3>1. PICK c \in 1 .. Cols : c = x - o + 1 /\ x = Cell(r, c)
        <4>1. x - o + 1 \in 1 .. Cols /\ x = o + (x - o + 1) - 1
          BY <1>2, <2>2
        <4> QED
          BY <1>2, <4>1 DEF Cell
      <3>2. m[x] = f[c] /\ a.regs[c] = d[c] % Modulus
        BY <1>1, <1>4, <2>2, <3>1 DEF Laden
      <3>3. a.mem[x] = (f[c] + d[c]) % Modulus
        BY <1>1, <3>1 DEF RowOf, PlusDelta
      <3>4. f[c] \in Int /\ d[c] \in Int
        BY DEF RowValues, Word
      <3> QED
        BY <3>1, <3>2, <3>3, <3>4, WrapDelta
    <2>3. \A x \in N : ~(o <= x /\ x < o + w) => m[x] = a.mem[x]
      BY <1>4
    <2>4. Added(t, r, Cols).mem = a.mem
      BY <1>3, <2>1, <2>2, <2>3
    <2>5. Added(t, r, Cols) = [regs |-> a.regs, mem |-> Added(t, r, Cols).mem]
      BY <1>6 DEF Added
    <2> QED
      BY <1>3, <2>4, <2>5
  <1>9. RunForward(t, Kernel) = [s |-> a, done |-> Cols, out |-> "ok"]
    BY <1>7, <1>8, SweepRuns
  <1>10. ReverseAll(a, Kernel).out = "ok" /\ ReverseAll(a, Kernel).s = t
    <2>1. RunForward(t, Kernel).out = "ok" /\ RunForward(t, Kernel).s = a
      BY <1>9
    <2>2. t \in Shape(0 .. 2 * Cols, 0 .. n * Cols - 1)
      BY DEF EtlShape
    <2> QED
      BY <2>1, <2>2, SweepLeaves, ReverseUndoesRun
  <1>11. RowOf(t, r, f)
    <2> SUFFICES ASSUME NEW c \in 1 .. Cols PROVE m[Cell(r, c)] = f[c]
      BY <1>6 DEF RowOf
    <2>1. /\ Cell(r, c) \in N /\ Cell(r, c) - o + 1 = c
          /\ o <= Cell(r, c) /\ Cell(r, c) < o + w
      BY <1>2, RowsApart
    <2> QED
      BY <1>4, <2>1
  <1>12. OthersSame(n, t, s, r)
    <2> SUFFICES ASSUME NEW q \in 1 .. n, NEW c \in 1 .. Cols, q # r
                 PROVE  m[Cell(q, c)] = s.mem[Cell(q, c)]
      BY <1>6 DEF OthersSame
    <2>1. Cell(q, c) \in N /\ ~(o <= Cell(q, c) /\ Cell(q, c) < o + w)
      BY <1>2, RowsApart
    <2> QED
      BY <1>1, <1>4, <2>1
  <1>13. Laden(t, d)
    BY <1>1, <1>6 DEF Laden
  <1> QED
    BY <1>1, <1>10, <1>11, <1>12, <1>13 DEF Sweeps

-----------------------------------------------------------------------------
(* The pipeline: the sweeps over the table. *)

Sweeping == {"base", "applyA", "applyB", "again", "undoA", "undoB"}

(* Row r of table s has the deltas d on its values. *)
Carries(s, r, d) == RowOf(s, r, PlusDelta(rows[r], d))

(* What a row carries, by phase. *)
Carried(e, k, n, r) ==
  CASE e = "applyA" -> IF r <= k THEN DeltaA ELSE NoDeltas
    [] e = "applyB" -> IF r <= k THEN DeltaB ELSE NoDeltas
    [] e = "again"  -> IF r <= k THEN DeltaA ELSE NoDeltas
    [] e = "undoA"  -> IF r <= n - k THEN DeltaA ELSE NoDeltas
    [] e = "undoB"  -> IF r <= n - k THEN DeltaB ELSE NoDeltas
    [] OTHER        -> NoDeltas

TableFits == e_at \in Sweeping \union {"filter", "done"} => table \in EtlShape(Len(rows))
RowsCarry ==
  e_at \in Sweeping =>
    \A r \in 1 .. Len(rows) : Carries(table, r, Carried(e_at, row, Len(rows), r))
(* The deltas in the registers are those to take back. *)
StillLaden ==
  /\ (e_at = "applyA" /\ row > 0) \/ (e_at = "undoA" /\ Len(rows) > 0) => Laden(table, DeltaA)
  /\ (e_at = "applyB" /\ row > 0) \/ (e_at = "undoB" /\ Len(rows) > 0) => Laden(table, DeltaB)
TableInv == TableFits /\ RowsCarry /\ StillLaden

LEMMA DeltasTyped ==
  DeltaA \in [1 .. Cols -> Int] /\ DeltaB \in [1 .. Cols -> Int] /\ NoDeltas \in [1 .. Cols -> Int]
  BY EtlAssumption DEF NoDeltas

LEMMA PlusNothing ==
  ASSUME NEW f \in RowValues
  PROVE  PlusDelta(f, NoDeltas) = f
  <1>1. \A c \in 1 .. Cols : (f[c] + NoDeltas[c]) % Modulus = f[c]
    <2> TAKE c \in 1 .. Cols
    <2>1. PICK m \in Nat \ {0} : m = Modulus
      BY EtlFacts
    <2>2. PICK x \in 0 .. m - 1 : x = f[c]
      BY <2>1 DEF RowValues, Word
    <2>3. NoDeltas[c] = 0
      BY DEF NoDeltas
    <2>4. (0 * m + x) % m = x /\ 0 * m + x = x
      BY DivModUnique
    <2> QED
      BY <2>1, <2>2, <2>3, <2>4
  <1> HIDE DEF NoDeltas
  <1> QED
    BY <1>1 DEF PlusDelta, RowValues

LEMMA OthersKept ==
  ASSUME NEW n \in Nat, NEW z, NEW s, NEW r \in 1 .. n, OthersSame(n, z, s, r),
         NEW q \in 1 .. n, q # r, NEW f, RowOf(s, q, f)
  PROVE  RowOf(z, q, f)
  BY DEF OthersSame, RowOf

(* The number of rows, and that all their cells have addresses. *)
LEMMA TableSize ==
  ASSUME EtlTyped
  PROVE  /\ Len(rows) \in Nat /\ Len(rows) * Cols <= Modulus
         /\ \A r \in 1 .. Len(rows) : rows[r] \in RowValues
         /\ DOMAIN rows = 1 .. Len(rows)
  <1>1. PICK m \in Nat, n \in Nat : m = Len(rows) /\ n = Len(csv) /\ m <= n /\ n * Cols <= Modulus
    BY EtlFacts DEF EtlTyped
  <1>2. m * Cols <= n * Cols /\ m * Cols \in Nat /\ n * Cols \in Nat
    BY <1>1, EtlFacts, ProductGrows
  <1>3. m * Cols <= Modulus
    BY <1>1, <1>2, EtlFacts
  <1>4. \A r \in 1 .. Len(rows) : rows[r] \in RowValues
    BY DEF EtlTyped
  <1> QED
    BY <1>1, <1>3, <1>4 DEF EtlTyped

LEMMA MakeTableKeeps ==
  ASSUME EtlTyped, MakeTable
  PROVE  EtlTyped' /\ TableInv'
  <1>1. PICK n \in Nat, w \in Nat \ {0} : n = Len(rows) /\ w = Cols
    BY TableSize, EtlFacts
  <1>2. UNCHANGED <<csv, lines_read, arena, ids, rows, row, bad, kept, checked>> /\ e_at' = "base"
    BY DEF MakeTable
  <1>3. PICK N : N = 0 .. n * Cols - 1
    OBVIOUS
  <1>4. PICK g, m : /\ table' = [regs |-> g, mem |-> m]
                    /\ g = [q \in 0 .. 2 * Cols |-> 0]
                    /\ m = [x \in N |-> rows[(x \div Cols) + 1][(x % Cols) + 1]]
    BY <1>1, <1>3 DEF MakeTable
  <1>5. \A x \in N : x \div Cols \in 0 .. n - 1 /\ x % Cols \in 0 .. Cols - 1
    <2> TAKE x \in N
    <2>1. PICK a, b : a = x \div w /\ b = x % w
      OBVIOUS
    <2>2. x \in Int /\ 0 <= x /\ x < n * w /\ n * w \in Nat
      BY <1>1, <1>3
    <2>3. a \in Int /\ b \in 0 .. w - 1 /\ x = a * w + b
      BY <2>1, <2>2, DivModSplit
    <2>4. a < n
      <3> SUFFICES ASSUME a >= n PROVE FALSE
        BY <2>3
      <3>1. a \in Nat /\ w \in Nat
        BY <2>3
      <3>2. n * w <= a * w /\ a * w \in Nat
        BY <3>1, ProductGrows
      <3> QED
        BY <2>2, <2>3, <3>2
    <2>5. a >= 0
      <3> SUFFICES ASSUME a < 0 PROVE FALSE
        BY <2>3
      <3>1. PICK k \in Nat : k = -a - 1
        BY <2>3
      <3>2. a * w = -(k * w) - w /\ k * w \in Nat
        BY <2>3, <3>1
      <3> QED
        BY <2>2, <2>3, <3>2
    <2> QED
      BY <1>1, <2>1, <2>3, <2>4, <2>5
  <1>6. \A x \in N : m[x] \in Word
    <2> TAKE x \in N
    <2>1. PICK r \in 1 .. n, c \in 1 .. Cols : r = (x \div Cols) + 1 /\ c = (x % Cols) + 1
      BY <1>1, <1>5
    <2>2. rows[r] \in RowValues
      BY <1>1, TableSize
    <2> QED
      BY <1>4, <2>1, <2>2 DEF RowValues
  <1>7. table' \in EtlShape(n)
    <2>1. m \in [N -> Word]
      BY <1>4, <1>6
    <2>2. g \in [0 .. 2 * Cols -> Word]
      BY <1>4, EtlFacts
    <2> QED
      BY <1>3, <1>4, <2>1, <2>2 DEF EtlShape, Shape
  <1>8. ASSUME NEW r \in 1 .. n
        PROVE  RowOf(table', r, rows[r])
    <2> SUFFICES ASSUME NEW c \in 1 .. Cols PROVE m[Cell(r, c)] = rows[r][c]
      BY <1>4 DEF RowOf
    <2>1. Cell(r, c) \in N
      BY <1>3, RowInside
    <2>2. Cell(r, c) \div Cols = r - 1 /\ Cell(r, c) % Cols = c - 1
      <3>1. PICK q \in Int, e \in 0 .. w - 1 : q = r - 1 /\ e = c - 1
        BY <1>1
      <3>2. (q * w + e) % w = e /\ (q * w + e) \div w = q
        BY DivModUnique
      <3>3. Cell(r, c) = q * w + e
        BY <1>1, <3>1 DEF Cell
      <3> QED
        BY <1>1, <3>1, <3>2, <3>3
    <2>3. m[Cell(r, c)] = rows[(r - 1) + 1][(c - 1) + 1]
      BY <1>4, <2>1, <2>2
    <2> QED
      BY <1>1, <2>3
  <1>9. RowsCarry'
    <2>1. \A r \in 1 .. n : RowOf(table', r, PlusDelta(rows[r], NoDeltas))
      BY <1>1, <1>8, TableSize, PlusNothing
    <2>2. \A r : Carried("base", row, n, r) = NoDeltas
      BY DEF Carried
    <2> QED
      BY <1>1, <1>2, <2>1, <2>2 DEF RowsCarry, Carries
  <1>10. EtlTyped'
    BY <1>2 DEF EtlTyped, Phases
  <1> QED
    BY <1>1, <1>2, <1>7, <1>9, <1>10 DEF TableInv, TableFits, StillLaden

(* One row further, the deltas go on the next row or come off the last. *)
LEMMA CarriedMoves ==
  ASSUME NEW n \in Nat, NEW k \in 0 .. n - 1, NEW q \in 1 .. n
  PROVE  /\ \A e \in {"applyA", "applyB", "again"} :
              /\ Carried(e, k, n, k + 1) = NoDeltas
              /\ Carried(e, k + 1, n, k + 1) = Deltas[e]
              /\ q # k + 1 => Carried(e, k + 1, n, q) = Carried(e, k, n, q)
         /\ \A e \in {"undoA", "undoB"} :
              /\ Carried(e, k, n, n - k) = IF e = "undoA" THEN DeltaA ELSE DeltaB
              /\ Carried(e, k + 1, n, n - k) = NoDeltas
              /\ q # n - k => Carried(e, k + 1, n, q) = Carried(e, k, n, q)
  <1>1. ~(k + 1 <= k) /\ k + 1 <= k + 1 /\ (q # k + 1 => (q <= k + 1 <=> q <= k))
    OBVIOUS
  <1>2. n - k <= n - k /\ ~(n - k <= n - (k + 1)) /\ (q # n - k => (q <= n - (k + 1) <=> q <= n - k))
    OBVIOUS
  <1>3. Deltas["applyA"] = DeltaA /\ Deltas["applyB"] = DeltaB /\ Deltas["again"] = DeltaA
    BY DEF Deltas
  <1> QED
    BY <1>1, <1>2, <1>3 DEF Carried

LEMMA RowMoves ==
  ASSUME EtlTyped, NEW h, NEW n \in Nat, n = Len(rows), row < n, Sweep(h), h.out = "ok"
  PROVE  /\ EtlTyped' /\ table' = h.s /\ row' = row + 1 /\ e_at' = e_at
         /\ Len(rows)' = n /\ UNCHANGED <<csv, lines_read, arena, ids, rows, bad, kept, checked>>
  <1>1. /\ table' = h.s /\ row' = row + 1 /\ e_at' = e_at
        /\ UNCHANGED <<csv, lines_read, arena, ids, rows, bad, kept, checked>>
    BY DEF Sweep
  <1>2. row + 1 \in 0 .. Len(rows)
    BY DEF EtlTyped
  <1> QED
    BY <1>1, <1>2 DEF EtlTyped

LEMMA ApplyRowKeeps ==
  ASSUME EtlTyped, TableInv, ApplyRow
  PROVE  /\ EtlTyped' /\ TableInv' /\ e_at' = e_at /\ e_at \in DOMAIN Deltas
         /\ UNCHANGED <<csv, lines_read, arena, ids, rows, bad, kept, checked>>
  <1>b. PICK n \in Nat, k \in Nat : n = Len(rows) /\ k = row /\ n * Cols <= Modulus /\ row < n
    BY TableSize DEF EtlTyped, ApplyRow
  <1>c. PICK r \in 1 .. n : r = k + 1
    BY <1>b
  <1>1. n = Len(rows) /\ k = row /\ n * Cols <= Modulus /\ row < n /\ r = k + 1
    BY <1>b, <1>c
  <1>2. e_at \in {"applyA", "applyB", "again"} /\ e_at \in DOMAIN Deltas
    BY DEF ApplyRow, Deltas
  <1>3. PICK d \in [1 .. Cols -> Int] : d = Deltas[e_at]
    BY <1>2, DeltasTyped DEF Deltas
  <1>4. PICK h : h = RunForward(SetDeltas(Aim(table, r), d), Kernel)
    OBVIOUS
  <1>5. Sweep(h)
    BY <1>1, <1>3, <1>4 DEF ApplyRow
  <1>6. PICK s \in EtlShape(n) : s = table
    BY <1>1, <1>2 DEF TableInv, TableFits, Sweeping
  <1>7. PICK f \in RowValues : f = rows[r]
    BY <1>1, TableSize
  <1>8. k \in 0 .. n - 1
    BY <1>1
  <1>9. /\ Carried(e_at, k, n, r) = NoDeltas /\ Carried(e_at, k + 1, n, r) = d
        /\ \A q \in 1 .. n : q # r => Carried(e_at, k + 1, n, q) = Carried(e_at, k, n, q)
    BY <1>1, <1>2, <1>3, <1>8, CarriedMoves
  <1>10. \A q \in 1 .. n : Carries(s, q, Carried(e_at, k, n, q))
    BY <1>1, <1>2, <1>6 DEF TableInv, RowsCarry, Sweeping
  <1>11. RowOf(s, r, f)
    BY <1>7, <1>9, <1>10, PlusNothing DEF Carries
  <1>12. Sweeps(n, h, s, r, PlusDelta(f, d), d)
    BY <1>1, <1>4, <1>6, <1>11, SweepForward
  <1>13. /\ EtlTyped' /\ table' = h.s /\ row' = k + 1 /\ e_at' = e_at
         /\ Len(rows)' = n /\ UNCHANGED <<csv, lines_read, arena, ids, rows, bad, kept, checked>>
    BY <1>1, <1>5, <1>12, RowMoves DEF Sweeps
  <1>14. \A q \in 1 .. n : Carries(h.s, q, Carried(e_at, k + 1, n, q))
    <2> TAKE q \in 1 .. n
    <2>1. CASE q = r
      BY <1>7, <1>9, <1>12, <2>1 DEF Carries, Sweeps
    <2>2. CASE q # r
      <3>1. RowOf(s, q, PlusDelta(rows[q], Carried(e_at, k, n, q)))
        BY <1>10 DEF Carries
      <3>2. OthersSame(n, h.s, s, r)
        BY <1>12 DEF Sweeps
      <3>3. RowOf(h.s, q, PlusDelta(rows[q], Carried(e_at, k, n, q)))
        BY <2>2, <3>1, <3>2, OthersKept
      <3> QED
        BY <1>9, <2>2, <3>3 DEF Carries
    <2> QED
      BY <2>1, <2>2
  <1>15. RowsCarry'
    <2>1. \A q \in 1 .. Len(rows)' : Carries(table, q, Carried(e_at, row, Len(rows), q))'
      BY <1>13, <1>14 DEF Carries
    <2> QED
      BY <2>1 DEF RowsCarry
  <1>16. TableFits'
    BY <1>12, <1>13 DEF TableFits, Sweeps
  <1>17. StillLaden'
    <2>1. Laden(h.s, d)
      BY <1>12 DEF Sweeps
    <2>2. Deltas["applyA"] = DeltaA /\ Deltas["applyB"] = DeltaB
      BY DEF Deltas
    <2> QED
      BY <1>2, <1>3, <1>13, <2>1, <2>2 DEF StillLaden
  <1> QED
    BY <1>2, <1>13, <1>15, <1>16, <1>17 DEF TableInv

LEMMA UndoRowKeeps ==
  ASSUME EtlTyped, TableInv, UndoRow
  PROVE  /\ EtlTyped' /\ TableInv' /\ e_at' = e_at /\ e_at \in {"undoA", "undoB"}
         /\ UNCHANGED <<csv, lines_read, arena, ids, rows, bad, kept, checked>>
  <1>b. PICK n \in Nat, k \in Nat : n = Len(rows) /\ k = row /\ n * Cols <= Modulus /\ row < n
    BY TableSize DEF EtlTyped, UndoRow
  <1>c. PICK r \in 1 .. n : r = n - k
    BY <1>b
  <1>1. n = Len(rows) /\ k = row /\ n * Cols <= Modulus /\ row < n /\ r = n - k
    BY <1>b, <1>c
  <1>2. e_at \in {"undoA", "undoB"}
    BY DEF UndoRow
  <1>3. PICK d \in [1 .. Cols -> Int] : d = IF e_at = "undoA" THEN DeltaA ELSE DeltaB
    BY DeltasTyped
  <1>4. PICK h : h = ReverseAll(Aim(table, r), Kernel)
    OBVIOUS
  <1>5. Sweep(h)
    BY <1>1, <1>4 DEF UndoRow
  <1>6. PICK s \in EtlShape(n) : s = table
    BY <1>1, <1>2 DEF TableInv, TableFits, Sweeping
  <1>7. PICK f \in RowValues : f = rows[r]
    BY <1>1, TableSize
  <1>8. k \in 0 .. n - 1
    BY <1>1
  <1>9. /\ Carried(e_at, k, n, r) = d /\ Carried(e_at, k + 1, n, r) = NoDeltas
        /\ \A q \in 1 .. n : q # r => Carried(e_at, k + 1, n, q) = Carried(e_at, k, n, q)
    BY <1>1, <1>2, <1>3, <1>8, CarriedMoves
  <1>10. \A q \in 1 .. n : Carries(s, q, Carried(e_at, k, n, q))
    BY <1>1, <1>2, <1>6 DEF TableInv, RowsCarry, Sweeping
  <1>11. RowOf(s, r, PlusDelta(f, d))
    BY <1>7, <1>9, <1>10 DEF Carries
  <1>a. Laden(s, d)
    BY <1>1, <1>2, <1>3, <1>6 DEF TableInv, StillLaden
  <1>12. Sweeps(n, h, s, r, f, d)
    BY <1>1, <1>4, <1>6, <1>11, <1>a, SweepBack
  <1>13. /\ EtlTyped' /\ table' = h.s /\ row' = k + 1 /\ e_at' = e_at
         /\ Len(rows)' = n /\ UNCHANGED <<csv, lines_read, arena, ids, rows, bad, kept, checked>>
    BY <1>1, <1>5, <1>12, RowMoves DEF Sweeps
  <1>14. \A q \in 1 .. n : Carries(h.s, q, Carried(e_at, k + 1, n, q))
    <2> TAKE q \in 1 .. n
    <2>1. CASE q = r
      BY <1>7, <1>9, <1>12, <2>1, PlusNothing DEF Carries, Sweeps
    <2>2. CASE q # r
      <3>1. RowOf(s, q, PlusDelta(rows[q], Carried(e_at, k, n, q)))
        BY <1>10 DEF Carries
      <3>2. OthersSame(n, h.s, s, r)
        BY <1>12 DEF Sweeps
      <3>3. RowOf(h.s, q, PlusDelta(rows[q], Carried(e_at, k, n, q)))
        BY <2>2, <3>1, <3>2, OthersKept
      <3> QED
        BY <1>9, <2>2, <3>3 DEF Carries
    <2> QED
      BY <2>1, <2>2
  <1>15. RowsCarry'
    <2>1. \A q \in 1 .. Len(rows)' : Carries(table, q, Carried(e_at, row, Len(rows), q))'
      BY <1>13, <1>14 DEF Carries
    <2> QED
      BY <2>1 DEF RowsCarry
  <1>16. TableFits'
    BY <1>12, <1>13 DEF TableFits, Sweeps
  <1>17. StillLaden'
    <2>1. Laden(h.s, d)
      BY <1>12 DEF Sweeps
    <2> QED
      BY <1>2, <1>3, <1>13, <2>1 DEF StillLaden
  <1> QED
    BY <1>2, <1>13, <1>15, <1>16, <1>17 DEF TableInv

-----------------------------------------------------------------------------
(* The pipeline: the counts and the choice. *)

AllCarry(d) == \A r \in 1 .. Len(rows) : Carries(table, r, d)

(* Counting a row panics that holds the values v. *)
PanicsOn(v) ==
  \E c \in 1 .. Cols : /\ Overflows(v[c], Targets[c])
                       /\ \A x \in 1 .. c - 1 : ~Far(v[x], Targets[x])
NoPanics(d) == \A r \in 1 .. Len(rows) : ~PanicsOn(Shifted(r, d))

CountsInv ==
  /\ e_at \in {"undoA", "applyB", "undoB", "again"} =>
       bad.A = FarCount(DeltaA) /\ (checked => NoPanics(DeltaA))
  /\ e_at \in {"undoB", "again"} => FarCount(DeltaA) <= FarCount(DeltaB)

IsChoice(d) ==
  /\ AllCarry(d) /\ (checked => NoPanics(d))
  /\ FarCount(d) <= FarCount(DeltaA) /\ FarCount(d) <= FarCount(DeltaB)
Chosen == e_at \in {"filter", "done"} => \E d \in {DeltaA, DeltaB} : IsChoice(d)

LEMMA CountIsNat ==
  ASSUME EtlTyped, NEW d
  PROVE  FarCount(d) \in Nat
  <1>1. PICK n \in Nat : DOMAIN rows = 1 .. n
    BY TableSize
  <1>2. PICK T : T = {r \in DOMAIN rows : \E c \in 1 .. Cols : Far(Shifted(r, d)[c], Targets[c])}
    OBVIOUS
  <1>3. T \subseteq 1 .. n
    BY <1>1, <1>2
  <1>4. Cardinality(T) \in Nat
    BY <1>3, PartOfInterval, SizeFacts
  <1> QED
    BY <1>2, <1>4 DEF FarCount

(* What the code reads in the table are the rows with the deltas on them. *)
LEMMA RowNowIs ==
  ASSUME NEW d, NEW r \in 1 .. Len(rows), AllCarry(d)
  PROVE  RowNow(r) = Shifted(r, d)
  <1>1. \A c \in 1 .. Cols : table.mem[Cell(r, c)] = (rows[r][c] + d[c]) % Modulus
    BY DEF AllCarry, Carries, RowOf, PlusDelta
  <1> QED
    BY <1>1 DEF RowNow, Shifted

LEMMA CountIs ==
  ASSUME EtlTyped, NEW d, AllCarry(d)
  PROVE  OutlierCount = FarCount(d) /\ (Stops <=> checked /\ ~NoPanics(d))
  <1>1. DOMAIN rows = 1 .. Len(rows)
    BY TableSize
  <1>2. \A r \in 1 .. Len(rows) : RowNow(r) = Shifted(r, d)
    BY RowNowIs
  <1>3. \A r \in 1 .. Len(rows) :
          IsOutlier(r) <=> \E c \in 1 .. Cols : Far(Shifted(r, d)[c], Targets[c])
    BY <1>2 DEF IsOutlier
  <1>4. \A r \in 1 .. Len(rows) : Panics(r) <=> PanicsOn(Shifted(r, d))
    BY <1>2 DEF Panics, PanicsOn
  <1>5. {r \in 1 .. Len(rows) : IsOutlier(r)} =
          {r \in DOMAIN rows : \E c \in 1 .. Cols : Far(Shifted(r, d)[c], Targets[c])}
    BY <1>1, <1>3
  <1> QED
    BY <1>4, <1>5 DEF OutlierCount, FarCount, Stops, NoPanics

(* Before the first row of a sweep and after its last. *)
LEMMA CarriedEnds ==
  ASSUME NEW n \in Nat, NEW r \in 1 .. n
  PROVE  /\ \A k : Carried("base", k, n, r) = NoDeltas
         /\ \A e \in {"applyA", "applyB", "again"} : Carried(e, 0, n, r) = NoDeltas
         /\ \A e \in {"undoA", "undoB"} : Carried(e, n, n, r) = NoDeltas
         /\ Carried("applyA", n, n, r) = DeltaA /\ Carried("undoA", 0, n, r) = DeltaA
         /\ Carried("applyB", n, n, r) = DeltaB /\ Carried("undoB", 0, n, r) = DeltaB
         /\ Carried("again", n, n, r) = DeltaA
  <1>1. ~(r <= 0) /\ ~(r <= n - n) /\ r <= n /\ r <= n - 0
    OBVIOUS
  <1> QED
    BY <1>1 DEF Carried

(* No deltas are on the rows before a sweep that applies some, ... *)
LEMMA EndOfSweepCarries ==
  ASSUME EtlTyped, TableInv, EndOfSweep
  PROVE  /\ e_at \in {"base", "undoA", "undoB"} => AllCarry(NoDeltas)
         /\ e_at \in {"applyA", "again"} => AllCarry(DeltaA)
         /\ e_at = "applyB" => AllCarry(DeltaB)
         /\ e_at \in Sweeping => table \in EtlShape(Len(rows))
         /\ e_at = "applyA" /\ Len(rows) > 0 => Laden(table, DeltaA)
         /\ e_at = "applyB" /\ Len(rows) > 0 => Laden(table, DeltaB)
  <1>1. PICK n \in Nat : n = Len(rows)
    BY TableSize
  <1>2. \A r \in 1 .. n : e_at \in Sweeping => Carries(table, r, Carried(e_at, row, n, r))
    BY <1>1 DEF TableInv, RowsCarry
  <1>3. e_at \in {"applyA", "applyB", "undoA", "undoB", "again"} => row = n
    BY <1>1 DEF EndOfSweep
  <1>4. \A r \in 1 .. n :
          /\ e_at \in {"base", "undoA", "undoB"} => Carries(table, r, NoDeltas)
          /\ e_at \in {"applyA", "again"} => Carries(table, r, DeltaA)
          /\ e_at = "applyB" => Carries(table, r, DeltaB)
    BY <1>2, <1>3, CarriedEnds DEF Sweeping
  <1> QED
    BY <1>1, <1>3, <1>4 DEF AllCarry, TableInv, TableFits, StillLaden

LEMMA EndOfSweepKeeps ==
  ASSUME EtlTyped, TableInv, CountsInv, EndOfSweep
  PROVE  /\ EtlTyped' /\ TableInv' /\ CountsInv' /\ Chosen' /\ e_at' # "done"
         /\ UNCHANGED <<csv, lines_read, arena, ids, rows, table, kept, checked>>
  <1>1. PICK n \in Nat : n = Len(rows)
    BY TableSize
  <1>2. UNCHANGED <<csv, lines_read, arena, ids, rows, table, kept, checked>> /\ row' = 0
    BY DEF EndOfSweep
  <1>3. /\ e_at \in {"base", "undoA", "undoB"} => AllCarry(NoDeltas)
        /\ e_at \in {"applyA", "again"} => AllCarry(DeltaA)
        /\ e_at = "applyB" => AllCarry(DeltaB)
        /\ e_at \in Sweeping => table \in EtlShape(n)
        /\ e_at = "applyA" /\ n > 0 => Laden(table, DeltaA)
        /\ e_at = "applyB" /\ n > 0 => Laden(table, DeltaB)
    BY <1>1, EndOfSweepCarries
  <1>4. PICK fa \in Nat, fb \in Nat : fa = FarCount(DeltaA) /\ fb = FarCount(DeltaB)
    BY CountIsNat
  <1>5. /\ e_at \in {"applyA", "again"} =>
             OutlierCount = fa /\ (Stops <=> checked /\ ~NoPanics(DeltaA))
        /\ e_at = "applyB" => OutlierCount = fb /\ (Stops <=> checked /\ ~NoPanics(DeltaB))
    BY <1>3, <1>4, CountIs
  <1>6. /\ fa = FarCount(DeltaA)' /\ fb = FarCount(DeltaB)'
        /\ \A d : NoPanics(d)' <=> NoPanics(d)
        /\ \A d : AllCarry(d)' <=> AllCarry(d)
        /\ Len(rows)' = n /\ checked' = checked
    BY <1>1, <1>2, <1>4 DEF FarCount, NoPanics, AllCarry, Shifted, PanicsOn, Carries
  <1>7. PICK a \in Nat, b \in Nat : bad = [A |-> a, B |-> b]
    BY DEF EtlTyped
  <1>8. /\ e_at = "applyA" => bad' = [A |-> fa, B |-> b]
        /\ e_at = "applyB" => bad' = [A |-> a, B |-> fb]
        /\ e_at \notin {"applyA", "applyB"} => bad' = bad
    BY <1>5, <1>7 DEF EndOfSweep
  <1>9. bad' \in [A : Nat, B : Nat]
    BY <1>7, <1>8
  <1>10. \/ e_at' = "panic"
         \/ e_at = "base" /\ e_at' = "applyA"
         \/ e_at = "applyA" /\ ~Stops /\ e_at' = "undoA"
         \/ e_at = "undoA" /\ e_at' = "applyB"
         \/ e_at = "applyB" /\ ~Stops /\ a <= fb /\ e_at' = "undoB"
         \/ e_at = "applyB" /\ ~Stops /\ ~(a <= fb) /\ e_at' = "filter"
         \/ e_at = "undoB" /\ e_at' = "again"
         \/ e_at = "again" /\ e_at' = "filter"
    BY <1>5, <1>7 DEF EndOfSweep, AfterB, WinsA
  <1>11. EtlTyped'
    BY <1>2, <1>9, <1>10 DEF EtlTyped, Phases
  <1>12. TableFits' /\ StillLaden'
    BY <1>1, <1>2, <1>3, <1>10 DEF TableFits, StillLaden, Sweeping
  <1>13. RowsCarry'
    <2>1. /\ e_at' \in {"applyA", "applyB", "again"} => AllCarry(NoDeltas)
          /\ e_at' = "undoA" => AllCarry(DeltaA)
          /\ e_at' = "undoB" => AllCarry(DeltaB)
          /\ e_at' \in Sweeping => e_at' \in {"applyA", "applyB", "again", "undoA", "undoB"}
      BY <1>3, <1>10 DEF Sweeping
    <2>2. \A r \in 1 .. n : e_at' \in Sweeping => Carries(table, r, Carried(e_at', 0, n, r))
      BY <1>1, <2>1, CarriedEnds DEF AllCarry
    <2> QED
      BY <1>1, <1>2, <2>2 DEF RowsCarry, Carries
  <1>14. CountsInv'
    <2>1. e_at' \in {"undoA", "applyB", "undoB", "again"} =>
            bad'.A = fa /\ (checked => NoPanics(DeltaA))
      BY <1>4, <1>5, <1>7, <1>8, <1>10 DEF CountsInv
    <2>2. e_at' \in {"undoB", "again"} => fa <= fb
      BY <1>4, <1>7, <1>10 DEF CountsInv
    <2> QED
      BY <1>6, <2>1, <2>2 DEF CountsInv
  <1>15. Chosen'
    <2>1. e_at' = "filter" => \/ AllCarry(DeltaA) /\ (checked => NoPanics(DeltaA)) /\ fa <= fb
                              \/ AllCarry(DeltaB) /\ (checked => NoPanics(DeltaB)) /\ fb <= fa
      BY <1>3, <1>4, <1>5, <1>7, <1>10 DEF CountsInv
    <2>2. fa <= fa /\ fb <= fb
      OBVIOUS
    <2>3. e_at' = "filter" => IsChoice(DeltaA)' \/ IsChoice(DeltaB)'
      BY <1>6, <2>1, <2>2 DEF IsChoice
    <2> QED
      BY <1>10, <2>3 DEF Chosen
  <1> QED
    BY <1>2, <1>10, <1>11, <1>12, <1>13, <1>14, <1>15 DEF TableInv

-----------------------------------------------------------------------------
(* The pipeline: the rows that are kept. *)

(* The distance is measured right when it does not overflow. *)
LEMMA FarIs ==
  ASSUME NEW v \in Word, NEW t \in 0 .. Modulus \div 2 - 1, ~Overflows(v, t)
  PROVE  Far(v, t) <=> Difference(v, t) \notin -Tol .. Tol
  <1>1. PICK h \in Nat \ {0} : Modulus = 2 * h
    <2>1. 1 \in 0 .. Width
      BY SizesAssumption
    <2>2. Pow2[1] * Pow2[Width - 1] = Modulus /\ Pow2[Width - 1] \in Nat \ {0} /\ Pow2[1] = 2
      BY <2>1, ModulusFacts, Pow2Assumption
    <2> QED
      BY <2>2
  <1>2. PICK m \in Nat \ {0} : m = Modulus /\ m = 2 * h /\ m \div 2 = h
    BY <1>1
  <1>3. Tol \in 0 .. h - 1 /\ t \in 0 .. h - 1 /\ v \in 0 .. m - 1
    BY <1>2, EtlAssumption DEF Word
  <1>4. PICK d \in Int : d = Difference(v, t) /\ d > -h /\ d < h
    <2>1. Signed(v) \in -h .. h - 1
      BY <1>2, <1>3 DEF Signed
    <2> QED
      BY <1>2, <1>3, <2>1 DEF Difference, Overflows
  <1>5. d % m = IF d >= 0 THEN d ELSE d + m
    <2>1. CASE d >= 0
      <3>1. d \in 0 .. m - 1 /\ 0 \in Int
        BY <1>2, <1>4, <2>1
      <3>2. (0 * m + d) % m = d /\ 0 * m + d = d
        BY <3>1, DivModUnique
      <3> QED
        BY <2>1, <3>2
    <2>2. CASE d < 0
      <3>1. PICK q \in Int, e \in 0 .. m - 1 : q = -1 /\ e = d + m
        BY <1>2, <1>4, <2>2
      <3>2. (q * m + e) % m = e
        BY DivModUnique
      <3>3. q * m + e = d
        BY <1>2, <1>4, <3>1
      <3> QED
        BY <2>2, <3>1, <3>2, <3>3
    <2> QED
      BY <1>4, <2>1, <2>2
  <1>6. Signed(d % m) = d
    BY <1>2, <1>4, <1>5 DEF Signed
  <1>7. Far(v, t) <=> (IF d < 0 THEN -d ELSE d) > Tol
    BY <1>2, <1>4, <1>6 DEF Far
  <1> QED
    BY <1>3, <1>4, <1>7

NearRow(r) == \A c \in 1 .. Cols : Difference(RowNow(r)[c], Targets[c]) \in -Tol .. Tol

LEMMA KeptIsNear ==
  ASSUME EtlTyped, NEW r, ~PanicsOn(RowNow(r)), \A c \in 1 .. Cols : RowNow(r)[c] \in Word
  PROVE  Keeps(r) <=> NearRow(r)
  <1>1. PICK w \in Nat \ {0} : w = Cols
    BY EtlFacts
  <1>2. PICK v : v = RowNow(r)
    OBVIOUS
  <1>3. \A c \in 1 .. w : Targets[c] \in 0 .. Modulus \div 2 - 1
    <2>1. PICK S : S = 0 .. Modulus \div 2 - 1
      OBVIOUS
    <2>2. Targets \in Seq(S)
      BY <2>1, EtlAssumption
    <2>3. \A c \in 1 .. w : Targets[c] \in S
      BY <1>1, <2>2 DEF Cols
    <2> QED
      BY <2>1, <2>3
  <1>4. \A c \in 1 .. w : ~Overflows(v[c], Targets[c]) =>
          (Far(v[c], Targets[c]) <=> Difference(v[c], Targets[c]) \notin -Tol .. Tol)
    BY <1>1, <1>2, <1>3, FarIs
  <1>5. ASSUME Keeps(r) PROVE NearRow(r)
    <2>1. \A c \in 1 .. w : ~Far(v[c], Targets[c])
      BY <1>1, <1>2, <1>5 DEF Keeps, IsOutlier
    <2>2. \A c \in 1 .. w : ~Overflows(v[c], Targets[c])
      <3> TAKE c \in 1 .. w
      <3>1. \A x \in 1 .. c - 1 : ~Far(v[x], Targets[x])
        BY <2>1
      <3> QED
        BY <1>1, <1>2, <3>1 DEF PanicsOn
    <2> QED
      BY <1>1, <1>2, <1>4, <2>1, <2>2 DEF NearRow
  <1>6. ASSUME NearRow(r) PROVE Keeps(r)
    <2>1. \A c \in 1 .. w : Difference(v[c], Targets[c]) \in -Tol .. Tol
      BY <1>1, <1>2, <1>6 DEF NearRow
    <2>2. \A c \in 1 .. w : ~Overflows(v[c], Targets[c])
      <3> TAKE c \in 1 .. w
      <3>1. PICK d : d = Difference(v[c], Targets[c])
        OBVIOUS
      <3>2. d \in -Tol .. Tol /\ Tol \in 0 .. Modulus \div 2 - 1
        BY <2>1, <3>1, EtlAssumption
      <3>3. PICK h \in Int : h = Modulus \div 2
        BY EtlFacts
      <3>4. ~(d <= -h)
        BY <3>2, <3>3
      <3> QED
        BY <3>1, <3>3, <3>4 DEF Overflows
    <2>3. \A c \in 1 .. w : ~Far(v[c], Targets[c])
      BY <1>4, <2>1, <2>2
    <2> QED
      BY <1>1, <1>2, <2>3 DEF Keeps, IsOutlier
  <1> QED
    BY <1>5, <1>6

(* The members of a set of rows are numbered in order. *)
LEMMA Numbered ==
  ASSUME NEW n \in Nat, NEW T, T \subseteq 1 .. n
  PROVE  /\ Cardinality(T) \in Nat
         /\ \A k \in 1 .. Cardinality(T) : \E r \in T : CountUp(T, r) = k
  <1> DEFINE c == [p \in 0 .. n |-> CountUp(T, p)]
  <1>1. /\ c[0] = 0 /\ c[n] = Cardinality(T)
        /\ \A p \in 0 .. n : c[p] \in Nat /\ c[p] = CountUp(T, p)
        /\ \A p \in 1 .. n : c[p] = c[p - 1] + (IF p \in T THEN 1 ELSE 0)
    <2>1. /\ CountUp(T, 0) = 0 /\ CountUp(T, n) = Cardinality(T)
          /\ \A p \in 0 .. n : CountUp(T, p) \in Nat
          /\ \A p \in 1 .. n : CountUp(T, p) = CountUp(T, p - 1) + (IF p \in T THEN 1 ELSE 0)
      BY CountSteps
    <2>2. \A p \in 1 .. n : p \in 0 .. n /\ p - 1 \in 0 .. n
      OBVIOUS
    <2>3. 0 \in 0 .. n /\ n \in 0 .. n
      OBVIOUS
    <2> HIDE DEF CountUp
    <2> QED
      BY <2>1, <2>2, <2>3
  <1>2. n \in 0 .. n
    OBVIOUS
  <1> HIDE DEF c
  <1>3. PICK b : b = c
    OBVIOUS
  <1>4. Counts(b, T, n)
    BY <1>1, <1>3 DEF Counts
  <1>5. Numbers(b, T, n)
    BY <1>4, CountNumbers
  <1>6. \A r \in T : r \in 0 .. n
    OBVIOUS
  <1>7. \A k \in 1 .. Cardinality(T) : \E r \in T : b[r] = k
    BY <1>1, <1>3, <1>5 DEF Numbers
  <1> QED
    BY <1>1, <1>2, <1>3, <1>6, <1>7

KeptNear ==
  /\ Len(kept) = Cardinality({r \in DOMAIN rows : NearRow(r)})
  /\ \A k \in DOMAIN kept : \E r \in DOMAIN rows :
       /\ NearRow(r) /\ kept[k] = [id |-> ids[r], row |-> RowNow(r)]
       /\ Cardinality({q \in 1 .. r : NearRow(q)}) = k

LEMMA FilterKeeps ==
  ASSUME EtlTyped, Chosen, Filter
  PROVE  /\ EtlTyped' /\ Chosen' /\ KeptAreNear' /\ e_at' = "done"
         /\ UNCHANGED <<csv, lines_read, arena, ids, rows, table, row, bad, checked>>
  <1>1. PICK n \in Nat : n = Len(rows) /\ DOMAIN rows = 1 .. n
    BY TableSize
  <1>2. /\ UNCHANGED <<csv, lines_read, arena, ids, rows, table, row, bad, checked>>
        /\ e_at = "filter" /\ e_at' = "done"
    BY DEF Filter
  <1>3. EtlTyped'
    BY <1>2 DEF EtlTyped, Phases
  <1>4. Chosen'
    <2>1. PICK d \in {DeltaA, DeltaB} : IsChoice(d)
      BY <1>2 DEF Chosen
    <2>2. IsChoice(d)'
      BY <1>2, <2>1 DEF IsChoice, AllCarry, Carries, NoPanics, Shifted, FarCount
    <2> QED
      BY <2>1, <2>2 DEF Chosen
  <1>5. ASSUME checked' PROVE KeptAreNear'
    <2>1. PICK d \in {DeltaA, DeltaB} : AllCarry(d) /\ NoPanics(d)
      BY <1>2, <1>5 DEF Chosen, IsChoice
    <2>2. \A r \in 1 .. n : Keeps(r) <=> NearRow(r)
      <3> TAKE r \in 1 .. n
      <3>1. RowNow(r) = Shifted(r, d)
        BY <1>1, <2>1, RowNowIs
      <3>2. ~PanicsOn(RowNow(r))
        BY <1>1, <2>1, <3>1 DEF NoPanics
      <3>3. rows[r] \in RowValues /\ d \in [1 .. Cols -> Int]
        BY <1>1, TableSize, DeltasTyped
      <3>4. \A c \in 1 .. Cols : RowNow(r)[c] \in Word
        <4> TAKE c \in 1 .. Cols
        <4>1. rows[r][c] + d[c] \in Int
          BY <3>3, EtlFacts DEF RowValues, Word
        <4>2. RowNow(r)[c] = (rows[r][c] + d[c]) % Modulus
          BY <3>1 DEF Shifted
        <4> QED
          BY <4>1, <4>2, EtlFacts DEF Word
      <3> QED
        BY <3>2, <3>4, KeptIsNear
    <2>3. PICK T : T = {r \in 1 .. n : Keeps(r)} /\ T \subseteq 1 .. n
      OBVIOUS
    <2>4. PICK s \in Nat : s = Cardinality(T) /\ \A k \in 1 .. s : \E r \in T : CountUp(T, r) = k
      BY <2>3, Numbered
    <2>5. \A r \in 1 .. n : /\ {q \in 1 .. r : Keeps(q)} = {j \in T : j <= r}
                            /\ {q \in 1 .. r : NearRow(q)} = {j \in T : j <= r}
      <3> TAKE r \in 1 .. n
      <3>1. \A q \in 1 .. r : q \in 1 .. n
        OBVIOUS
      <3>2. \A j \in T : j \in 1 .. n /\ Keeps(j) /\ (j <= r => j \in 1 .. r)
        BY <2>3
      <3> QED
        BY <2>2, <2>3, <3>1, <3>2
    <2>6. {r \in DOMAIN rows : Keeps(r)} = T /\ {r \in DOMAIN rows : NearRow(r)} = T
      BY <1>1, <2>2, <2>3
    <2>7. kept' = [k \in 1 .. s |->
                     LET r == CHOOSE x \in 1 .. n :
                                Keeps(x) /\ Cardinality({q \in 1 .. x : Keeps(q)}) = k
                     IN  [id |-> ids[r], row |-> RowNow(r)]]
      BY <1>1, <2>4, <2>6 DEF Filter
    <2>8. Len(kept') = s /\ DOMAIN kept' = 1 .. s
      BY <2>7
    <2>9. ASSUME NEW k \in 1 .. s
          PROVE  \E r \in 1 .. n : /\ NearRow(r) /\ kept'[k] = [id |-> ids[r], row |-> RowNow(r)]
                                   /\ Cardinality({q \in 1 .. r : NearRow(q)}) = k
      <3>1. PICK p \in T : CountUp(T, p) = k
        BY <2>4
      <3>2. p \in 1 .. n /\ Keeps(p) /\ Cardinality({q \in 1 .. p : Keeps(q)}) = k
        BY <2>3, <2>5, <3>1 DEF CountUp
      <3>3. PICK r : r = CHOOSE x \in 1 .. n :
                           Keeps(x) /\ Cardinality({q \in 1 .. x : Keeps(q)}) = k
        OBVIOUS
      <3>4. r \in 1 .. n /\ Keeps(r) /\ Cardinality({q \in 1 .. r : Keeps(q)}) = k
        BY <3>2, <3>3
      <3>5. kept'[k] = [id |-> ids[r], row |-> RowNow(r)]
        BY <2>7, <3>3
      <3> QED
        BY <2>2, <2>5, <3>4, <3>5
    <2>10. \A r : (NearRow(r)' <=> NearRow(r)) /\ RowNow(r)' = RowNow(r)
      BY <1>2 DEF NearRow, RowNow
    <2> HIDE DEF NearRow
    <2>11. KeptNear'
      <3>1. ids' = ids /\ rows' = rows
        BY <1>2
      <3>2. {r \in DOMAIN rows : NearRow(r)}' = T
        BY <2>6, <2>10, <3>1
      <3>3. \A r : {q \in 1 .. r : NearRow(q)}' = {q \in 1 .. r : NearRow(q)}
        BY <2>10
      <3>4. \A k \in DOMAIN kept' : \E r \in DOMAIN rows' :
              /\ NearRow(r)' /\ kept'[k] = [id |-> ids'[r], row |-> RowNow(r)']
              /\ Cardinality({q \in 1 .. r : NearRow(q)}') = k
        BY <1>1, <2>8, <2>9, <2>10, <3>1, <3>3
      <3> QED
        BY <2>4, <2>8, <3>2, <3>4 DEF KeptNear
    <2> QED
      BY <2>11 DEF KeptAreNear, KeptNear, NearRow
  <1>6. CASE checked'
    BY <1>2, <1>3, <1>4, <1>5, <1>6
  <1>7. CASE ~checked'
    BY <1>2, <1>3, <1>4, <1>7 DEF KeptAreNear
  <1> QED
    BY <1>6, <1>7

-----------------------------------------------------------------------------
(* The pipeline, whole. *)

EtlInv == EtlTyped /\ ParseInv /\ TableInv /\ CountsInv /\ Chosen /\ KeptAreNear

LEMMA EtlInvSays ==
  ASSUME EtlInv
  PROVE  PipelineExact
  <1>1. EtlTyped /\ ParseInv /\ TableInv /\ Chosen /\ KeptAreNear
    BY DEF EtlInv
  <1>2. ParsedExactly
    BY <1>1, ParsedIs
  <1>3. DOMAIN rows = 1 .. Len(rows)
    BY <1>1, TableSize
  <1>4. TableIsShifted
    <2> SUFFICES ASSUME e_at \in Sweeping, NEW r \in 1 .. Len(rows)
                 PROVE  RowNow(r) = Shifted(r, OnRow(r))
      BY <1>3 DEF TableIsShifted, Sweeping
    <2>1. PICK d : d = OnRow(r) /\ d = Carried(e_at, row, Len(rows), r)
      BY DEF OnRow, Carried
    <2>2. \A c \in 1 .. Cols : table.mem[Cell(r, c)] = (rows[r][c] + d[c]) % Modulus
      BY <1>1, <2>1 DEF TableInv, RowsCarry, Carries, RowOf, PlusDelta
    <2> QED
      BY <2>1, <2>2 DEF RowNow, Shifted
  <1>5. WinnerStands
    <2> SUFFICES ASSUME e_at \in {"filter", "done"}
                 PROVE  \E d \in {DeltaA, DeltaB} :
                          /\ \A e \in {DeltaA, DeltaB} : FarCount(d) <= FarCount(e)
                          /\ \A r \in DOMAIN rows : RowNow(r) = Shifted(r, d)
      BY DEF WinnerStands
    <2>1. PICK d \in {DeltaA, DeltaB} : IsChoice(d)
      BY <1>1 DEF Chosen
    <2>2. \A r \in 1 .. Len(rows) : RowNow(r) = Shifted(r, d)
      BY <2>1, RowNowIs DEF IsChoice
    <2> QED
      BY <1>3, <2>1, <2>2 DEF IsChoice
  <1> QED
    BY <1>1, <1>2, <1>4, <1>5 DEF PipelineExact

LEMMA EtlInvStarts ==
  ASSUME EtlStart(TRUE)
  PROVE  EtlInv
  <1>1. /\ csv \in Csvs /\ checked \in BOOLEAN /\ e_at = "parse" /\ lines_read = 0
        /\ arena = WithCapacity(1024) /\ ids = <<>> /\ rows = <<>> /\ row = 0
        /\ bad = [A |-> 0, B |-> 0]
    BY DEF EtlStart, Among
  <1>2. Len(rows) = 0 /\ Len(ids) = 0 /\ rows \in Seq(RowValues) /\ ids \in Seq(Word)
    BY <1>1
  <1>3. EtlTyped
    BY <1>1, <1>2, EtlFacts DEF EtlTyped, Phases
  <1>4. AcceptedTo(0) = 0
    <2>1. {k \in 1 .. 0 : Accepted(k)} = {}
      OBVIOUS
    <2> QED
      BY <2>1, SizeFacts DEF AcceptedTo
  <1>5. ParseInv
    <2>1. ArenaHasRows
      BY <1>1, <1>2, EtlFacts DEF ArenaHasRows, Buffers, WithCapacity
    <2>2. RowsAreLines /\ IdsAreGood
      BY <1>1, <1>2 DEF RowsAreLines, IdsAreGood
    <2> QED
      BY <1>1, <1>2, <1>4, <2>1, <2>2 DEF ParseInv
  <1> QED
    BY <1>1, <1>3, <1>5
       DEF EtlInv, TableInv, TableFits, RowsCarry, StillLaden, Sweeping, CountsInv, Chosen, KeptAreNear

(* What was parsed stays while the table is worked on. *)
LEMMA ParsedStays ==
  ASSUME ParseInv, UNCHANGED <<csv, lines_read, arena, ids, rows>>
  PROVE  ParseInv'
  <1>1. ArenaHasRows'
    BY DEF ParseInv, ArenaHasRows
  <1>2. /\ \A k : GoodLine(k)' <=> GoodLine(k)
        /\ \A k : Accepted(k)' <=> Accepted(k)
        /\ \A k : AcceptedTo(k)' = AcceptedTo(k)
        /\ \A k : IdOf(csv[k])' = IdOf(csv[k])
    BY LinesStay
  <1> HIDE DEF GoodLine, Accepted, AcceptedTo
  <1>3. RowsAreLines'
    BY <1>2 DEF ParseInv, RowsAreLines
  <1>4. IdsAreGood'
    BY <1>2 DEF ParseInv, IdsAreGood
  <1>5. Len(rows)' = AcceptedTo(lines_read)'
    BY <1>2 DEF ParseInv
  <1> QED
    BY <1>1, <1>3, <1>4, <1>5 DEF ParseInv

LEMMA EtlInvKeeps ==
  ASSUME EtlInv, [EtlNext]_etlVars
  PROVE  EtlInv'
  <1>1. EtlTyped /\ ParseInv /\ TableInv /\ CountsInv /\ Chosen /\ KeptAreNear
    BY DEF EtlInv
  <1>2. CASE ParseLine
    <2>1. e_at' = "parse"
      BY <1>2 DEF ParseLine
    <2>2. EtlTyped' /\ ParseInv'
      BY <1>1, <1>2, ParseLineKeeps
    <2> QED
      BY <2>1, <2>2
         DEF EtlInv, TableInv, TableFits, RowsCarry, StillLaden, Sweeping, CountsInv, Chosen, KeptAreNear
  <1>3. CASE MakeTable
    <2>1. UNCHANGED <<csv, lines_read, arena, ids, rows>> /\ e_at' = "base"
      BY <1>3 DEF MakeTable
    <2>2. EtlTyped' /\ ParseInv' /\ TableInv'
      BY <1>1, <1>3, <2>1, MakeTableKeeps, ParsedStays
    <2> QED
      BY <2>1, <2>2 DEF EtlInv, CountsInv, Chosen, KeptAreNear
  <1>4. CASE ApplyRow \/ UndoRow
    <2>1. /\ EtlTyped' /\ TableInv' /\ e_at' = e_at
          /\ e_at \in {"applyA", "applyB", "again", "undoA", "undoB"}
          /\ UNCHANGED <<csv, lines_read, arena, ids, rows, bad, kept, checked>>
      BY <1>1, <1>4, ApplyRowKeeps, UndoRowKeeps DEF Deltas
    <2>2. ParseInv'
      BY <1>1, <2>1, ParsedStays
    <2>3. CountsInv'
      BY <1>1, <2>1 DEF CountsInv, FarCount, NoPanics, Shifted, PanicsOn
    <2> QED
      BY <2>1, <2>2, <2>3 DEF EtlInv, Chosen, KeptAreNear
  <1>5. CASE EndOfSweep
    <2>1. /\ EtlTyped' /\ TableInv' /\ CountsInv' /\ Chosen' /\ e_at' # "done"
          /\ UNCHANGED <<csv, lines_read, arena, ids, rows, table, kept, checked>>
      BY <1>1, <1>5, EndOfSweepKeeps
    <2>2. ParseInv'
      BY <1>1, <2>1, ParsedStays
    <2> QED
      BY <2>1, <2>2 DEF EtlInv, KeptAreNear
  <1>6. CASE Filter
    <2>1. /\ EtlTyped' /\ Chosen' /\ KeptAreNear' /\ e_at' = "done"
          /\ UNCHANGED <<csv, lines_read, arena, ids, rows, table, row, bad, checked>>
      BY <1>1, <1>6, FilterKeeps
    <2>2. ParseInv'
      BY <1>1, <2>1, ParsedStays
    <2>3. TableInv'
      <3>1. e_at = "filter"
        BY <1>6 DEF Filter
      <3> QED
        BY <1>1, <2>1, <3>1 DEF TableInv, TableFits, RowsCarry, StillLaden, Sweeping
    <2> QED
      BY <2>1, <2>2, <2>3 DEF EtlInv, CountsInv
  <1>7. CASE UNCHANGED etlVars
    <2>1. /\ UNCHANGED <<csv, lines_read, arena, ids, rows, table, row, bad, kept, checked>>
          /\ e_at' = e_at
      BY <1>7 DEF etlVars
    <2>2. ParseInv'
      BY <1>1, <2>1, ParsedStays
    <2>3. EtlTyped'
      BY <1>1, <2>1 DEF EtlTyped
    <2>4. TableInv'
      BY <1>1, <2>1 DEF TableInv, TableFits, RowsCarry, StillLaden, Carries
    <2>5. CountsInv'
      BY <1>1, <2>1 DEF CountsInv, FarCount, NoPanics, Shifted, PanicsOn
    <2>6. Chosen'
      BY <1>1, <2>1 DEF Chosen, IsChoice, AllCarry, Carries, NoPanics, Shifted, FarCount
    <2>7. KeptAreNear'
      <3>1. e_at = "done" /\ checked => KeptNear
        BY <1>1 DEF KeptAreNear, KeptNear, NearRow
      <3>2. \A r : (NearRow(r)' <=> NearRow(r)) /\ RowNow(r)' = RowNow(r)
        BY <2>1 DEF NearRow, RowNow
      <3> HIDE DEF NearRow
      <3>3. \A r : {q \in 1 .. r : NearRow(q)}' = {q \in 1 .. r : NearRow(q)}
        BY <3>2
      <3>4. {r \in DOMAIN rows : NearRow(r)}' = {r \in DOMAIN rows : NearRow(r)}
        BY <2>1, <3>2
      <3>5. KeptNear' <=> KeptNear
        BY <2>1, <3>2, <3>3, <3>4 DEF KeptNear
      <3> QED
        BY <2>1, <3>1, <3>5 DEF KeptAreNear, KeptNear, NearRow
    <2> QED
      BY <2>2, <2>3, <2>4, <2>5, <2>6, <2>7 DEF EtlInv
  <1> QED
    BY <1>2, <1>3, <1>4, <1>5, <1>6, <1>7 DEF EtlNext

(* At every step of the pipeline, on any file, targets and deltas: the rows   *)
(* are the good lines and the arena holds nothing else, the table is the rows *)
(* with the deltas that are on them, the better deltas stay, and the rows     *)
(* written out are those near the targets (phase_etl.rs 97-222).             *)
THEOREM PipelineIsExact == EtlSpec => []PipelineExact
  <1>1. EtlStart(TRUE) => EtlInv
    BY EtlInvStarts
  <1>2. EtlInv /\ [EtlNext]_etlVars => EtlInv'
    BY EtlInvKeeps
  <1>3. EtlInv => PipelineExact
    BY EtlInvSays
  <1> QED
    BY <1>1, <1>2, <1>3, PTL DEF EtlSpec
=============================================================================
