---------------------------- MODULE HostProofs -----------------------------
(***************************************************************************)
(* Proofs about the programs that run leaves on the machine and take them  *)
(* back: run_forward and reverse_n themselves, the commands of phase-vm,   *)
(* the image editor, the capsule, the batches of transfers and the         *)
(* rollback server of netcode. They hold for every program, every state    *)
(* and every word width, any number of edits, accounts, transfers,         *)
(* entities and ticks, any window and inputs.                              *)
(*                                                                         *)
(* A run is a chain of states, one for each leaf (Forth), a reversal       *)
(* another one (Undone), and the reversal goes back along the states of    *)
(* the run (Unwinds), because each inverse cancels its leaf (ExecCancel).  *)
(* The words of a batch are compared with the balances as numbers (Follows):*)
(* a word tells whether its number is below zero, since all the money fits.*)
(* Of the server it needs to be known how far the timeline is recorded     *)
(* (Extent), that inputs not outstanding are in the log (LogRight), and    *)
(* when inputs can still be missing (Window): then a tick taken back lands *)
(* on a recorded state and the final comparison succeeds.                  *)
(***************************************************************************)
EXTENDS RollbackNetcode, CommandLine, Capsule, BatchTx, PhaseInstProofs

-----------------------------------------------------------------------------
(* Runs and reversals. *)

Res(R, A) == [s : Shape(R, A), done : Nat, out : {"ok", "fault", "stop"}]

LEMMA CanRunFits ==
  ASSUME NEW R, NEW A, NEW s \in Shape(R, A), NEW i
  PROVE  CanRun(s, i) <=> Fits(R, A, s, i)
  BY DEF CanRun, Fits, Shape

LEMMA ForwardTyped ==
  ASSUME NEW R, NEW A, NEW r \in Res(R, A), NEW i \in Inst
  PROVE  ForwardLeaf(r, i) \in Res(R, A)
  <1>1. r.s \in Shape(R, A)
    BY DEF Res
  <1>2. CanRun(r.s, i) => Exec(r.s, i) \in Shape(R, A)
    BY <1>1, CanRunFits, ShapeState
  <1> QED
    BY <1>1, <1>2 DEF Res, ForwardLeaf

LEMMA BackTyped ==
  ASSUME NEW R, NEW A, NEW r \in Res(R, A), NEW i \in Inst, NEW n
  PROVE  BackLeaf(r, i, n) \in Res(R, A)
  <1>1. r.s \in Shape(R, A)
    BY DEF Res
  <1>2. Invertible(i) /\ CanRun(r.s, Inverse(i)) => Exec(r.s, Inverse(i)) \in Shape(R, A)
    BY <1>1, CanRunFits, ShapeState, InverseInst
  <1> QED
    BY <1>1, <1>2 DEF Res, BackLeaf

(* What a run is after each of its n leaves, and a reversal by at most c      *)
(* leaves after each of its n steps.                                         *)
Forth(f, s, prog, n) ==
  f[0] = Go(s) /\ \A k \in 1 .. n : f[k] = ForwardLeaf(f[k - 1], prog[k])
Undone(b, s, prog, n, c) ==
  b[0] = Go(s) /\ \A k \in 1 .. n : b[k] = BackLeaf(b[k - 1], prog[n + 1 - k], c)

LEMMA RunIsForth ==
  ASSUME NEW R, NEW A, NEW s \in Shape(R, A), NEW prog \in Seq(Inst),
         NEW n \in Nat, n = Len(prog)
  PROVE  \E f \in [0 .. n -> Res(R, A)] :
           Forth(f, s, prog, n) /\ RunForward(s, prog) = f[n]
  <1> DEFINE S == Res(R, A)
  <1>1. \A k \in 1 .. n : prog[k] \in Inst
    OBVIOUS
  <1> DEFINE step == [k \in 1 .. n |-> [r \in S |-> ForwardLeaf(r, prog[k])]]
  <1>2. Go(s) \in S
    BY DEF Res, Go
  <1>3. step \in [1 .. n -> [S -> S]]
    BY <1>1, ForwardTyped
  <1> HIDE DEF S, step
  <1>4. PICK f : /\ f \in [0 .. n -> S] /\ f[0] = Go(s)
                 /\ \A k \in 1 .. n : f[k] = step[k][f[k - 1]]
    <2>1. \E f : Chain(f, n, S, Go(s), step)
      BY <1>2, <1>3, Recursion
    <2> QED
      BY <2>1 DEF Chain
  <1>5. ASSUME NEW k \in 1 .. n PROVE f[k] = ForwardLeaf(f[k - 1], prog[k])
    <2>1. k - 1 \in 0 .. n
      OBVIOUS
    <2>2. f[k - 1] \in S
      BY <1>4, <2>1
    <2>3. step[k][f[k - 1]] = ForwardLeaf(f[k - 1], prog[k])
      BY <2>2 DEF step
    <2>4. k \in 0 .. n
      OBVIOUS
    <2> QED
      BY <1>4, <2>3, <2>4
  <1> DEFINE Runs(g) == g = [k \in 0 .. n |-> IF k = 0 THEN Go(s) ELSE ForwardLeaf(g[k - 1], prog[k])]
  <1>6. Runs(f)
    <2>1. \A k \in 0 .. n : f[k] = IF k = 0 THEN Go(s) ELSE ForwardLeaf(f[k - 1], prog[k])
      <3>1. \A k \in 0 .. n : k = 0 \/ k \in 1 .. n
        OBVIOUS
      <3> QED
        BY <1>4, <1>5, <3>1
    <2> QED
      BY <1>4, <2>1
  <1>7. PICK g : g = CHOOSE h : Runs(h)
    OBVIOUS
  <1>8. Runs(g)
    BY <1>6, <1>7
  <1>9. RunForward(s, prog) = g[n]
    BY <1>1, <1>7 DEF RunForward
  <1>10. g[0] = Go(s) /\ DOMAIN g = 0 .. n
    BY <1>8
  <1>11. ASSUME NEW k \in 1 .. n PROVE g[k] = ForwardLeaf(g[k - 1], prog[k])
    BY <1>8
  <1> HIDE DEF Runs
  <1>12. \A k \in 0 .. n : g[k] \in S
    <2> DEFINE P == {k \in 0 .. n : g[k] \in S}
    <2>1. 0 \in P
      BY <1>2, <1>10
    <2>2. ASSUME NEW k \in 1 .. n, k - 1 \in P PROVE k \in P
      BY <1>1, <1>11, <2>2, ForwardTyped DEF S
    <2> HIDE DEF P
    <2>3. \A k \in 0 .. n : k \in P
      BY <2>1, <2>2, UpTo
    <2> QED
      BY <2>3 DEF P
  <1>13. g \in [0 .. n -> S]
    <2>1. g = [k \in 0 .. n |-> g[k]]
      BY <1>8 DEF Runs
    <2> QED
      BY <1>12, <2>1
  <1>14. Forth(g, s, prog, n)
    BY <1>1, <1>10, <1>11 DEF Forth
  <1> QED
    BY <1>1, <1>9, <1>13, <1>14 DEF S

LEMMA ReverseIsUndone ==
  ASSUME NEW R, NEW A, NEW s \in Shape(R, A), NEW prog \in Seq(Inst),
         NEW n \in Nat, n = Len(prog), NEW c \in Nat
  PROVE  \E f \in [0 .. n -> Res(R, A)] :
           Undone(f, s, prog, n, c) /\ ReverseN(s, prog, c) = f[n]
  <1> DEFINE S == Res(R, A)
  <1>1. \A k \in 1 .. n : prog[n + 1 - k] \in Inst
    <2>1. \A k \in 1 .. n : prog[k] \in Inst
      OBVIOUS
    <2>2. \A k \in 1 .. n : n + 1 - k \in 1 .. n
      OBVIOUS
    <2> QED
      BY <2>1, <2>2
  <1> DEFINE step == [k \in 1 .. n |-> [r \in S |-> BackLeaf(r, prog[n + 1 - k], c)]]
  <1>2. Go(s) \in S
    BY DEF Res, Go
  <1>3. step \in [1 .. n -> [S -> S]]
    BY <1>1, BackTyped
  <1> HIDE DEF S, step
  <1>4. PICK f : /\ f \in [0 .. n -> S] /\ f[0] = Go(s)
                 /\ \A k \in 1 .. n : f[k] = step[k][f[k - 1]]
    <2>1. \E f : Chain(f, n, S, Go(s), step)
      BY <1>2, <1>3, Recursion
    <2> QED
      BY <2>1 DEF Chain
  <1>5. ASSUME NEW k \in 1 .. n PROVE f[k] = BackLeaf(f[k - 1], prog[n + 1 - k], c)
    <2>1. k - 1 \in 0 .. n
      OBVIOUS
    <2>2. f[k - 1] \in S
      BY <1>4, <2>1
    <2>3. step[k][f[k - 1]] = BackLeaf(f[k - 1], prog[n + 1 - k], c)
      BY <2>2 DEF step
    <2>4. k \in 0 .. n
      OBVIOUS
    <2> QED
      BY <1>4, <2>3, <2>4
  <1> DEFINE Runs(g) == g = [k \in 0 .. n |-> IF k = 0 THEN Go(s) ELSE BackLeaf(g[k - 1], prog[n + 1 - k], c)]
  <1>6. Runs(f)
    <2>1. \A k \in 0 .. n : f[k] = IF k = 0 THEN Go(s) ELSE BackLeaf(f[k - 1], prog[n + 1 - k], c)
      <3>1. \A k \in 0 .. n : k = 0 \/ k \in 1 .. n
        OBVIOUS
      <3> QED
        BY <1>4, <1>5, <3>1
    <2> QED
      BY <1>4, <2>1
  <1>7. PICK g : g = CHOOSE h : Runs(h)
    OBVIOUS
  <1>8. Runs(g)
    BY <1>6, <1>7
  <1>9. ReverseN(s, prog, c) = g[n]
    BY <1>1, <1>7 DEF ReverseN
  <1>10. g[0] = Go(s) /\ DOMAIN g = 0 .. n
    BY <1>8
  <1>11. ASSUME NEW k \in 1 .. n PROVE g[k] = BackLeaf(g[k - 1], prog[n + 1 - k], c)
    BY <1>8
  <1> HIDE DEF Runs
  <1>12. \A k \in 0 .. n : g[k] \in S
    <2> DEFINE P == {k \in 0 .. n : g[k] \in S}
    <2>1. 0 \in P
      BY <1>2, <1>10
    <2>2. ASSUME NEW k \in 1 .. n, k - 1 \in P PROVE k \in P
      BY <1>1, <1>11, <2>2, BackTyped DEF S
    <2> HIDE DEF P
    <2>3. \A k \in 0 .. n : k \in P
      BY <2>1, <2>2, UpTo
    <2> QED
      BY <2>3 DEF P
  <1>13. g \in [0 .. n -> S]
    <2>1. g = [k \in 0 .. n |-> g[k]]
      BY <1>8 DEF Runs
    <2> QED
      BY <1>12, <2>1
  <1>14. Undone(g, s, prog, n, c)
    BY <1>1, <1>10, <1>11 DEF Undone
  <1> QED
    BY <1>1, <1>9, <1>13, <1>14 DEF S

(* In a run that was not ended early every leaf was in range.                 *)
WentThrough(f, R, A, n) ==
  \A k \in 0 .. n : f[k].out = "ok" /\ f[k].done = k /\ f[k].s \in Shape(R, A)
Stepwise(f, prog, n) ==
  \A k \in 1 .. n : CanRun(f[k - 1].s, prog[k]) /\ f[k].s = Exec(f[k - 1].s, prog[k])

LEMMA ForthOk ==
  ASSUME NEW R, NEW A, NEW n \in Nat, NEW prog, NEW s, NEW f \in [0 .. n -> Res(R, A)],
         Forth(f, s, prog, n), f[n].out = "ok"
  PROVE  WentThrough(f, R, A, n) /\ Stepwise(f, prog, n)
  <1>1. f[0] = Go(s) /\ \A k \in 1 .. n : f[k] = ForwardLeaf(f[k - 1], prog[k])
    BY DEF Forth
  <1>2. \A k \in 0 .. n : f[k] \in Res(R, A)
    OBVIOUS
  <1>3. \A k \in 0 .. n : f[k].out = "ok"
    <2> DEFINE P == {j \in 0 .. n : f[n - j].out = "ok"}
    <2>1. 0 \in P
      OBVIOUS
    <2>2. ASSUME NEW j \in 1 .. n, j - 1 \in P PROVE j \in P
      <3>1. n - (j - 1) \in 1 .. n /\ n - (j - 1) - 1 = n - j
        OBVIOUS
      <3>2. f[n - (j - 1)] = ForwardLeaf(f[n - j], prog[n - (j - 1)])
        BY <1>1, <3>1
      <3>3. f[n - (j - 1)].out = "ok"
        BY <2>2
      <3> QED
        BY <3>2, <3>3 DEF ForwardLeaf
    <2>3. \A j \in 1 .. n : j - 1 \in P => j \in P
      BY <2>2
    <2> HIDE DEF P
    <2>4. \A j \in 0 .. n : j \in P
      BY <2>1, <2>3, UpTo
    <2>5. \A j \in 0 .. n : f[n - j].out = "ok"
      BY <2>4 DEF P
    <2>6. \A k \in 0 .. n : n - k \in 0 .. n /\ n - (n - k) = k
      OBVIOUS
    <2> QED
      BY <2>5, <2>6
  <1>4. ASSUME NEW k \in 1 .. n
        PROVE  /\ CanRun(f[k - 1].s, prog[k]) /\ f[k].s = Exec(f[k - 1].s, prog[k])
               /\ f[k].done = f[k - 1].done + 1
    <2>1. k - 1 \in 0 .. n /\ k \in 0 .. n
      OBVIOUS
    <2>2. f[k - 1].out = "ok" /\ f[k].out = "ok" /\ f[k] = ForwardLeaf(f[k - 1], prog[k])
      BY <1>1, <1>3, <2>1
    <2>3. CanRun(f[k - 1].s, prog[k])
      <3>1. SUFFICES ASSUME ~CanRun(f[k - 1].s, prog[k]) PROVE FALSE
        OBVIOUS
      <3>2. f[k] = [f[k - 1] EXCEPT !.out = "fault"]
        BY <2>2, <3>1 DEF ForwardLeaf
      <3>3. f[k - 1] \in Res(R, A)
        BY <1>2, <2>1
      <3>4. f[k].out = "fault"
        BY <3>2, <3>3 DEF Res
      <3> QED
        BY <2>2, <3>4
    <2> QED
      BY <2>2, <2>3 DEF ForwardLeaf
  <1>5. \A k \in 0 .. n : f[k].done = k
    <2> DEFINE P == {k \in 0 .. n : f[k].done = k}
    <2>1. 0 \in P
      BY <1>1 DEF Go
    <2>2. \A k \in 1 .. n : k - 1 \in P => k \in P
      BY <1>4
    <2> HIDE DEF P
    <2>3. \A k \in 0 .. n : k \in P
      BY <2>1, <2>2, UpTo
    <2> QED
      BY <2>3 DEF P
  <1>6. \A k \in 0 .. n : f[k].s \in Shape(R, A)
    BY <1>2 DEF Res
  <1>7. WentThrough(f, R, A, n)
    BY <1>3, <1>5, <1>6 DEF WentThrough
  <1>8. Stepwise(f, prog, n)
    BY <1>4 DEF Stepwise
  <1> QED
    BY <1>7, <1>8

(* The greatest number of a set below a bound. *)
LEMMA GreatestOf ==
  ASSUME NEW n \in Nat, NEW T, T \subseteq 1 .. n, T # {}
  PROVE  \E m \in T : \A k \in T : k <= m
  <1> DEFINE D == {n - k : k \in T}
  <1>1. D \subseteq Nat /\ D # {}
    <2>1. \A k \in T : n - k \in Nat
      OBVIOUS
    <2>2. PICK k \in T : TRUE
      OBVIOUS
    <2>3. n - k \in D
      BY <2>2
    <2> QED
      BY <2>1, <2>3
  <1>2. PICK d \in D : \A e \in D : d <= e
    BY <1>1, LeastNat
  <1>3. PICK m \in T : d = n - m
    BY <1>2
  <1>4. ASSUME NEW k \in T PROVE k <= m
    <2>1. n - m <= n - k
      BY <1>2, <1>3
    <2> QED
      BY <2>1
  <1> QED
    BY <1>4

(* The leaves behind the last one that has no inverse. *)
LEMMA SuffixIs ==
  ASSUME NEW prog \in Seq(Inst), NEW n \in Nat, n = Len(prog)
  PROVE  /\ SuffixLen(prog) \in 0 .. n
         /\ \A k \in 1 .. n : n - k < SuffixLen(prog) => Invertible(prog[k])
         /\ SuffixLen(prog) < n => ~Invertible(prog[n - SuffixLen(prog)])
  <1> DEFINE last == {k \in DOMAIN prog : ~Invertible(prog[k])}
             top  == CHOOSE k \in last : \A j \in last : j <= k
  <1>1. DOMAIN prog = 1 .. n
    OBVIOUS
  <1>2. SuffixLen(prog) = IF last = {} THEN n ELSE n - top
    BY DEF SuffixLen
  <1>3. last \subseteq 1 .. n
    BY <1>1
  <1>4. CASE last = {}
    BY <1>1, <1>2, <1>4
  <1>5. CASE last # {}
    <2>1. \E k \in last : \A j \in last : j <= k
      <3> HIDE DEF last
      <3> QED
        BY <1>3, <1>5, GreatestOf
    <2>2. top \in last /\ \A j \in last : j <= top
      BY <2>1
    <2>3. top \in 1 .. n /\ ~Invertible(prog[top])
      BY <1>3, <2>2
    <2>4. \A k \in 1 .. n : k > top => Invertible(prog[k])
      BY <1>1, <2>2, <2>3
    <2> HIDE DEF top, last
    <2>5. SuffixLen(prog) = n - top
      BY <1>2, <1>5
    <2>6. PICK t \in 1 .. n : t = top
      BY <2>3
    <2>7. n - (n - t) = t /\ \A k \in 1 .. n : n - k < n - t => k > t
      OBVIOUS
    <2> QED
      BY <2>3, <2>4, <2>5, <2>6, <2>7
  <1> QED
    BY <1>4, <1>5

(* The last m of n leaves have an inverse; the one before them has none, or    *)
(* there are c of them.                                                      *)
Backable(prog, n, m) ==
  \A k \in 1 .. n : prog[k] \in Inst /\ (n - k < m => Invertible(prog[k]))
Ending(prog, n, m, c) == m < n => m >= c \/ ~Invertible(prog[n - m])

Retraced(b, f, n, m) ==
  \A k \in 0 .. m : b[k] = [s |-> f[n - k].s, done |-> k, out |-> "ok"]

(* As long as leaves have an inverse, a reversal goes back through the states *)
(* the run came through.                                                     *)
LEMMA Unwinds ==
  ASSUME NEW R, NEW A, NEW n \in Nat, NEW prog, NEW s, NEW f \in [0 .. n -> Res(R, A)],
         NEW c \in Nat, NEW b, NEW m \in 0 .. n, m <= c, Backable(prog, n, m),
         Forth(f, s, prog, n), f[n].out = "ok", Undone(b, f[n].s, prog, n, c)
  PROVE  Retraced(b, f, n, m)
  <1> DEFINE P == {k \in 0 .. m : b[k] = [s |-> f[n - k].s, done |-> k, out |-> "ok"]}
  <1>1. b[0] = Go(f[n].s) /\ \A k \in 1 .. n : b[k] = BackLeaf(b[k - 1], prog[n + 1 - k], c)
    BY DEF Undone
  <1>2. /\ \A k \in 0 .. n : f[k].out = "ok" /\ f[k].done = k /\ f[k].s \in Shape(R, A)
        /\ \A k \in 1 .. n : CanRun(f[k - 1].s, prog[k]) /\ f[k].s = Exec(f[k - 1].s, prog[k])
    <2>1. WentThrough(f, R, A, n) /\ Stepwise(f, prog, n)
      BY ForthOk
    <2> QED
      BY <2>1 DEF WentThrough, Stepwise
  <1>3. 0 \in P
    <2>1. n - 0 = n /\ 0 \in 0 .. m
      OBVIOUS
    <2> QED
      BY <1>1, <2>1 DEF Go
  <1>4. ASSUME NEW k \in 1 .. m, k - 1 \in P PROVE k \in P
    <2>1. PICK j \in 1 .. n : j = n + 1 - k /\ j - 1 = n - k /\ n - (k - 1) = j /\ n - j < m
      OBVIOUS
    <2>2. PICK x \in Shape(R, A) : x = f[j - 1].s
      <3>1. j - 1 \in 0 .. n
        OBVIOUS
      <3> QED
        BY <1>2, <3>1
    <2>3. PICK i \in Inst : i = prog[j] /\ Invertible(i)
      BY <2>1 DEF Backable
    <2>4. CanRun(x, i) /\ f[j].s = Exec(x, i)
      BY <1>2, <2>2, <2>3
    <2>5. Fits(R, A, x, i) /\ Exec(x, i) \in Shape(R, A)
      BY <2>4, CanRunFits, ShapeState
    <2>6. /\ Inverse(i) \in Inst /\ CanRun(Exec(x, i), Inverse(i))
          /\ Exec(Exec(x, i), Inverse(i)) = x
      BY <2>3, <2>5, ShapeCancel, CanRunFits
    <2>7. b[k - 1] = [s |-> Exec(x, i), done |-> k - 1, out |-> "ok"]
      BY <1>4, <2>1, <2>4
    <2>8. b[k] = BackLeaf(b[k - 1], i, c)
      <3>1. k \in 1 .. n
        OBVIOUS
      <3> QED
        BY <1>1, <2>1, <2>3, <3>1
    <2>9. ~(k - 1 >= c) /\ k - 1 + 1 = k
      OBVIOUS
    <2>10. b[k] = [s |-> x, done |-> k - 1 + 1, out |-> "ok"]
      BY <2>3, <2>6, <2>7, <2>8, <2>9 DEF BackLeaf
    <2>11. b[k] = [s |-> f[n - k].s, done |-> k, out |-> "ok"]
      BY <2>1, <2>2, <2>9, <2>10
    <2> QED
      BY <2>11
  <1>5. \A k \in 1 .. m : k - 1 \in P => k \in P
    BY <1>4
  <1> HIDE DEF P
  <1>6. \A k \in 0 .. m : k \in P
    <2>1. m \in Nat
      OBVIOUS
    <2> QED
      BY <2>1, <1>3, <1>5, UpTo
  <1>7. \A k \in 0 .. m : b[k] = [s |-> f[n - k].s, done |-> k, out |-> "ok"]
    BY <1>6 DEF P
  <1> QED
    BY <1>7, Zenon DEF Retraced

(* At the bound, or at a leaf that has none, it stops where it is. *)
LEMMA StopsThere ==
  ASSUME NEW n \in Nat, NEW prog, NEW t, NEW c \in Nat, NEW b, NEW m \in 0 .. n, NEW x,
         Undone(b, t, prog, n, c), Ending(prog, n, m, c),
         b[m] = [s |-> x, done |-> m, out |-> "ok"]
  PROVE  b[n] = [s |-> x, done |-> m, out |-> IF m = n THEN "ok" ELSE "stop"]
  <1>1. CASE m = n
    BY <1>1
  <1>2. CASE m # n
    <2> DEFINE P == {k \in 0 .. n - m - 1 : b[m + 1 + k] = [s |-> x, done |-> m, out |-> "stop"]}
    <2>1. \A k \in 1 .. n : b[k] = BackLeaf(b[k - 1], prog[n + 1 - k], c)
      BY DEF Undone
    <2>2. 0 \in P
      <3>1. m + 1 \in 1 .. n /\ m + 1 - 1 = m /\ n + 1 - (m + 1) = n - m /\ m + 1 + 0 = m + 1
            /\ 0 \in 0 .. n - m - 1 /\ m < n
        BY <1>2
      <3>2. b[m + 1] = BackLeaf(b[m], prog[n - m], c)
        BY <2>1, <3>1
      <3>3. b[m + 1] = [b[m] EXCEPT !.out = "stop"]
        BY <3>1, <3>2 DEF BackLeaf, Ending
      <3>4. b[m + 1] = [s |-> x, done |-> m, out |-> "stop"]
        BY <3>3
      <3> QED
        BY <3>1, <3>4
    <2>3. ASSUME NEW k \in 1 .. n - m - 1, k - 1 \in P PROVE k \in P
      <3>1. m + 1 + k \in 1 .. n /\ m + 1 + k - 1 = m + 1 + (k - 1)
        OBVIOUS
      <3>2. b[m + 1 + k] = BackLeaf(b[m + 1 + (k - 1)], prog[n + 1 - (m + 1 + k)], c)
        BY <2>1, <3>1
      <3>3. b[m + 1 + k] = b[m + 1 + (k - 1)]
        BY <2>3, <3>2 DEF BackLeaf
      <3> QED
        BY <2>3, <3>3
    <2>4. \A k \in 1 .. n - m - 1 : k - 1 \in P => k \in P
      BY <2>3
    <2>5. n - m - 1 \in Nat
      BY <1>2
    <2> HIDE DEF P
    <2>6. \A k \in 0 .. n - m - 1 : k \in P
      BY <2>2, <2>4, <2>5, UpTo
    <2>7. n - m - 1 \in P /\ m + 1 + (n - m - 1) = n
      BY <2>5, <2>6
    <2> QED
      BY <1>2, <2>7 DEF P
  <1> QED
    BY <1>1, <1>2

(* Two runs over programs that begin alike are alike that far. *)
BeginAlike(prog, others, p) == \A k \in 1 .. p : prog[k] = others[k]

LEMMA SameStart ==
  ASSUME NEW p \in Nat, NEW s, NEW prog, NEW others, BeginAlike(prog, others, p),
         NEW f, Forth(f, s, prog, p), NEW g, Forth(g, s, others, p)
  PROVE  f[p] = g[p]
  <1> DEFINE P == {k \in 0 .. p : f[k] = g[k]}
  <1>1. 0 \in P
    BY DEF Forth
  <1>2. ASSUME NEW k \in 1 .. p, k - 1 \in P PROVE k \in P
    BY <1>2 DEF Forth, BeginAlike
  <1>3. \A k \in 1 .. p : k - 1 \in P => k \in P
    BY <1>2
  <1> HIDE DEF P
  <1>4. \A k \in 0 .. p : k \in P
    BY <1>1, <1>3, UpTo
  <1> QED
    BY <1>4 DEF P

(* What a run is on the way is the run of the beginning of the program. *)
LEMMA RunOfStart ==
  ASSUME NEW R, NEW A, NEW s \in Shape(R, A), NEW prog \in Seq(Inst),
         NEW n \in Nat, n = Len(prog), NEW f, Forth(f, s, prog, n), NEW p \in 0 .. n
  PROVE  RunForward(s, SubSeq(prog, 1, p)) = f[p]
  <1>1. PICK begin : begin = SubSeq(prog, 1, p)
    OBVIOUS
  <1>2. begin \in Seq(Inst) /\ Len(begin) = p /\ \A k \in 1 .. p : begin[k] = prog[k]
    BY <1>1
  <1>3. PICK g : Forth(g, s, begin, p) /\ RunForward(s, begin) = g[p]
    BY <1>2, RunIsForth
  <1>5. Forth(f, s, prog, p)
    BY DEF Forth
  <1>6. f[p] = g[p]
    <2>1. BeginAlike(prog, begin, p)
      BY <1>2 DEF BeginAlike
    <2> QED
      BY <1>3, <1>5, <2>1, SameStart
  <1> QED
    BY <1>1, <1>3, <1>6

(* A reversal by at most c leaves, after a run that reached its end, takes    *)
(* back as many as have an inverse, and the machine is as it was before      *)
(* them: after the run of what is left of the program.                       *)
GoesBack(s, prog, c) ==
  LET z    == RunForward(s, prog)
      d    == Least(c, SuffixLen(prog))
      left == RunForward(s, SubSeq(prog, 1, Len(prog) - d))
      back == ReverseN(z.s, prog, c)
  IN  /\ d \in 0 .. Len(prog) /\ back.done = d
      /\ back.out = IF d = Len(prog) THEN "ok" ELSE "stop"
      /\ left.out = "ok" /\ back.s = left.s

THEOREM ReverseGoesBack ==
  ASSUME NEW R, NEW A, NEW s \in Shape(R, A), NEW prog \in Seq(Inst), NEW c \in Nat,
         RunForward(s, prog).out = "ok"
  PROVE  GoesBack(s, prog, c)
  <1>a. PICK n \in Nat : n = Len(prog)
    OBVIOUS
  <1>1. PICK f \in [0 .. n -> Res(R, A)] :
          n = Len(prog) /\ Forth(f, s, prog, n) /\ RunForward(s, prog) = f[n]
    BY <1>a, RunIsForth
  <1>2. PICK t \in Shape(R, A) : t = f[n].s
    BY DEF Res
  <1>3. PICK b : Undone(b, t, prog, n, c) /\ ReverseN(t, prog, c) = b[n]
    BY <1>1, <1>2, ReverseIsUndone
  <1>4. /\ SuffixLen(prog) \in 0 .. n
        /\ \A k \in 1 .. n : n - k < SuffixLen(prog) => Invertible(prog[k])
        /\ SuffixLen(prog) < n => ~Invertible(prog[n - SuffixLen(prog)])
    BY <1>1, SuffixIs
  <1>5. PICK l \in 0 .. n : l = SuffixLen(prog)
    BY <1>4
  <1>6. PICK m \in 0 .. n : m = Least(c, l) /\ m <= c /\ m <= l /\ (m = c \/ m = l)
    BY DEF Least
  <1>7. Backable(prog, n, m) /\ Ending(prog, n, m, c)
    <2>1. \A k \in 1 .. n : prog[k] \in Inst
      BY <1>1
    <2>2. \A k \in 1 .. n : n - k < m => n - k < l
      BY <1>6
    <2>3. m = c => m >= c
      OBVIOUS
    <2> QED
      BY <1>4, <1>5, <1>6, <2>1, <2>2, <2>3 DEF Backable, Ending
  <1>8. b[m] = [s |-> f[n - m].s, done |-> m, out |-> "ok"]
    <2>1. Retraced(b, f, n, m)
      <3>1. f[n].out = "ok" /\ Undone(b, f[n].s, prog, n, c) /\ m <= c
        BY <1>1, <1>2, <1>3, <1>6
      <3> QED
        BY <1>1, <1>7, <3>1, Unwinds
    <2>2. m \in 0 .. m
      OBVIOUS
    <2> QED
      BY <2>1, <2>2 DEF Retraced
  <1>9. b[n] = [s |-> f[n - m].s, done |-> m, out |-> IF m = n THEN "ok" ELSE "stop"]
    <2>1. PICK x : x = f[n - m].s
      OBVIOUS
    <2>2. b[m] = [s |-> x, done |-> m, out |-> "ok"]
      BY <1>8, <2>1
    <2>3. b[n] = [s |-> x, done |-> m, out |-> IF m = n THEN "ok" ELSE "stop"]
      BY <1>3, <1>7, <2>2, StopsThere
    <2> QED
      BY <2>1, <2>3
  <1>10. PICK p \in 0 .. n : p = n - m
    OBVIOUS
  <1>11. RunForward(s, SubSeq(prog, 1, p)) = f[p]
    BY <1>1, RunOfStart
  <1>12. f[p].out = "ok"
    <2>1. WentThrough(f, R, A, n)
      BY <1>1, ForthOk
    <2> QED
      BY <2>1 DEF WentThrough
  <1> QED
    BY <1>1, <1>2, <1>3, <1>5, <1>6, <1>9, <1>10, <1>11, <1>12 DEF GoesBack

(* Every step of a reversal took a leaf back. *)
TookBack(b, prog, n) ==
  \A k \in 1 .. n : /\ CanRun(b[k - 1].s, Inverse(prog[n + 1 - k]))
                   /\ b[k].s = Exec(b[k - 1].s, Inverse(prog[n + 1 - k]))

(* A reversal that ends neither early nor out of range has taken every leaf    *)
(* back.                                                                     *)
LEMMA UndoneOk ==
  ASSUME NEW R, NEW A, NEW n \in Nat, NEW prog, NEW s, NEW b \in [0 .. n -> Res(R, A)],
         NEW c \in Nat, Undone(b, s, prog, n, c), b[n].out = "ok"
  PROVE  /\ \A k \in 0 .. n : b[k].out = "ok" /\ b[k].done = k /\ b[k].s \in Shape(R, A)
         /\ TookBack(b, prog, n)
  <1>1. b[0] = Go(s) /\ \A k \in 1 .. n : b[k] = BackLeaf(b[k - 1], prog[n + 1 - k], c)
    BY DEF Undone
  <1>2. \A k \in 0 .. n : b[k] \in Res(R, A)
    OBVIOUS
  <1>3. \A k \in 0 .. n : b[k].out = "ok"
    <2> DEFINE P == {j \in 0 .. n : b[n - j].out = "ok"}
    <2>1. 0 \in P
      OBVIOUS
    <2>2. ASSUME NEW j \in 1 .. n, j - 1 \in P PROVE j \in P
      <3>1. n - (j - 1) \in 1 .. n /\ n - (j - 1) - 1 = n - j
        OBVIOUS
      <3>2. b[n - (j - 1)] = BackLeaf(b[n - j], prog[n + 1 - (n - (j - 1))], c)
        BY <1>1, <3>1
      <3>3. b[n - (j - 1)].out = "ok"
        BY <2>2
      <3>4. PICK r, l : r = b[n - j] /\ b[n - (j - 1)] = BackLeaf(r, l, c)
        BY <3>2
      <3>5. r.out # "ok" => BackLeaf(r, l, c) = r
        BY DEF BackLeaf
      <3>6. r.out = "ok"
        BY <3>3, <3>4, <3>5
      <3> QED
        BY <3>4, <3>6
    <2>3. \A j \in 1 .. n : j - 1 \in P => j \in P
      BY <2>2
    <2> HIDE DEF P
    <2>4. \A j \in 0 .. n : j \in P
      BY <2>1, <2>3, UpTo
    <2>5. \A j \in 0 .. n : b[n - j].out = "ok"
      BY <2>4 DEF P
    <2>6. \A k \in 0 .. n : n - k \in 0 .. n /\ n - (n - k) = k
      OBVIOUS
    <2> QED
      BY <2>5, <2>6
  <1>4. ASSUME NEW k \in 1 .. n
        PROVE  /\ CanRun(b[k - 1].s, Inverse(prog[n + 1 - k]))
               /\ b[k].s = Exec(b[k - 1].s, Inverse(prog[n + 1 - k]))
               /\ b[k].done = b[k - 1].done + 1
    <2>1. k - 1 \in 0 .. n /\ k \in 0 .. n
      OBVIOUS
    <2>2. PICK i : i = prog[n + 1 - k]
      OBVIOUS
    <2>3. PICK r \in Res(R, A) : r = b[k - 1]
      BY <1>2, <2>1
    <2>4. r.out = "ok" /\ b[k].out = "ok" /\ b[k] = BackLeaf(r, i, c)
      BY <1>1, <1>3, <2>1, <2>2, <2>3
    <2>5. [r EXCEPT !.out = "stop"].out = "stop" /\ [r EXCEPT !.out = "fault"].out = "fault"
      BY DEF Res
    <2>6. ~(r.done >= c \/ ~Invertible(i)) /\ CanRun(r.s, Inverse(i))
      BY <2>4, <2>5 DEF BackLeaf
    <2> QED
      BY <2>2, <2>3, <2>4, <2>6 DEF BackLeaf
  <1>5. \A k \in 0 .. n : b[k].done = k
    <2> DEFINE P == {k \in 0 .. n : b[k].done = k}
    <2>1. 0 \in P
      BY <1>1 DEF Go
    <2>2. \A k \in 1 .. n : k - 1 \in P => k \in P
      BY <1>4
    <2> HIDE DEF P
    <2>3. \A k \in 0 .. n : k \in P
      BY <2>1, <2>2, UpTo
    <2> QED
      BY <2>3 DEF P
  <1> QED
    BY <1>2, <1>3, <1>4, <1>5 DEF Res, TookBack

(* A reversal of n leaves that all have an inverse does not end early. *)
LEMMA NeverStops ==
  ASSUME NEW R, NEW A, NEW n \in Nat, NEW prog, NEW s, NEW b \in [0 .. n -> Res(R, A)],
         Undone(b, s, prog, n, n), \A k \in 1 .. n : Invertible(prog[k])
  PROVE  b[n].out \in {"ok", "fault"}
  <1> DEFINE P == {k \in 0 .. n : b[k].out = "fault" \/ (b[k].out = "ok" /\ b[k].done = k)}
  <1>1. b[0] = Go(s) /\ \A k \in 1 .. n : b[k] = BackLeaf(b[k - 1], prog[n + 1 - k], n)
    BY DEF Undone
  <1>2. 0 \in P
    BY <1>1 DEF Go
  <1>3. ASSUME NEW k \in 1 .. n, k - 1 \in P PROVE k \in P
    <2>1. PICK j \in 1 .. n : j = n + 1 - k
      OBVIOUS
    <2>2. PICK r \in Res(R, A) : r = b[k - 1]
      <3>1. k - 1 \in 0 .. n
        OBVIOUS
      <3> QED
        BY <3>1
    <2>3. b[k] = BackLeaf(r, prog[j], n) /\ Invertible(prog[j])
      BY <1>1, <2>1, <2>2
    <2>4. r.out = "fault" \/ (r.out = "ok" /\ r.done = k - 1 /\ ~(r.done >= n) /\ r.done + 1 = k)
      BY <1>3, <2>2
    <2>5. [r EXCEPT !.out = "fault"].out = "fault"
      BY DEF Res
    <2>6. b[k].out = "fault" \/ (b[k].out = "ok" /\ b[k].done = k)
      BY <2>3, <2>4, <2>5 DEF BackLeaf
    <2> QED
      BY <2>6
  <1>4. \A k \in 1 .. n : k - 1 \in P => k \in P
    BY <1>3
  <1> HIDE DEF P
  <1>5. \A k \in 0 .. n : k \in P
    BY <1>2, <1>4, UpTo
  <1> QED
    BY <1>5 DEF P

AllInvertible(prog) == \A k \in DOMAIN prog : Invertible(prog[k])

(* Running forward undoes running backward: a program whose leaves all have an *)
(* inverse, run backward without leaving the machine, comes back to where it *)
(* started.                                                                  *)
THEOREM RunUndoesReverse ==
  ASSUME NEW R, NEW A, NEW s \in Shape(R, A), NEW prog \in Seq(Inst),
         AllInvertible(prog), ReverseAll(s, prog).out # "fault"
  PROVE  /\ ReverseAll(s, prog).out = "ok" /\ ReverseAll(s, prog).done = Len(prog)
         /\ RunForward(ReverseAll(s, prog).s, prog)
              = [s |-> s, done |-> Len(prog), out |-> "ok"]
  <1>1. PICK n \in Nat : n = Len(prog)
    OBVIOUS
  <1>2. PICK b \in [0 .. n -> Res(R, A)] :
          Undone(b, s, prog, n, n) /\ ReverseAll(s, prog) = b[n]
    BY <1>1, ReverseIsUndone DEF ReverseAll
  <1>3. \A k \in 1 .. n : prog[k] \in Inst /\ Invertible(prog[k])
    BY <1>1 DEF AllInvertible
  <1>4. b[n].out = "ok"
    BY <1>2, <1>3, NeverStops
  <1>5. /\ \A k \in 0 .. n : b[k].out = "ok" /\ b[k].done = k /\ b[k].s \in Shape(R, A)
        /\ TookBack(b, prog, n)
    BY <1>2, <1>4, UndoneOk
  <1>6. PICK t \in Shape(R, A) : t = b[n].s
    BY <1>5
  <1>7. PICK f : Forth(f, t, prog, n) /\ RunForward(t, prog) = f[n]
    BY <1>1, RunIsForth
  <1> DEFINE P == {k \in 0 .. n : f[k] = [s |-> b[n - k].s, done |-> k, out |-> "ok"]}
  <1>8. 0 \in P
    BY <1>6, <1>7 DEF Forth, Go
  <1>9. ASSUME NEW k \in 1 .. n, k - 1 \in P PROVE k \in P
    <2>1. PICK j \in 1 .. n : j = n + 1 - k /\ n + 1 - j = k /\ n - (k - 1) = j /\ n - k = j - 1
      OBVIOUS
    <2>2. PICK i \in Inst : i = prog[k] /\ Invertible(i)
      BY <1>3
    <2>3. PICK x \in Shape(R, A) : x = b[j - 1].s
      <3>1. j - 1 \in 0 .. n
        OBVIOUS
      <3> QED
        BY <1>5, <3>1
    <2>4. CanRun(x, Inverse(i)) /\ b[j].s = Exec(x, Inverse(i))
      BY <1>5, <2>1, <2>2, <2>3 DEF TookBack
    <2>5. Inverse(i) \in Inst /\ Invertible(Inverse(i)) /\ Inverse(Inverse(i)) = i
      BY <2>2, InverseInst, InverseTwice
    <2>6. PICK y : y = Exec(x, Inverse(i))
      OBVIOUS
    <2>7. CanRun(y, i) /\ Exec(y, i) = x
      <3>1. Fits(R, A, x, Inverse(i))
        BY <2>4, CanRunFits
      <3>2. Fits(R, A, y, i) /\ Exec(y, i) = x
        BY <2>5, <2>6, <3>1, ShapeCancel
      <3>3. y \in Shape(R, A)
        BY <2>5, <2>6, <3>1, ShapeState
      <3> QED
        BY <3>2, <3>3, CanRunFits
    <2>8. f[k - 1] = [s |-> y, done |-> k - 1, out |-> "ok"]
      BY <1>9, <2>1, <2>4, <2>6
    <2>9. f[k] = ForwardLeaf(f[k - 1], i)
      BY <1>7, <2>2 DEF Forth
    <2>10. k - 1 + 1 = k
      OBVIOUS
    <2>11. f[k] = [s |-> x, done |-> k - 1 + 1, out |-> "ok"]
      BY <2>7, <2>8, <2>9 DEF ForwardLeaf
    <2>12. f[k] = [s |-> b[n - k].s, done |-> k, out |-> "ok"]
      BY <2>1, <2>3, <2>10, <2>11
    <2> QED
      BY <2>12
  <1>10. \A k \in 1 .. n : k - 1 \in P => k \in P
    BY <1>9
  <1> HIDE DEF P
  <1>11. \A k \in 0 .. n : k \in P
    BY <1>8, <1>10, UpTo
  <1>12. f[n] = [s |-> s, done |-> n, out |-> "ok"]
    <2>1. f[n] = [s |-> b[n - n].s, done |-> n, out |-> "ok"]
      BY <1>11 DEF P
    <2>2. n - n = 0 /\ b[0].s = s
      BY <1>2 DEF Undone, Go
    <2> QED
      BY <2>1, <2>2
  <1> QED
    BY <1>1, <1>2, <1>4, <1>5, <1>6, <1>7, <1>12

(* A run forward ends at its end or out of range. *)
LEMMA RunEnds ==
  ASSUME NEW R, NEW A, NEW s \in Shape(R, A), NEW prog \in Seq(Inst)
  PROVE  RunForward(s, prog) \in Res(R, A) /\ RunForward(s, prog).out \in {"ok", "fault"}
  <1>1. PICK n \in Nat : n = Len(prog)
    OBVIOUS
  <1>2. PICK f \in [0 .. n -> Res(R, A)] : Forth(f, s, prog, n) /\ RunForward(s, prog) = f[n]
    BY <1>1, RunIsForth
  <1> DEFINE P == {k \in 0 .. n : f[k].out \in {"ok", "fault"}}
  <1>3. 0 \in P
    BY <1>2 DEF Forth, Go
  <1>4. ASSUME NEW k \in 1 .. n, k - 1 \in P PROVE k \in P
    <2>1. k - 1 \in 0 .. n
      OBVIOUS
    <2>2. PICK r \in Res(R, A) : r = f[k - 1]
      BY <2>1
    <2>3. f[k] = ForwardLeaf(r, prog[k]) /\ r.out \in {"ok", "fault"}
      BY <1>2, <1>4, <2>2 DEF Forth
    <2>4. [r EXCEPT !.out = "fault"].out = "fault"
      BY DEF Res
    <2>5. f[k].out \in {"ok", "fault"}
      BY <2>3, <2>4 DEF ForwardLeaf
    <2> QED
      BY <2>5
  <1>5. \A k \in 1 .. n : k - 1 \in P => k \in P
    BY <1>4
  <1> HIDE DEF P
  <1>6. n \in P
    <2>1. \A k \in 0 .. n : k \in P
      BY <1>3, <1>5, UpTo
    <2> QED
      BY <2>1
  <1> QED
    BY <1>2, <1>6 DEF P

(* Running backward undoes running forward. *)
THEOREM ReverseUndoesRun ==
  ASSUME NEW R, NEW A, NEW s \in Shape(R, A), NEW prog \in Seq(Inst),
         AllInvertible(prog), RunForward(s, prog).out = "ok"
  PROVE  ReverseAll(RunForward(s, prog).s, prog).out = "ok"
         /\ ReverseAll(RunForward(s, prog).s, prog).done = Len(prog)
         /\ ReverseAll(RunForward(s, prog).s, prog).s = s
  <1>1. PICK n \in Nat : n = Len(prog)
    OBVIOUS
  <1>2. SuffixLen(prog) = n
    <2>1. /\ SuffixLen(prog) \in 0 .. n
          /\ SuffixLen(prog) < n => ~Invertible(prog[n - SuffixLen(prog)])
      BY <1>1, SuffixIs
    <2>2. PICK l \in 0 .. n : l = SuffixLen(prog)
      BY <2>1
    <2>3. ASSUME l < n PROVE FALSE
      <3>1. n - l \in 1 .. n
        BY <2>3
      <3>2. Invertible(prog[n - l])
        BY <1>1, <3>1 DEF AllInvertible
      <3> QED
        BY <2>1, <2>2, <2>3, <3>2
    <2> QED
      BY <2>2, <2>3
  <1>3. Least(n, n) = n /\ n - n = 0
    BY DEF Least
  <1>4. PICK z : z = RunForward(s, prog) /\ z.out = "ok"
    OBVIOUS
  <1>5. PICK back : back = ReverseN(z.s, prog, n)
    OBVIOUS
  <1>7. /\ back.done = n /\ back.out = "ok"
        /\ back.s = RunForward(s, SubSeq(prog, 1, 0)).s
    <2>1. GoesBack(s, prog, n)
      BY ReverseGoesBack
    <2>2. Least(n, SuffixLen(prog)) = n
      BY <1>2, <1>3
    <2> QED
      BY <1>1, <1>3, <1>4, <1>5, <2>1, <2>2 DEF GoesBack
  <1>6. RunForward(s, SubSeq(prog, 1, 0)).s = s
    <2>1. PICK f : Forth(f, s, prog, n)
      BY <1>1, RunIsForth
    <2>2. 0 \in 0 .. n
      OBVIOUS
    <2>3. RunForward(s, SubSeq(prog, 1, 0)) = f[0]
      BY <1>1, <2>1, <2>2, RunOfStart
    <2> QED
      BY <2>1, <2>3 DEF Forth, Go
  <1> QED
    BY <1>1, <1>4, <1>5, <1>6, <1>7 DEF ReverseAll

-----------------------------------------------------------------------------
(* The commands of phase-vm. *)

(* What a command keeps: its arguments are of their kinds, the state is of the *)
(* machine's size, and there is no answer before the program was performed.  *)
CliTyped ==
  /\ c_at \in {"set", "perform", "ended"}
  /\ command \in {"run", "runrev", "rev", "roundtrip"}
  /\ leaves \in Seq(Inst)
  /\ sets \in Seq(Setting)
  /\ steps \in Nat
  /\ trials \in Nat /\ trial \in 0 .. trials /\ overflows \in BOOLEAN
  /\ start \in State
  /\ c_at # "ended" => result = Pending

(* roundtrip draws a state for a reversible program only, and while there are  *)
(* trials left.                                                              *)
Drawn == command = "roundtrip" /\ c_at = "perform" => Reversible /\ trial < trials

CliInv == CliTyped /\ Drawn /\ CommandsExact

LEMMA BlankState == Blank \in State
  BY ModulusFacts DEF Blank, State, Word

LEMMA CliStarts == CliStart(TRUE) => CliInv
  <1> SUFFICES ASSUME CliStart(TRUE) PROVE CliInv
    OBVIOUS
  <1> USE CommandAssumption
  <1>1. command \in {"run", "runrev", "rev", "roundtrip"} /\ leaves \in Seq(Inst)
    BY DEF CliStart, Among
  <1>2. sets \in SetArgs /\ steps \in Steps
    BY DEF CliStart, Among
  <1>a. trials \in Trials /\ overflows \in BOOLEAN
    BY DEF CliStart, Among
  <1>b. trials \in Nat /\ trial \in 0 .. trials
    BY <1>a DEF CliStart
  <1>3. CliTyped
    BY <1>1, <1>2, <1>a, <1>b, BlankState DEF CliStart, CliTyped
  <1>4. c_at = "set" /\ result.out = "pending"
    BY DEF CliStart, Pending
  <1>c. Drawn
    BY <1>4 DEF Drawn
  <1>5. SetsLand
    BY <1>4 DEF SetsLand
  <1>6. RevLandsBefore
    BY <1>4 DEF RevLandsBefore
  <1>7. RoundtripHolds
    BY <1>4 DEF RoundtripHolds
  <1>8. RunUndoesRunrev
    BY <1>4 DEF RunUndoesRunrev
  <1> QED
    BY <1>3, <1>c, <1>5, <1>6, <1>7, <1>8 DEF CliInv, CommandsExact

(* The last setting of a register wins. *)
LEMMA LastSettingWins ==
  ASSUME NEW given \in Seq(Setting), NEW n \in Nat, n = Len(given),
         NEW ks, ks \subseteq 1 .. n, ks # {}
  PROVE  /\ Winner(ks) \in ks /\ \A j \in ks : j <= Winner(ks)
         /\ given[Winner(ks)].val \in Word
  <1>1. PICK k \in ks : \A j \in ks : j <= k
    BY GreatestOf
  <1>2. Winner(ks) \in ks /\ \A j \in ks : j <= Winner(ks)
    BY <1>1 DEF Winner
  <1>3. \A j \in 1 .. n : given[j].val \in Word
    <2>1. \A j \in 1 .. n : given[j] \in Setting
      OBVIOUS
    <2> QED
      BY <2>1 DEF Setting
  <1> QED
    BY <1>2, <1>3

LEMMA InitStateKeeps ==
  ASSUME CliInv, InitState
  PROVE  CliInv'
  <1> DEFINE naming(r) == {k \in DOMAIN sets : Target(sets[k]) = r}
  <1>1. /\ c_at = "set" /\ command # "roundtrip" /\ CliTyped /\ result = Pending
        /\ UNCHANGED <<command, leaves, sets, steps, trials, overflows, trial>>
    BY DEF InitState, CliInv, CliTyped, arguments
  <1>b. Drawn'
    BY <1>1 DEF Drawn
  <1>a. /\ Len(sets) \in Nat /\ DOMAIN sets = 1 .. Len(sets)
        /\ \A k \in 1 .. Len(sets) : sets[k] \in Setting
    BY <1>1 DEF CliTyped
  <1>2. PICK n \in Nat : n = Len(sets) /\ DOMAIN sets = 1 .. n /\ \A k \in 1 .. n : sets[k] \in Setting
    BY <1>a
  <1>3. ASSUME NEW r, naming(r) # {}
        PROVE  /\ Winner(naming(r)) \in naming(r) /\ \A j \in naming(r) : j <= Winner(naming(r))
               /\ sets[Winner(naming(r))].val \in Word
    <2>1. naming(r) \subseteq 1 .. n
      BY <1>2
    <2> HIDE DEF naming
    <2>2. PICK ks : ks = naming(r)
      OBVIOUS
    <2>3. sets \in Seq(Setting)
      BY <1>1 DEF CliTyped
    <2>4. /\ Winner(ks) \in ks /\ \A j \in ks : j <= Winner(ks)
          /\ sets[Winner(ks)].val \in Word
      BY <1>2, <1>3, <2>1, <2>2, <2>3, LastSettingWins
    <2> QED
      BY <2>2, <2>4
  <1>4. CASE \E k \in DOMAIN sets : Target(sets[k]) \notin Reg
    <2>1. c_at' = "ended" /\ result' = [Pending EXCEPT !.out = "exit"] /\ start' = start
      BY <1>4 DEF InitState
    <2>2. result'.out = "exit"
      BY <2>1 DEF Pending
    <2>3. CliTyped'
      BY <1>1, <2>1 DEF CliTyped
    <2>4. SetsLand'
      BY <2>1 DEF SetsLand
    <2>5. RevLandsBefore' /\ RoundtripHolds' /\ RunUndoesRunrev'
      BY <1>1, <2>2 DEF RevLandsBefore, RoundtripHolds, RunUndoesRunrev
    <2> QED
      BY <1>b, <2>3, <2>4, <2>5 DEF CliInv, CommandsExact
  <1>5. CASE \A k \in DOMAIN sets : Target(sets[k]) \in Reg
    <2>1. /\ c_at' = "perform" /\ result' = result
          /\ start' = [Blank EXCEPT !.regs =
               [r \in Reg |-> IF naming(r) = {} THEN 0 ELSE sets[Winner(naming(r))].val]]
      BY <1>5 DEF InitState
    <2>2. PICK contents : contents = [r \in Reg |-> IF naming(r) = {} THEN 0 ELSE sets[Winner(naming(r))].val]
      OBVIOUS
    <2>3. start'.regs = contents /\ start' \in State
      <3>1. contents \in [Reg -> Word]
        <4>1. 0 \in Word
          BY ModulusFacts DEF Word
        <4>2. ASSUME NEW r \in Reg
              PROVE  (IF naming(r) = {} THEN 0 ELSE sets[Winner(naming(r))].val) \in Word
          BY <1>3, <4>1
        <4> HIDE DEF naming
        <4> QED
          BY <2>2, <4>2
      <3>2. start' = [Blank EXCEPT !.regs = contents]
        BY <2>1, <2>2
      <3> QED
        BY <3>1, <3>2, BlankState DEF State
    <2>4. CliTyped'
      BY <1>1, <2>1, <2>3 DEF CliTyped
    <2>5. SetsLand'
      <3>1. ASSUME \A k \in 1 .. n : sets[k].reg < RegByte, NEW k \in 1 .. n
            PROVE  start'.regs[sets[k].reg] = sets[k].val
                     \/ \E j \in k + 1 .. n : sets[j].reg = sets[k].reg
        <4>1. \A j \in 1 .. n : sets[j].reg \in Nat /\ Target(sets[j]) = sets[j].reg
          <5>1. \A j \in 1 .. n : sets[j].reg \in Nat /\ sets[j].reg < RegByte
            BY <1>2, <3>1 DEF Setting
          <5>2. \A x \in Nat : x < RegByte => x % RegByte = x
            BY CommandAssumption, SMT
          <5> QED
            BY <5>1, <5>2 DEF Target
        <4>2. PICK r \in Reg : r = sets[k].reg
          BY <1>2, <1>5, <4>1
        <4>3. k \in naming(r)
          BY <1>2, <4>1, <4>2
        <4>4. PICK w \in 1 .. n : w = Winner(naming(r))
          BY <1>2, <1>3, <4>3
        <4>5. k <= w /\ sets[w].reg = sets[k].reg
          BY <1>2, <1>3, <4>1, <4>2, <4>3, <4>4
        <4>6. start'.regs[r] = sets[w].val
          BY <2>2, <2>3, <4>2, <4>3, <4>4
        <4>7. k = w \/ w \in k + 1 .. n
          BY <4>5
        <4> QED
          BY <4>2, <4>5, <4>6, <4>7
      <3> QED
        BY <1>1, <1>2, <3>1 DEF SetsLand
    <2>6. result'.out = "pending"
      BY <1>1, <2>1 DEF Pending
    <2>7. RevLandsBefore' /\ RoundtripHolds' /\ RunUndoesRunrev'
      BY <1>1, <2>6 DEF RevLandsBefore, RoundtripHolds, RunUndoesRunrev
    <2> QED
      BY <1>b, <2>4, <2>5, <2>7 DEF CliInv, CommandsExact
  <1> QED
    BY <1>4, <1>5

LEMMA NextTrialKeeps ==
  ASSUME CliInv, NextTrial
  PROVE  CliInv'
  <1>1. /\ c_at = "set" /\ command = "roundtrip" /\ CliTyped /\ result = Pending
        /\ UNCHANGED <<command, leaves, sets, steps, trials, overflows, trial>>
    BY DEF NextTrial, CliInv, CliTyped, arguments
  <1>3. Reversible' <=> Reversible
    BY <1>1 DEF Reversible
  <1>4. SetsLand' /\ RevLandsBefore' /\ RunUndoesRunrev'
    BY <1>1 DEF SetsLand, RevLandsBefore, RunUndoesRunrev
  <1>5. ASSUME NEW o, NEW d, NEW x, Stop(o, d, x), o \in {"refused", "ok", "panic"},
               o = "ok" => trial = trials,
               o = "panic" => trial < trials /\ SeedPanics(trial)
        PROVE  CliInv'
    <2>1. c_at' = "ended" /\ start' = start /\ result'.out = o
      BY <1>5 DEF Stop, Answer
    <2>2. CliTyped' /\ Drawn'
      BY <1>1, <2>1 DEF CliTyped, Drawn
    <2>3. SeedPanics(trial)' <=> SeedPanics(trial)
      BY <1>1 DEF SeedPanics
    <2>4. RoundtripHolds'
      BY <1>1, <1>5, <2>1, <2>3 DEF RoundtripHolds
    <2> QED
      BY <1>4, <2>2, <2>4 DEF CliInv, CommandsExact
  <1>6. ASSUME Reversible, trial < trials,
               c_at' = "perform", start' \in RandomStates, UNCHANGED result
        PROVE  CliInv'
    <2>1. CliTyped'
      BY <1>1, <1>6, CommandAssumption DEF CliTyped
    <2>2. Drawn'
      BY <1>1, <1>3, <1>6 DEF Drawn
    <2>3. RoundtripHolds'
      BY <1>1, <1>6 DEF RoundtripHolds, Pending
    <2> QED
      BY <1>4, <2>1, <2>2, <2>3 DEF CliInv, CommandsExact
  <1>7. \/ Stop("refused", 0, start)
        \/ trial = trials /\ Stop("ok", Len(leaves), start)
        \/ trial < trials /\ SeedPanics(trial) /\ Stop("panic", 0, start)
        \/ /\ Reversible /\ trial < trials
           /\ c_at' = "perform" /\ start' \in RandomStates /\ UNCHANGED result
    BY DEF NextTrial
  <1> QED
    BY <1>5, <1>6, <1>7

(* The four commands, each by what running and reversing do to each other. *)
LEMMA PerformKeeps ==
  ASSUME CliInv, Perform
  PROVE  CliInv'
  <1>1. /\ c_at = "perform" /\ CliTyped /\ Drawn /\ CommandsExact
        /\ UNCHANGED <<command, leaves, sets, steps, trials, overflows, start>>
    BY DEF Perform, CliInv, arguments
  <1>2. ASSUME c_at' = "ended", UNCHANGED trial PROVE CliTyped' /\ Drawn' /\ SetsLand'
    BY <1>1, <1>2 DEF CliTyped, Drawn, SetsLand
  <1>a. Run \/ RunRev \/ Rev => c_at' = "ended" /\ UNCHANGED trial
    <2>1. command \in {"run", "runrev", "rev"} => ~Roundtrip
      BY DEF Roundtrip
    <2>2. Run \/ RunRev \/ Rev => command \in {"run", "runrev", "rev"}
      BY DEF Run, RunRev, Rev
    <2> QED
      BY <2>1, <2>2 DEF Perform
  <1>3. PICK x \in Shape(Reg, Addr), prog \in Seq(Inst) : x = start /\ prog = leaves
    BY <1>1, StateShape DEF CliTyped
  <1>4. PICK z \in Res(Reg, Addr) : z = RunForward(x, prog) /\ z.out \in {"ok", "fault"}
    BY RunEnds
  <1>5. Reversible <=> AllInvertible(prog)
    BY <1>3 DEF Reversible, AllInvertible
  <1>6. CASE Run
    <2>1. command' = "run"
      BY <1>1, <1>6 DEF Run
    <2> QED
      BY <1>2, <1>6, <1>a, <2>1 DEF CliInv, CommandsExact, RevLandsBefore, RoundtripHolds, RunUndoesRunrev
  <1>7. CASE RunRev
    <2>1. PICK r : r = ReverseAll(x, prog)
      OBVIOUS
    <2>2. command' = "runrev" /\ result'.s = r.s /\ result'.out = IF r.out = "fault" THEN "exit" ELSE "ok"
      BY <1>1, <1>3, <1>7, <2>1 DEF RunRev, Ends, Answer
    <2>3. RunUndoesRunrev'
      <3>1. ASSUME r.out # "fault", AllInvertible(prog)
            PROVE  RunForward(r.s, prog) = [s |-> x, done |-> Len(prog), out |-> "ok"]
        BY <2>1, <3>1, RunUndoesReverse
      <3>2. Reversible' <=> Reversible
        BY <1>1 DEF Reversible
      <3> QED
        BY <1>1, <1>3, <1>5, <2>2, <3>1, <3>2 DEF RunUndoesRunrev
    <2> QED
      BY <1>2, <1>7, <1>a, <2>2, <2>3 DEF CliInv, CommandsExact, RevLandsBefore, RoundtripHolds
  <1>8. CASE Rev
    <2>1. command' = "rev"
      BY <1>1, <1>8 DEF Rev
    <2>2. RevLandsBefore'
      <3>1. CASE z.out # "ok"
        <4>1. result'.out = "exit"
          BY <1>3, <1>4, <1>8, <3>1 DEF Rev, Ends, Answer
        <4> QED
          BY <4>1 DEF RevLandsBefore
      <3>2. CASE z.out = "ok"
        <4>1. PICK n \in Nat : n = Len(prog)
          OBVIOUS
        <4>2. PICK l \in 0 .. n : l = SuffixLen(prog)
          BY <4>1, SuffixIs
        <4>3. PICK c \in Nat : c = Least(steps, l)
          BY <1>1 DEF Least, CliTyped
        <4>4. c = Least(c, l)
          BY <1>1, <4>3 DEF Least, CliTyped
        <4>5. PICK r : r = ReverseN(z.s, prog, c)
          OBVIOUS
        <4>6. r.done = c /\ r.s = RunForward(x, SubSeq(prog, 1, Len(prog) - c)).s
          <5>1. Least(c, SuffixLen(prog)) = c /\ z = RunForward(x, prog) /\ z.out = "ok"
            BY <1>4, <3>2, <4>2, <4>4
          <5>2. GoesBack(x, prog, c)
            BY <5>1, ReverseGoesBack
          <5> QED
            BY <4>5, <5>1, <5>2 DEF GoesBack
        <4>7. result'.done = r.done /\ result'.s = r.s
          <5>1. Ends(Back(z))
            BY <1>3, <1>4, <1>8, <3>2 DEF Rev
          <5>2. Back(z) = r
            BY <1>3, <4>2, <4>3, <4>5 DEF Back
          <5> QED
            BY <5>1, <5>2 DEF Ends, Answer
        <4> QED
          BY <1>1, <1>3, <4>2, <4>3, <4>6, <4>7 DEF RevLandsBefore
      <3> QED
        BY <3>1, <3>2
    <2> QED
      BY <1>2, <1>8, <1>a, <2>1, <2>2 DEF CliInv, CommandsExact, RoundtripHolds, RunUndoesRunrev
  <1>9. CASE Roundtrip
    <2>1. command' = "roundtrip"
      BY <1>1, <1>9 DEF Roundtrip
    <2>2. Reversible /\ trial < trials /\ command = "roundtrip"
      BY <1>1, <1>9 DEF Drawn, Roundtrip
    <2>3. CASE z.out = "fault"
      <3>1. c_at' = "ended" /\ UNCHANGED trial /\ result'.out = "panic"
        BY <1>3, <1>4, <1>9, <2>3 DEF Roundtrip, Stop, Answer
      <3>2. RoundtripHolds'
        BY <1>1, <1>3, <1>4, <2>3, <3>1 DEF RoundtripHolds
      <3> QED
        BY <1>2, <2>1, <3>1, <3>2 DEF CliInv, CommandsExact, RevLandsBefore, RunUndoesRunrev
    <2>4. CASE z.out = "ok"
      <3>1. PICK r : r = ReverseAll(z.s, prog)
        OBVIOUS
      <3>2. r.out = "ok" /\ r.done = Len(prog) /\ r.s = x
        BY <1>4, <1>5, <2>2, <2>4, <3>1, ReverseUndoesRun
      <3>3. c_at' = "set" /\ trial' = trial + 1 /\ UNCHANGED result
        BY <1>3, <1>4, <1>9, <2>4, <3>1, <3>2 DEF Roundtrip, Stop, Answer
      <3>4. CliTyped'
        BY <1>1, <2>2, <3>3 DEF CliTyped
      <3>5. result'.out = "pending" /\ Drawn' /\ SetsLand'
        BY <1>1, <3>3 DEF CliTyped, Pending, Drawn, SetsLand
      <3>6. RoundtripHolds' /\ RevLandsBefore' /\ RunUndoesRunrev'
        BY <2>1, <3>5 DEF RoundtripHolds, RevLandsBefore, RunUndoesRunrev
      <3> QED
        BY <3>4, <3>5, <3>6 DEF CliInv, CommandsExact
    <2> QED
      BY <1>4, <2>3, <2>4
  <1> QED
    BY <1>6, <1>7, <1>8, <1>9 DEF Perform

LEMMA CliIdles ==
  ASSUME CliInv, UNCHANGED cliVars
  PROVE  CliInv'
  BY DEF CliInv, CliTyped, Drawn, CommandsExact, SetsLand, RevLandsBefore, RoundtripHolds,
         RunUndoesRunrev, Reversible, SeedPanics, cliVars, arguments

THEOREM CommandsGoBack == CliSpec => []CommandsExact
  <1>1. CliInv /\ [CliNext]_cliVars => CliInv'
    BY InitStateKeeps, NextTrialKeeps, PerformKeeps, CliIdles DEF CliNext
  <1>2. CliInv => CommandsExact
    BY DEF CliInv
  <1> QED
    BY CliStarts, <1>1, <1>2, PTL DEF CliSpec

-----------------------------------------------------------------------------
(* The image editor. *)
Pixel   == [1 .. 3 -> Word]
EditRec == [op : {"add", "xor", "swaprb"}, n : Word]

LEMMA ZeroWord == 0 \in Word
  BY ModulusFacts DEF Word

(* An edit makes an image of an image, and its inverse takes it back. *)
LEMMA EditGoesBack ==
  ASSUME NEW p \in Seq(Pixel), NEW e \in EditRec
  PROVE  Edit(p, e) \in Seq(Pixel) /\ Unedit(Edit(p, e), e) = p
  <1>1. PICK d : d = DOMAIN p
    OBVIOUS
  <1>2. PICK n \in Nat : d = 1 .. n
    <2>1. Len(p) \in Nat /\ d = 1 .. Len(p)
      BY <1>1
    <2> QED
      BY <2>1
  <1>3. p \in [d -> Pixel]
    BY <1>1
  <1>4. \A q \in [d -> Pixel] : q \in Seq(Pixel)
    BY <1>2
  <1>5. e.n \in Word /\ WrapSub(0, e.n) \in Word
    BY ZeroWord, AddSubCancel DEF EditRec
  <1>6. ASSUME NEW k \in d, NEW c \in 1 .. 3 PROVE p[k][c] \in Word
    BY <1>3 DEF Pixel
  <1>7. \A q \in [d -> Pixel] : DOMAIN q = d
    OBVIOUS
  <1>8. CASE e.op = "add"
    <2>1. PICK v \in Word : v = e.n /\ WrapSub(0, v) \in Word
      BY <1>5
    <2>2. PICK q : q = OpAdd(p, v)
      OBVIOUS
    <2>3. q = [k \in d |-> [c \in 1 .. 3 |-> WrapAdd(p[k][c], v)]]
      BY <1>1, <2>2 DEF OpAdd
    <2>4. \A k \in d, c \in 1 .. 3 : WrapAdd(p[k][c], v) \in Word
      BY <1>6, AddSubCancel
    <2>5. q \in [d -> Pixel]
      BY <2>3, <2>4 DEF Pixel
    <2>6. \A k \in d, c \in 1 .. 3 : q[k][c] = WrapAdd(p[k][c], v)
      BY <2>3
    <2>7. PICK r : r = OpAdd(q, WrapSub(0, v))
      OBVIOUS
    <2>8. r = [k \in d |-> [c \in 1 .. 3 |-> WrapAdd(q[k][c], WrapSub(0, v))]]
      BY <1>7, <2>5, <2>7 DEF OpAdd
    <2>9. \A x \in Word : WrapAdd(WrapAdd(x, v), WrapSub(0, v)) = x
      <3>1. \A A \in Nat \ {0} : \A x, y \in 0 .. A - 1 : (((x + y) % A) + ((0 - y) % A)) % A = x
        BY SMT
      <3> QED
        BY <3>1, ModulusFacts DEF Word, WrapAdd, WrapSub
    <2>10. \A k \in d, c \in 1 .. 3 : r[k][c] = p[k][c]
      BY <1>6, <2>6, <2>8, <2>9
    <2>11. r = p
      <3>1. r \in [d -> Pixel]
        BY <1>6, <2>6, <2>8, <2>9 DEF Pixel
      <3>2. \A k \in d : r[k] = p[k]
        BY <1>3, <2>10, <3>1 DEF Pixel
      <3> QED
        BY <1>3, <3>1, <3>2
    <2>12. Edit(p, e) = q
      BY <1>8, <2>1, <2>2 DEF Edit
    <2>13. Unedit(q, e) = r
      <3>1. e.op = "add" /\ [e EXCEPT !.n = WrapSub(0, @)].op = "add"
            /\ [e EXCEPT !.n = WrapSub(0, @)].n = WrapSub(0, v)
        BY <1>8, <2>1 DEF EditRec
      <3> QED
        BY <2>7, <3>1 DEF Unedit, Edit
    <2> QED
      BY <1>4, <2>5, <2>11, <2>12, <2>13
  <1>9. CASE e.op = "xor"
    <2>1. PICK v \in Word : v = e.n
      BY <1>5
    <2>2. PICK q : q = OpXor(p, v)
      OBVIOUS
    <2>3. q = [k \in d |-> [c \in 1 .. 3 |-> BitXor(p[k][c], v)]]
      BY <1>1, <2>2 DEF OpXor
    <2>4. \A k \in d, c \in 1 .. 3 : BitXor(p[k][c], v) \in Word
      BY <1>6, BitLaws
    <2>5. q \in [d -> Pixel]
      BY <2>3, <2>4 DEF Pixel
    <2>6. \A k \in d, c \in 1 .. 3 : q[k][c] = BitXor(p[k][c], v)
      BY <2>3
    <2>7. PICK r : r = OpXor(q, v)
      OBVIOUS
    <2>8. r = [k \in d |-> [c \in 1 .. 3 |-> BitXor(q[k][c], v)]]
      BY <1>7, <2>5, <2>7 DEF OpXor
    <2>9. \A x \in Word : BitXor(BitXor(x, v), v) = x
      BY BitLaws
    <2>10. \A k \in d, c \in 1 .. 3 : r[k][c] = p[k][c]
      BY <1>6, <2>6, <2>8, <2>9
    <2>11. r = p
      <3>1. r \in [d -> Pixel]
        BY <1>6, <2>6, <2>8, <2>9 DEF Pixel
      <3>2. \A k \in d : r[k] = p[k]
        BY <1>3, <2>10, <3>1 DEF Pixel
      <3> QED
        BY <1>3, <3>1, <3>2
    <2>12. Edit(p, e) = q /\ Unedit(q, e) = r
      BY <1>9, <2>1, <2>2, <2>7 DEF Edit, Unedit
    <2> QED
      BY <1>4, <2>5, <2>11, <2>12
  <1>10. CASE e.op = "swaprb"
    <2>1. PICK q : q = OpSwapRB(p)
      OBVIOUS
    <2>2. q = [k \in d |-> <<p[k][3], p[k][2], p[k][1]>>]
      BY <1>1, <2>1 DEF OpSwapRB
    <2>3. \A k \in d : <<p[k][3], p[k][2], p[k][1]>> \in Pixel
      BY <1>6 DEF Pixel
    <2>4. q \in [d -> Pixel]
      BY <2>2, <2>3
    <2>5. \A k \in d : q[k][1] = p[k][3] /\ q[k][2] = p[k][2] /\ q[k][3] = p[k][1]
      BY <2>2
    <2>6. PICK r : r = OpSwapRB(q)
      OBVIOUS
    <2>7. r = [k \in d |-> <<q[k][3], q[k][2], q[k][1]>>]
      BY <1>7, <2>4, <2>6 DEF OpSwapRB
    <2>8. \A k \in d : r[k] = <<p[k][1], p[k][2], p[k][3]>>
      BY <2>5, <2>7
    <2>9. \A x \in Pixel : <<x[1], x[2], x[3]>> = x
      BY DEF Pixel
    <2>10. r = p
      <3>1. \A k \in d : p[k] \in Pixel /\ r[k] = p[k]
        BY <1>3, <2>8, <2>9
      <3> QED
        BY <1>3, <2>7, <3>1
    <2>11. Edit(p, e) = q /\ Unedit(q, e) = r
      BY <1>10, <2>1, <2>6 DEF Edit, Unedit
    <2> QED
      BY <1>4, <2>4, <2>10, <2>11
  <1> QED
    BY <1>8, <1>9, <1>10 DEF EditRec

(* The images the journal leads through. *)
Redone(f, first, edited, n) ==
  /\ f \in [0 .. n -> Seq(Pixel)]
  /\ f[0] = first /\ \A k \in 1 .. n : f[k] = Edit(f[k - 1], edited[k])

LEMMA SameEdits ==
  ASSUME NEW n \in Nat, NEW first, NEW edited, NEW others, NEW f, NEW g, NEW l, NEW m,
         n <= l, n <= m, l \in Nat, m \in Nat,
         Redone(f, first, edited, l), Redone(g, first, others, m),
         \A k \in 1 .. n : edited[k] = others[k]
  PROVE  f[n] = g[n]
  <1> DEFINE P == {k \in 0 .. n : f[k] = g[k]}
  <1>1. /\ f[0] = g[0]
        /\ \A k \in 1 .. n : f[k] = Edit(f[k - 1], edited[k]) /\ g[k] = Edit(g[k - 1], edited[k])
    BY DEF Redone
  <1>2. 0 \in P
    BY <1>1
  <1>3. \A k \in 1 .. n : k - 1 \in P => k \in P
    BY <1>1
  <1> HIDE DEF P
  <1>4. \A k \in 0 .. n : k \in P
    BY <1>2, <1>3, UpTo
  <1> QED
    BY <1>4 DEF P

ImageTyped ==
  /\ source \in Seq(Pixel) /\ px \in Seq(Pixel)
  /\ journal \in Seq(EditRec)
  /\ i_at \in {"open", "edit", "saved", "failed"}
  /\ i_at = "open" => px = <<>> /\ journal = <<>>

(* What FromJournal is: the last of these images. *)
JournalFact ==
  \E n \in Nat : \E f : /\ n = Len(journal) /\ Redone(f, source, journal, n)
                         /\ FromJournal = f[n]

LEMMA JournalIs == ImageTyped => JournalFact
  <1> SUFFICES ASSUME ImageTyped PROVE JournalFact
    OBVIOUS
  <1> DEFINE S == Seq(Pixel)
  <1>1. Len(journal) \in Nat /\ source \in S /\ \A k \in 1 .. Len(journal) : journal[k] \in EditRec
    BY DEF ImageTyped
  <1>2. PICK n \in Nat : n = Len(journal)
    BY <1>1
  <1> DEFINE step == [k \in 1 .. n |-> [p \in S |-> Edit(p, journal[k])]]
  <1>3. step \in [1 .. n -> [S -> S]]
    BY <1>1, <1>2, EditGoesBack
  <1> HIDE DEF S, step
  <1>4. PICK f : /\ f \in [0 .. n -> S] /\ f[0] = source
                 /\ \A k \in 1 .. n : f[k] = step[k][f[k - 1]]
    <2>1. \E f : Chain(f, n, S, source, step)
      BY <1>1, <1>3, Recursion
    <2> QED
      BY <2>1 DEF Chain
  <1>5. ASSUME NEW k \in 1 .. n PROVE f[k] = Edit(f[k - 1], journal[k])
    <2>1. k - 1 \in 0 .. n
      OBVIOUS
    <2>2. f[k - 1] \in S
      BY <1>4, <2>1
    <2>3. step[k][f[k - 1]] = Edit(f[k - 1], journal[k])
      BY <2>2 DEF step
    <2> QED
      BY <1>4, <2>3
  <1> DEFINE Runs(g) == g = [k \in 0 .. n |-> IF k = 0 THEN source ELSE Edit(g[k - 1], journal[k])]
  <1>6. Runs(f)
    <2>1. \A k \in 0 .. n : f[k] = IF k = 0 THEN source ELSE Edit(f[k - 1], journal[k])
      <3>1. \A k \in 0 .. n : k = 0 \/ k \in 1 .. n
        OBVIOUS
      <3> QED
        BY <1>4, <1>5, <3>1
    <2> QED
      BY <1>4, <2>1
  <1>7. PICK g : g = CHOOSE h : Runs(h)
    OBVIOUS
  <1>8. Runs(g)
    BY <1>6, <1>7
  <1>9. FromJournal = g[n]
    BY <1>2, <1>7 DEF FromJournal
  <1>10. g[0] = source /\ DOMAIN g = 0 .. n
    BY <1>8
  <1>11. \A k \in 1 .. n : g[k] = Edit(g[k - 1], journal[k])
    BY <1>8
  <1> HIDE DEF Runs
  <1>12. \A k \in 0 .. n : g[k] \in S
    <2> DEFINE P == {k \in 0 .. n : g[k] \in S}
    <2>1. 0 \in P
      BY <1>1, <1>10
    <2>2. ASSUME NEW k \in 1 .. n, k - 1 \in P PROVE k \in P
      BY <1>1, <1>2, <1>11, <2>2, EditGoesBack DEF S
    <2>3. \A k \in 1 .. n : k - 1 \in P => k \in P
      BY <2>2
    <2> HIDE DEF P
    <2>4. \A k \in 0 .. n : k \in P
      BY <2>1, <2>3, UpTo
    <2> QED
      BY <2>4 DEF P
  <1>13. g \in [0 .. n -> S]
    <2>1. g = [k \in 0 .. n |-> g[k]]
      BY <1>8 DEF Runs
    <2> QED
      BY <1>12, <2>1
  <1>14. Redone(g, source, journal, n)
    BY <1>10, <1>11, <1>13 DEF Redone, S
  <1> QED
    BY <1>2, <1>9, <1>14 DEF JournalFact

LEMMA JournalIsNext == ImageTyped' => JournalFact'
  BY JournalIs, PTL

ImageInv == ImageTyped /\ (i_at = "edit" => px = FromJournal) /\ PixelsAreJournal

LEMMA ImageStarts == ImageStart(TRUE) => ImageInv
  <1> SUFFICES ASSUME ImageStart(TRUE) PROVE ImageInv
    OBVIOUS
  <1>1. source \in Seq(Pixel)
    BY ImageAssumption DEF ImageStart, Among, Pixel
  <1> QED
    BY <1>1 DEF ImageStart, ImageInv, ImageTyped, PixelsAreJournal

(* The image is opened: it is the file, and the journal is empty. *)
LEMMA OpenKeeps ==
  ASSUME ImageInv, OpenImage
  PROVE  ImageInv'
  <1>1. ImageTyped /\ i_at = "open" /\ journal = <<>> /\ px = <<>> /\ journal' = <<>> /\ source' = source
    BY DEF ImageInv, ImageTyped, OpenImage
  <1>2. CASE i_at' = "edit" /\ px' = source
    <2>1. ImageTyped'
      BY <1>1, <1>2 DEF ImageTyped
    <2>2. PICK n, f : n \in Nat /\ n = Len(journal') /\ Redone(f, source', journal', n) /\ FromJournal' = f[n]
      BY <2>1, JournalIsNext DEF JournalFact
    <2>3. n = 0
      BY <1>1, <2>2
    <2>4. FromJournal' = source
      BY <1>1, <2>2, <2>3 DEF Redone
    <2> QED
      BY <1>2, <2>1, <2>4 DEF ImageInv, PixelsAreJournal
  <1>3. CASE i_at' = "failed" /\ px' = px
    <2>1. ImageTyped'
      BY <1>1, <1>3 DEF ImageTyped
    <2> QED
      BY <1>1, <1>3, <2>1 DEF ImageInv, PixelsAreJournal
  <1> QED
    BY <1>2, <1>3 DEF OpenImage

LEMMA ApplyKeeps ==
  ASSUME ImageInv, Apply
  PROVE  ImageInv'
  <1>1. PICK e \in EditRec : px' = Edit(px, e) /\ journal' = Append(journal, e)
    <2>1. \A e \in [op : {"add", "xor"}, n : EditArgs \union {0}] \union [op : {"swaprb"}, n : {0}] :
            e \in EditRec
      <3>1. EditArgs \union {0} \subseteq Word /\ {0} \subseteq Word
        BY ImageAssumption, ZeroWord
      <3> QED
        BY <3>1 DEF EditRec
    <2> QED
      BY <2>1 DEF Apply
  <1>2. i_at = "edit" /\ i_at' = "edit" /\ source' = source /\ ImageTyped /\ px = FromJournal
    BY DEF Apply, OneEdit, ImageInv
  <1>3. journal \in Seq(EditRec) /\ px \in Seq(Pixel)
    BY <1>2 DEF ImageTyped
  <1>4. Edit(px, e) \in Seq(Pixel)
    BY <1>3, EditGoesBack
  <1>5. ImageTyped'
    <2>1. Append(journal, e) \in Seq(EditRec)
      BY <1>3
    <2> QED
      BY <1>1, <1>2, <1>4, <2>1 DEF ImageTyped
  <1>6. PICK n, f : n \in Nat /\ n = Len(journal) /\ Redone(f, source, journal, n) /\ FromJournal = f[n]
    BY <1>2, JournalIs DEF JournalFact
  <1>7. PICK m, g : m \in Nat /\ m = Len(journal') /\ Redone(g, source', journal', m) /\ FromJournal' = g[m]
    BY <1>5, JournalIsNext DEF JournalFact
  <1>8. PICK longer : longer = Append(journal, e)
    OBVIOUS
  <1>9. Len(longer) = n + 1 /\ longer[n + 1] = e /\ \A k \in 1 .. n : longer[k] = journal[k]
    BY <1>3, <1>6, <1>8
  <1>10. m = n + 1 /\ Redone(g, source, longer, m)
    BY <1>1, <1>2, <1>7, <1>8, <1>9
  <1>11. f[n] = g[n]
    <2>1. \A k \in 1 .. n : journal[k] = longer[k]
      BY <1>9
    <2>2. n <= n /\ n <= m
      <3>1. n \in Nat /\ m = n + 1
        BY <1>6, <1>10
      <3> QED
        BY <3>1
    <2> QED
      BY <1>6, <1>10, <2>1, <2>2, SameEdits
  <1>12. g[m] = Edit(g[n], e)
    <2>1. m \in 1 .. m /\ m - 1 = n
      <3>1. n \in Nat /\ m = n + 1
        BY <1>6, <1>10
      <3> QED
        BY <3>1
    <2>2. g[m] = Edit(g[m - 1], longer[m])
      BY <1>10, <2>1 DEF Redone
    <2> QED
      BY <1>9, <1>10, <2>1, <2>2
  <1>13. px' = FromJournal'
    BY <1>1, <1>2, <1>6, <1>7, <1>11, <1>12
  <1> QED
    BY <1>5, <1>13 DEF ImageInv, PixelsAreJournal

LEMMA UndoKeeps ==
  ASSUME ImageInv, Undo
  PROVE  ImageInv'
  <1>1. i_at = "edit" /\ i_at' = "edit" /\ source' = source /\ ImageTyped /\ px = FromJournal
    BY DEF Undo, OneEdit, ImageInv
  <1>2. PICK n, f : n \in Nat /\ n = Len(journal) /\ Redone(f, source, journal, n) /\ FromJournal = f[n]
    BY <1>1, JournalIs DEF JournalFact
  <1>3. CASE journal = <<>>
    <2>1. px' = px /\ journal' = journal
      BY <1>3 DEF Undo
    <2>2. ImageTyped' /\ FromJournal' = FromJournal
      BY <1>1, <2>1 DEF ImageTyped, FromJournal
    <2> QED
      BY <1>1, <2>1, <2>2 DEF ImageInv, PixelsAreJournal
  <1>4. CASE journal # <<>>
    <2>1. n \in 1 .. n /\ n - 1 \in 0 .. n /\ n - 1 \in Nat /\ n - 1 <= n /\ n - 1 <= n - 1
      <3>1. n # 0
        <4>1. journal \in Seq(EditRec)
          BY <1>1 DEF ImageTyped
        <4> QED
          BY <1>2, <1>4, <4>1
      <3>2. n \in Nat
        BY <1>2
      <3> QED
        BY <3>1, <3>2
    <2>2. PICK e \in EditRec : e = journal[n]
      <3>1. journal \in Seq(EditRec)
        BY <1>1 DEF ImageTyped
      <3> QED
        BY <1>2, <2>1, <3>1
    <2>3. PICK p \in Seq(Pixel) : p = f[n - 1]
      BY <1>2, <2>1 DEF Redone
    <2>4. px = Edit(p, e)
      <3>1. f[n] = Edit(f[n - 1], journal[n])
        BY <1>2, <2>1 DEF Redone
      <3> QED
        BY <1>1, <1>2, <2>2, <2>3, <3>1
    <2>5. px' = Unedit(px, e) /\ journal' = SubSeq(journal, 1, n - 1)
      BY <1>2, <1>4, <2>2 DEF Undo
    <2>6. px' = p
      BY <2>4, <2>5, EditGoesBack
    <2>7. PICK shorter : shorter = SubSeq(journal, 1, n - 1)
      OBVIOUS
    <2>8. shorter \in Seq(EditRec) /\ Len(shorter) = n - 1 /\ \A k \in 1 .. n - 1 : shorter[k] = journal[k]
      <3>1. journal \in Seq(EditRec)
        BY <1>1 DEF ImageTyped
      <3> QED
        BY <1>2, <2>1, <2>7, <3>1
    <2>9. ImageTyped'
      BY <1>1, <2>5, <2>6, <2>7, <2>8 DEF ImageTyped
    <2>10. PICK m, g : m \in Nat /\ m = Len(journal') /\ Redone(g, source', journal', m) /\ FromJournal' = g[m]
      BY <2>9, JournalIsNext DEF JournalFact
    <2>11. m = n - 1 /\ Redone(g, source, shorter, m)
      BY <1>1, <2>5, <2>7, <2>8, <2>10
    <2>12. f[n - 1] = g[n - 1]
      <3>1. \A k \in 1 .. n - 1 : journal[k] = shorter[k]
        BY <2>8
      <3>2. PICK l \in Nat : l = n - 1 /\ l <= n /\ l <= m
        BY <2>1, <2>11
      <3>3. f[l] = g[l]
        BY <1>2, <2>11, <3>1, <3>2, SameEdits
      <3> QED
        BY <3>2, <3>3
    <2>13. px' = FromJournal'
      BY <2>3, <2>6, <2>10, <2>11, <2>12
    <2> QED
      BY <2>9, <2>13 DEF ImageInv, PixelsAreJournal
  <1> QED
    BY <1>3, <1>4

(* The other steps leave the pixels and the journal alone. *)
LEMMA OtherImageSteps ==
  ASSUME ImageInv, UNCHANGED <<source, px, journal>>,
         (i_at = "edit" /\ i_at' \in {"edit", "saved", "failed"}) \/ i_at' = i_at
  PROVE  ImageInv'
  <1>1. FromJournal' = FromJournal
    BY DEF FromJournal
  <1> QED
    BY <1>1 DEF ImageInv, ImageTyped, PixelsAreJournal

(* The pixels are what the journal says, however edits and undos were mixed. *)
THEOREM UndoLeavesNoTrace == ImageSpec => []PixelsAreJournal
  <1>1. ImageInv /\ [ImageNext]_imageVars => ImageInv'
    <2> SUFFICES ASSUME ImageInv, [ImageNext]_imageVars PROVE ImageInv'
      OBVIOUS
    <2>1. CASE WrongArgument \/ Save \/ UNCHANGED imageVars
      <3>1. UNCHANGED <<source, px, journal>>
        BY <2>1 DEF WrongArgument, Save, imageVars
      <3>2. (i_at = "edit" /\ i_at' \in {"edit", "saved", "failed"}) \/ i_at' = i_at
        BY <2>1 DEF WrongArgument, OneEdit, Save, imageVars
      <3> QED
        BY <3>1, <3>2, OtherImageSteps
    <2> QED
      BY <2>1, OpenKeeps, ApplyKeeps, UndoKeeps DEF ImageNext
  <1>2. ImageInv => PixelsAreJournal
    BY DEF ImageInv
  <1> QED
    BY ImageStarts, <1>1, <1>2, PTL DEF ImageSpec

-----------------------------------------------------------------------------
(* The capsule. *)

(* Repetitions of the body. *)
LEMMA BodyRepeats ==
  ASSUME NEW l \in Nat \ {0}, NEW n \in Nat, NEW j \in Nat
  PROVE  n * l \in Nat /\ (n * l + j) % l = j % l
  <1>1. PICK q \in Int, r \in 0 .. l - 1 : j = q * l + r /\ r = j % l
    <2>1. j \in Int
      OBVIOUS
    <2>2. /\ j % l \in 0 .. l - 1 /\ j \div l \in Int
          /\ j = (j \div l) * l + (j % l)
      BY <2>1, DivModSplit
    <2> QED
      BY <2>2
  <1>2. n + q \in Int /\ ((n + q) * l + r) % l = r
    BY DivModUnique
  <1>3. n * l + j = (n + q) * l + r
    BY <1>1, SMT
  <1>4. n * l \in Nat
    BY SMT
  <1> QED
    BY <1>1, <1>2, <1>3, <1>4

LEMMA LeavesAre ==
  ASSUME NEW n \in Nat
  PROVE  /\ n * Len(Body) \in Nat
         /\ Leaves(n) \in Seq(Inst) /\ Len(Leaves(n)) = n * Len(Body)
         /\ AllInvertible(Leaves(n))
  <1>1. PICK l \in Nat \ {0} : l = Len(Body)
    BY CapsuleAssumption
  <1>2. \A k \in 1 .. l : Body[k] \in Inst /\ Invertible(Body[k])
    BY <1>1, CapsuleAssumption
  <1>3. PICK m \in Nat : m = n * l
    BY BodyRepeats
  <1>4. \A j \in 1 .. m : ((j - 1) % l) + 1 \in 1 .. l
    <2>1. \A x \in Nat : x % l \in 0 .. l - 1
      BY SMT
    <2>2. \A j \in 1 .. m : j - 1 \in Nat
      OBVIOUS
    <2> QED
      BY <2>1, <2>2
  <1>5. PICK p : p = Leaves(n)
    OBVIOUS
  <1>6. p = [j \in 1 .. m |-> Body[((j - 1) % l) + 1]]
    BY <1>1, <1>3, <1>5 DEF Leaves
  <1>7. \A j \in 1 .. m : p[j] \in Inst /\ Invertible(p[j])
    BY <1>2, <1>4, <1>6
  <1>8. p \in [1 .. m -> Inst]
    BY <1>6, <1>7
  <1>9. p \in Seq(Inst) /\ DOMAIN p = 1 .. m
    BY <1>8
  <1>10. Len(p) = m
    BY <1>9
  <1> QED
    BY <1>1, <1>3, <1>5, <1>7, <1>9, <1>10 DEF AllInvertible

(* The whole program is prog and then rest. *)
Continues(whole, prog, rest, n, m) ==
  /\ n = Len(prog) /\ m = Len(rest) /\ Len(whole) = n + m
  /\ \A k \in 1 .. n : whole[k] = prog[k]
  /\ \A k \in 1 .. m : whole[n + k] = rest[k]

(* A program that is repeated first Done and then Rest times. *)
LEMMA RepeatsGoOn ==
  ASSUME NEW a \in Nat, NEW b \in Nat, NEW n \in Nat, NEW m \in Nat,
         n = Len(Leaves(a)), m = Len(Leaves(b))
  PROVE  Continues(Leaves(a + b), Leaves(a), Leaves(b), n, m)
  <1>1. PICK l \in Nat \ {0} : l = Len(Body)
    BY CapsuleAssumption
  <1>a. a + b \in Nat
    OBVIOUS
  <1>b. Len(Leaves(a)) = a * l
    BY <1>1, LeavesAre
  <1>c. Len(Leaves(b)) = b * l
    BY <1>1, LeavesAre
  <1>d. Len(Leaves(a + b)) = (a + b) * l
    BY <1>1, <1>a, LeavesAre
  <1>2. n = a * l /\ m = b * l /\ Len(Leaves(a + b)) = (a + b) * l
    BY <1>b, <1>c, <1>d
  <1>3. (a + b) * l = n + m
    BY <1>2, SMT
  <1>4. ASSUME NEW c \in Nat, NEW k, k \in 1 .. c * l
        PROVE  Leaves(c)[k] = Body[((k - 1) % l) + 1]
    BY <1>1, <1>4 DEF Leaves
  <1>5. ASSUME NEW k \in 1 .. n PROVE Leaves(a + b)[k] = Leaves(a)[k]
    <2>1. k \in 1 .. a * l /\ k \in 1 .. (a + b) * l
      BY <1>2, <1>3
    <2>2. Leaves(a + b)[k] = Body[((k - 1) % l) + 1]
      BY <1>a, <1>4, <2>1
    <2>3. Leaves(a)[k] = Body[((k - 1) % l) + 1]
      BY <1>4, <2>1
    <2> QED
      BY <2>2, <2>3
  <1>6. ASSUME NEW k \in 1 .. m PROVE Leaves(a + b)[n + k] = Leaves(b)[k]
    <2>1. n + k \in 1 .. (a + b) * l /\ k \in 1 .. b * l
      BY <1>2, <1>3
    <2>2. Leaves(a + b)[n + k] = Body[((n + k - 1) % l) + 1]
      <3>1. PICK c \in Nat : c = a + b
        BY <1>a
      <3>2. PICK i \in 1 .. c * l : i = n + k
        BY <2>1, <3>1
      <3>3. Leaves(c)[i] = Body[((i - 1) % l) + 1]
        BY <1>4
      <3> QED
        BY <3>1, <3>2, <3>3
    <2>3. Leaves(b)[k] = Body[((k - 1) % l) + 1]
      BY <1>4, <2>1
    <2>4. (n + k - 1) % l = (k - 1) % l
      <3>1. PICK j \in Nat : j = k - 1
        OBVIOUS
      <3>2. (a * l + j) % l = j % l
        BY BodyRepeats
      <3>3. n + k - 1 = n + j
        BY <3>1
      <3> QED
        BY <1>2, <3>1, <3>2, <3>3
    <2> QED
      BY <2>2, <2>3, <2>4
  <1> QED
    BY <1>2, <1>3, <1>5, <1>6 DEF Continues

(* The states of a run. *)
HasRun(R, A, s, prog, n) ==
  \E f \in [0 .. n -> Res(R, A)] : Forth(f, s, prog, n) /\ RunForward(s, prog) = f[n]

LEMMA RunExists ==
  ASSUME NEW R, NEW A, NEW s \in Shape(R, A), NEW prog \in Seq(Inst),
         NEW n \in Nat, n = Len(prog)
  PROVE  HasRun(R, A, s, prog, n)
  BY RunIsForth DEF HasRun

(* A program that runs to its end can be stopped anywhere and gone on with. *)
Goes(s, prog, rest, whole) ==
  /\ RunForward(s, prog).out = "ok"
  /\ RunForward(RunForward(s, prog).s, rest).out = "ok"
  /\ RunForward(RunForward(s, prog).s, rest).s = RunForward(s, whole).s

LEMMA RunGoesOn ==
  ASSUME NEW R, NEW A, NEW s \in Shape(R, A),
         NEW prog \in Seq(Inst), NEW rest \in Seq(Inst), NEW whole \in Seq(Inst),
         NEW n \in Nat, NEW m \in Nat, Continues(whole, prog, rest, n, m),
         RunForward(s, whole).out = "ok"
  PROVE  Goes(s, prog, rest, whole)
  <1>a. n = Len(prog) /\ m = Len(rest)
    BY DEF Continues
  <1>1. PICK w \in Nat : w = n + m /\ w = Len(whole)
    BY DEF Continues
  <1>2. PICK f \in [0 .. w -> Res(R, A)] : Forth(f, s, whole, w) /\ RunForward(s, whole) = f[w]
    <2>1. HasRun(R, A, s, whole, w)
      BY <1>1, RunExists
    <2> QED
      BY <2>1 DEF HasRun
  <1>3. PICK e \in [0 .. n -> Res(R, A)] : Forth(e, s, prog, n) /\ RunForward(s, prog) = e[n]
    <2>1. HasRun(R, A, s, prog, n)
      BY <1>a, RunExists
    <2> QED
      BY <2>1 DEF HasRun
  <1>4. f[n] = e[n]
    <2>1. n \in 0 .. w
      BY <1>1
    <2>2. n <= n /\ n <= w
      BY <1>1
    <2>3. Forth(f, s, whole, n)
      BY <1>2, <2>2 DEF Forth
    <2>4. BeginAlike(whole, prog, n)
      BY DEF Continues, BeginAlike
    <2>5. Forth(e, s, prog, n)
      BY <1>3
    <2> QED
      BY <2>3, <2>4, <2>5, SameStart
  <1>5. /\ \A k \in 0 .. w : f[k].out = "ok" /\ f[k].s \in Shape(R, A)
        /\ \A k \in 1 .. w : f[k] = ForwardLeaf(f[k - 1], whole[k])
    <2>1. Forth(f, s, whole, w) /\ f[w].out = "ok"
      BY <1>2
    <2>2. WentThrough(f, R, A, w)
      BY <2>1, ForthOk
    <2>3. \A k \in 0 .. w : f[k].out = "ok" /\ f[k].s \in Shape(R, A)
      BY <2>2 DEF WentThrough
    <2> QED
      BY <2>1, <2>3 DEF Forth
  <1>6. PICK t \in Shape(R, A) : t = f[n].s
    <2>1. n \in 0 .. w
      BY <1>1
    <2> QED
      BY <1>5, <2>1
  <1>7. PICK g \in [0 .. m -> Res(R, A)] : Forth(g, t, rest, m) /\ RunForward(t, rest) = g[m]
    <2>1. HasRun(R, A, t, rest, m)
      BY <1>a, RunExists
    <2> QED
      BY <2>1 DEF HasRun
  <1> DEFINE P == {k \in 0 .. m : g[k].out = "ok" /\ g[k].s = f[n + k].s}
  <1>8. 0 \in P
    <2>1. g[0] = Go(t) /\ n + 0 = n
      BY <1>7 DEF Forth
    <2> QED
      BY <1>6, <2>1 DEF Go
  <1>9. ASSUME NEW k \in 1 .. m, k - 1 \in P PROVE k \in P
    <2>1. PICK i, j : i = n + k /\ j = n + (k - 1) /\ j = i - 1 /\ i \in 1 .. w /\ j \in 0 .. w /\ i \in 0 .. w
      BY <1>1
    <2>2. f[i] = ForwardLeaf(f[j], whole[i]) /\ whole[i] = rest[k]
      BY <1>5, <2>1 DEF Continues
    <2>3. g[k] = ForwardLeaf(g[k - 1], rest[k])
      BY <1>7 DEF Forth
    <2>4. PICK x \in Res(R, A) : x = f[j]
      BY <2>1
    <2>5. PICK y \in Res(R, A) : y = g[k - 1]
      <3>1. k - 1 \in 0 .. m
        OBVIOUS
      <3> QED
        BY <3>1
    <2>6. y.out = "ok" /\ y.s = x.s /\ x.out = "ok" /\ f[i].out = "ok"
      BY <1>5, <1>9, <2>1, <2>4, <2>5
    <2>7. [x EXCEPT !.out = "fault"].out = "fault"
      BY DEF Res
    <2>8. CanRun(x.s, rest[k]) /\ f[i].s = Exec(x.s, rest[k])
      BY <2>2, <2>4, <2>6, <2>7 DEF ForwardLeaf
    <2>9. g[k].out = "ok" /\ g[k].s = Exec(x.s, rest[k])
      BY <2>3, <2>5, <2>6, <2>8 DEF ForwardLeaf
    <2> QED
      BY <2>1, <2>8, <2>9
  <1>10. \A k \in 1 .. m : k - 1 \in P => k \in P
    BY <1>9
  <1> HIDE DEF P
  <1>11. m \in P
    <2>1. \A k \in 0 .. m : k \in P
      BY <1>8, <1>10, UpTo
    <2> QED
      BY <2>1
  <1>12. g[m].out = "ok" /\ g[m].s = f[w].s
    BY <1>1, <1>11 DEF P
  <1>13. e[n].out = "ok" /\ e[n].s = t
    <2>1. n \in 0 .. w
      BY <1>1
    <2> QED
      BY <1>4, <1>5, <1>6, <2>1
  <1> QED
    BY <1>2, <1>3, <1>7, <1>12, <1>13 DEF Goes

(* Words and hashes of a machine's state. *)
LEMMA WordsAre ==
  ASSUME NEW n \in Nat, NEW f \in [0 .. n - 1 -> Word]
  PROVE  /\ Words(f) \in Seq(Word) /\ Len(Words(f)) = n
         /\ \A k \in 1 .. n : Words(f)[k] = f[k - 1]
  <1>1. {a + 1 : a \in DOMAIN f} = 1 .. n
    <2>1. \A k \in 1 .. n : k - 1 \in 0 .. n - 1 /\ (k - 1) + 1 = k
      OBVIOUS
    <2>2. \A a \in 0 .. n - 1 : a + 1 \in 1 .. n
      OBVIOUS
    <2>3. DOMAIN f = 0 .. n - 1
      OBVIOUS
    <2> QED
      BY <2>1, <2>2, <2>3
  <1>2. Words(f) = [k \in 1 .. n |-> f[k - 1]]
    BY <1>1 DEF Words
  <1>3. \A k \in 1 .. n : f[k - 1] \in Word
    <2>1. \A k \in 1 .. n : k - 1 \in 0 .. n - 1
      OBVIOUS
    <2> QED
      BY <2>1
  <1>4. PICK w : w = Words(f)
    OBVIOUS
  <1>5. w \in [1 .. n -> Word]
    BY <1>2, <1>3, <1>4
  <1>6. w \in Seq(Word) /\ DOMAIN w = 1 .. n
    BY <1>5
  <1>7. Len(w) = n
    BY <1>6
  <1> QED
    BY <1>2, <1>4, <1>6, <1>7

(* A section has a word for every place; the words of one that was read are    *)
(* those of the line.                                                        *)
LEMMA SectionIs ==
  ASSUME NEW w \in Seq(Word), NEW n \in Nat
  PROVE  Section(w, n) \in [0 .. n - 1 -> Word]
  <1>1. 0 \in Word
    BY ZeroWord
  <1>2. \A q \in 0 .. n - 1 : Len(w) = n => w[q + 1] \in Word
    OBVIOUS
  <1> QED
    BY <1>1, <1>2 DEF Section

LEMMA SectionBack ==
  ASSUME NEW n \in Nat, NEW f \in [0 .. n - 1 -> Word]
  PROVE  Section(Words(f), n) = f
  <1>1. Len(Words(f)) = n /\ \A k \in 1 .. n : Words(f)[k] = f[k - 1]
    BY WordsAre
  <1>2. \A q \in 0 .. n - 1 : q + 1 \in 1 .. n /\ (q + 1) - 1 = q
    OBVIOUS
  <1>3. Section(Words(f), n) = [q \in 0 .. n - 1 |-> Words(f)[q + 1]]
    BY <1>1 DEF Section
  <1>4. \A q \in 0 .. n - 1 : Words(f)[q + 1] = f[q]
    BY <1>1, <1>2
  <1>5. f = [q \in 0 .. n - 1 |-> f[q]]
    OBVIOUS
  <1> QED
    BY <1>3, <1>4, <1>5

Sized(s, n, m) == s \in Shape(0 .. n - 1, 0 .. m - 1)

(* The hash of a state is as long as the state. *)
LEMMA HashLength ==
  ASSUME NEW n \in Nat, NEW m \in Nat, NEW s, Sized(s, n, m)
  PROVE  /\ StateHash(s) \in Seq(Word) /\ Len(StateHash(s)) = n + m
         /\ \A k \in 1 .. n : StateHash(s)[k] = s.regs[k - 1]
         /\ \A k \in 1 .. m : StateHash(s)[n + k] = s.mem[k - 1]
  <1>1. s.regs \in [0 .. n - 1 -> Word] /\ s.mem \in [0 .. m - 1 -> Word]
    BY DEF Sized, Shape
  <1>2. PICK x \in Seq(Word) : /\ x = Words(s.regs) /\ Len(x) = n
                               /\ \A k \in 1 .. n : x[k] = s.regs[k - 1]
    BY <1>1, WordsAre
  <1>3. PICK y \in Seq(Word) : /\ y = Words(s.mem) /\ Len(y) = m
                               /\ \A k \in 1 .. m : y[k] = s.mem[k - 1]
    BY <1>1, WordsAre
  <1>4. PICK z : z = x \o y
    OBVIOUS
  <1>5. z \in Seq(Word) /\ Len(z) = n + m
    <2>1. z \in Seq(Word)
      BY <1>4
    <2>2. Len(z) = Len(x) + Len(y)
      BY <1>4
    <2> QED
      BY <1>2, <1>3, <2>1, <2>2
  <1>6. \A k \in 1 .. n : z[k] = x[k]
    BY <1>2, <1>3, <1>4
  <1>7. \A k \in 1 .. m : z[n + k] = y[k]
    BY <1>2, <1>3, <1>4
  <1>8. StateHash(s) = z
    BY <1>2, <1>3, <1>4 DEF StateHash
  <1>9. \A k \in 1 .. n : z[k] = s.regs[k - 1]
    BY <1>2, <1>6
  <1>10. \A k \in 1 .. m : z[n + k] = s.mem[k - 1]
    BY <1>3, <1>7
  <1> QED
    BY <1>5, <1>8, <1>9, <1>10

(* Functions with the same values are the same. *)
LEMMA SameValues ==
  ASSUME NEW D, NEW E, NEW f \in [D -> E], NEW g \in [D -> E], \A q \in D : f[q] = g[q]
  PROVE  f = g
  OBVIOUS

(* States of one size that have the same hash are the same. *)
LEMMA HashTells ==
  ASSUME NEW n \in Nat, NEW m \in Nat, NEW s, NEW t, Sized(s, n, m), Sized(t, n, m),
         StateHash(s) = StateHash(t)
  PROVE  s = t
  <1>1. PICK h : h = StateHash(s) /\ h = StateHash(t)
    OBVIOUS
  <1>2. /\ \A k \in 1 .. n : h[k] = s.regs[k - 1]
        /\ \A k \in 1 .. m : h[n + k] = s.mem[k - 1]
    BY <1>1, HashLength
  <1>3. /\ \A k \in 1 .. n : h[k] = t.regs[k - 1]
        /\ \A k \in 1 .. m : h[n + k] = t.mem[k - 1]
    BY <1>1, HashLength
  <1>4. \A q \in 0 .. n - 1 : q + 1 \in 1 .. n /\ (q + 1) - 1 = q
    OBVIOUS
  <1>5. \A q \in 0 .. m - 1 : q + 1 \in 1 .. m /\ (q + 1) - 1 = q
    OBVIOUS
  <1>6. \A q \in 0 .. n - 1 : s.regs[q] = t.regs[q]
    BY <1>2, <1>3, <1>4
  <1>7. \A q \in 0 .. m - 1 : s.mem[q] = t.mem[q]
    BY <1>2, <1>3, <1>5, SMTT(30)
  <1>8. /\ s.regs \in [0 .. n - 1 -> Word] /\ s.mem \in [0 .. m - 1 -> Word]
        /\ t.regs \in [0 .. n - 1 -> Word] /\ t.mem \in [0 .. m - 1 -> Word]
    BY DEF Sized, Shape
  <1>9. s.regs = t.regs
    BY <1>6, <1>8, SameValues
  <1>10. s.mem = t.mem
    BY <1>7, <1>8, SameValues
  <1>11. s = [regs |-> s.regs, mem |-> s.mem] /\ t = [regs |-> t.regs, mem |-> t.mem]
    BY DEF Sized, Shape
  <1> QED
    BY <1>9, <1>10, <1>11

(* What a capsule that is accepted says: the state a and the program as they  *)
(* left host A.                                                              *)
Sound(c, a) == Accepts(c) => Imported(c) = a /\ c.src = Done /\ c.stateHash = StateHash(a)

(* The lines of a capsule are words, and its sizes are numbers. *)
Lines(c) == /\ c.regs \in Seq(Word) /\ c.mem \in Seq(Word)
            /\ c.nregs \in Nat /\ c.nmem \in Nat

LEMMA ImportedIs ==
  ASSUME NEW c, Lines(c)
  PROVE  Sized(Imported(c), c.nregs, c.nmem)
  <1>1. /\ Section(c.regs, c.nregs) \in [0 .. c.nregs - 1 -> Word]
        /\ Section(c.mem, c.nmem) \in [0 .. c.nmem - 1 -> Word]
    BY SectionIs DEF Lines
  <1> QED
    BY <1>1 DEF Imported, Sized, Shape

(* As long as the sizes and the hash of the state are those that were sent,    *)
(* and the program or its hash is, nothing else that is accepted differs.    *)
LEMMA SameSizes ==
  ASSUME NEW n \in Nat, NEW m \in Nat, NEW a, Sized(a, n, m), NEW c, Lines(c),
         c.nregs = n, c.nmem = m, c.stateHash = StateHash(a),
         c.src = Done \/ c.kernelHash = Done
  PROVE  Sound(c, a)
  <1>1. Sized(Imported(c), n, m)
    BY ImportedIs
  <1>2. ASSUME Accepts(c) PROVE Imported(c) = a /\ c.src = Done
    <2>1. StateHash(Imported(c)) = StateHash(a) /\ c.src = c.kernelHash
      BY <1>2 DEF Accepts, KernelHash
    <2>2. PICK x : x = Imported(c)
      OBVIOUS
    <2>3. x = a
      BY <1>1, <2>1, <2>2, HashTells
    <2> QED
      BY <2>1, <2>2, <2>3
  <1> QED
    BY <1>2 DEF Sound

(* A hash that is not as long as the sizes say is not that of the state. *)
LEMMA OtherSizes ==
  ASSUME NEW c, Lines(c), NEW a, NEW l \in Nat, l = Len(c.stateHash), c.nregs + c.nmem # l
  PROVE  Sound(c, a)
  <1>0. PICK x : x = Imported(c)
    OBVIOUS
  <1>1. PICK n \in Nat, m \in Nat : x = Imported(c) /\ n = c.nregs /\ m = c.nmem
    BY <1>0 DEF Lines
  <1>2. Sized(x, n, m)
    BY <1>1, ImportedIs
  <1>3. Len(StateHash(x)) = n + m
    BY <1>2, HashLength
  <1>4. StateHash(x) # c.stateHash
    BY <1>1, <1>3
  <1> QED
    BY <1>1, <1>4 DEF Sound, Accepts

(* What went out. *)
Sent(c, a, boundary) == c = Export(Done, a, boundary)

LEMMA SentSays ==
  ASSUME NEW n \in Nat, NEW m \in Nat, NEW a, Sized(a, n, m), NEW c, NEW boundary,
         Sent(c, a, boundary)
  PROVE  /\ Lines(c) /\ c.nregs = n /\ c.nmem = m /\ c.stateHash = StateHash(a)
         /\ Len(c.regs) = n /\ Len(c.mem) = m
         /\ c.src = Done /\ c.kernelHash = Done /\ c.boundaryHash = boundary
         /\ Accepts(c) /\ Imported(c) = a
  <1>1. a.regs \in [0 .. n - 1 -> Word] /\ a.mem \in [0 .. m - 1 -> Word]
        /\ a = [regs |-> a.regs, mem |-> a.mem]
    BY DEF Sized, Shape
  <1>2. PICK x \in Seq(Word) : x = Words(a.regs) /\ Len(x) = n /\ Section(x, n) = a.regs
    BY <1>1, WordsAre, SectionBack
  <1>3. PICK y \in Seq(Word) : y = Words(a.mem) /\ Len(y) = m /\ Section(y, m) = a.mem
    BY <1>1, WordsAre, SectionBack
  <1>4. /\ c.regs = x /\ c.mem = y /\ c.nregs = n /\ c.nmem = m /\ c.stateHash = StateHash(a)
        /\ c.src = Done /\ c.kernelHash = Done /\ c.boundaryHash = boundary
    BY <1>2, <1>3 DEF Sent, Export, KernelHash
  <1>5. Imported(c) = a
    BY <1>1, <1>2, <1>3, <1>4 DEF Imported
  <1>6. Accepts(c)
    BY <1>4, <1>5 DEF Accepts, KernelHash
  <1>7. Lines(c)
    BY <1>2, <1>3, <1>4 DEF Lines
  <1> QED
    BY <1>2, <1>3, <1>4, <1>5, <1>6, <1>7

(* A line with one word changed, lost or added is a line. *)
LEMMA OtherLines ==
  ASSUME NEW q \in Seq(Word), NEW v \in Word
  PROVE  /\ \A i \in DOMAIN q : [q EXCEPT ![i] = v] \in Seq(Word) /\ Without(q, i) \in Seq(Word)
         /\ <<v>> \o q \in Seq(Word)
  <1>1. Len(q) \in Nat /\ DOMAIN q = 1 .. Len(q)
    OBVIOUS
  <1>2. PICK n \in Nat : n = Len(q) /\ DOMAIN q = 1 .. n
    BY <1>1
  <1>3. q \in [1 .. n -> Word]
    BY <1>2
  <1>4. \A r \in [1 .. n -> Word] : r \in Seq(Word)
    OBVIOUS
  <1>5. ASSUME NEW i \in 1 .. n
        PROVE  [q EXCEPT ![i] = v] \in Seq(Word) /\ Without(q, i) \in Seq(Word)
    <2>1. [q EXCEPT ![i] = v] \in [1 .. n -> Word]
      BY <1>3
    <2>2. PICK m \in Nat : m = n - 1
      BY <1>5
    <2>3. PICK w : w = Without(q, i)
      OBVIOUS
    <2>4. w = [k \in 1 .. m |-> IF k < i THEN q[k] ELSE q[k + 1]]
      BY <1>2, <2>2, <2>3 DEF Without
    <2>5. \A k \in 1 .. m : k \in 1 .. n /\ k + 1 \in 1 .. n
      BY <2>2
    <2>6. w \in [1 .. m -> Word]
      BY <1>3, <2>4, <2>5
    <2>7. w \in Seq(Word)
      BY <2>6
    <2> QED
      BY <1>4, <2>1, <2>3, <2>7
  <1>6. <<v>> \o q \in Seq(Word)
    OBVIOUS
  <1> QED
    BY <1>2, <1>5, <1>6

(* Whatever happens to the text on the way: when it is still accepted, it says *)
(* what it said before.                                                      *)
LEMMA DamageSays ==
  ASSUME NEW n \in Nat \ {0}, NEW m \in Nat, NEW a, Sized(a, n, m), NEW boundary,
         Sent(capsule, a, boundary), Damage
  PROVE  Sound(capsule', a)
  <1>1. PICK c : c = capsule'
    OBVIOUS
  <1>2. PICK x, y : x = capsule.regs /\ y = capsule.mem
    OBVIOUS
  <1>3. PICK h \in Seq(Word) : h = StateHash(a) /\ Len(h) = n + m
    BY HashLength
  <1>4. capsule = [kernelHash |-> Done, boundaryHash |-> boundary, stateHash |-> h,
                   nregs |-> n, nmem |-> m, regs |-> x, mem |-> y, src |-> Done]
    <2>1. capsule.nregs = n /\ capsule.nmem = m /\ capsule.stateHash = h /\ capsule.src = Done
          /\ capsule.kernelHash = Done /\ capsule.boundaryHash = boundary
      BY <1>3, SentSays
    <2>2. capsule = [kernelHash |-> capsule.kernelHash, boundaryHash |-> capsule.boundaryHash,
                     stateHash |-> capsule.stateHash, nregs |-> capsule.nregs,
                     nmem |-> capsule.nmem, regs |-> capsule.regs, mem |-> capsule.mem,
                     src |-> capsule.src]
      BY DEF Sent, Export
    <2> QED
      BY <1>2, <2>1, <2>2
  <1>5. x \in Seq(Word) /\ y \in Seq(Word)
    BY <1>2, SentSays DEF Lines
  <1>6. ASSUME c.regs \in Seq(Word), c.mem \in Seq(Word), c.nregs = n, c.nmem = m,
               c.stateHash = h, c.src = Done \/ c.kernelHash = Done
        PROVE  Sound(c, a)
    <2>1. Lines(c)
      BY <1>6 DEF Lines
    <2> QED
      BY <1>3, <1>6, <2>1, SameSizes
  <1>7. ASSUME NEW i \in DOMAIN x, NEW w \in Word, c = [capsule EXCEPT !.regs[i] = w]
        PROVE  Sound(c, a)
    <2>1. /\ c.regs = [x EXCEPT ![i] = w] /\ c.mem = y /\ c.nregs = n /\ c.nmem = m
          /\ c.stateHash = h /\ c.src = Done
      BY <1>4, <1>7
    <2>2. [x EXCEPT ![i] = w] \in Seq(Word)
      BY <1>5, OtherLines
    <2> QED
      BY <1>5, <1>6, <2>1, <2>2
  <1>8. ASSUME NEW i \in DOMAIN y, NEW w \in Word, c = [capsule EXCEPT !.mem[i] = w]
        PROVE  Sound(c, a)
    <2>1. /\ c.mem = [y EXCEPT ![i] = w] /\ c.regs = x /\ c.nregs = n /\ c.nmem = m
          /\ c.stateHash = h /\ c.src = Done
      BY <1>4, <1>8
    <2>2. [y EXCEPT ![i] = w] \in Seq(Word)
      BY <1>5, OtherLines
    <2> QED
      BY <1>5, <1>6, <2>1, <2>2
  <1>9. ASSUME NEW q \in Seq(Word), c = [capsule EXCEPT !.regs = q]
        PROVE  Sound(c, a)
    <2>1. /\ c.regs = q /\ c.mem = y /\ c.nregs = n /\ c.nmem = m
          /\ c.stateHash = h /\ c.src = Done
      BY <1>4, <1>9
    <2> QED
      BY <1>5, <1>6, <2>1
  <1>10. ASSUME NEW k \in Nat, k # n, c = [capsule EXCEPT !.nregs = k]
         PROVE  Sound(c, a)
    <2>1. c.regs = x /\ c.mem = y /\ c.nregs = k /\ c.nmem = m /\ c.stateHash = h
      BY <1>4, <1>10
    <2>2. Lines(c)
      BY <1>5, <2>1 DEF Lines
    <2>3. c.nregs + c.nmem # n + m
      BY <1>10, <2>1
    <2>4. PICK l \in Nat : l = n + m /\ l = Len(c.stateHash)
      BY <1>3, <2>1
    <2> QED
      BY <2>2, <2>3, <2>4, OtherSizes
  <1>11. ASSUME NEW k \in Nat, k # m, c = [capsule EXCEPT !.nmem = k]
         PROVE  Sound(c, a)
    <2>1. c.regs = x /\ c.mem = y /\ c.nregs = n /\ c.nmem = k /\ c.stateHash = h
      BY <1>4, <1>11
    <2>2. Lines(c)
      BY <1>5, <2>1 DEF Lines
    <2>3. c.nregs + c.nmem # n + m
      BY <1>11, <2>1
    <2>4. PICK l \in Nat : l = n + m /\ l = Len(c.stateHash)
      BY <1>3, <2>1
    <2> QED
      BY <2>2, <2>3, <2>4, OtherSizes
  <1>12. ASSUME NEW k, c = [capsule EXCEPT !.src = k] \/ c = [capsule EXCEPT !.kernelHash = k]
         PROVE  Sound(c, a)
    <2>1. /\ c.regs = x /\ c.mem = y /\ c.nregs = n /\ c.nmem = m /\ c.stateHash = h
          /\ c.src = Done \/ c.kernelHash = Done
      BY <1>4, <1>12
    <2> QED
      BY <1>5, <1>6, <2>1
  <1>13. ASSUME NEW k, c = [capsule EXCEPT !.boundaryHash = k]
         PROVE  Sound(c, a)
    <2>1. /\ c.regs = x /\ c.mem = y /\ c.nregs = n /\ c.nmem = m /\ c.stateHash = h
          /\ c.src = Done
      BY <1>4, <1>13
    <2> QED
      BY <1>5, <1>6, <2>1
  <1>14. ASSUME c = [capsule EXCEPT !.stateHash = Tail(h)]
         PROVE  Sound(c, a)
    <2>1. c.regs = x /\ c.mem = y /\ c.nregs = n /\ c.nmem = m /\ c.stateHash = Tail(h)
      BY <1>4, <1>14
    <2>2. Lines(c)
      BY <1>5, <2>1 DEF Lines
    <2>3. PICK l \in Nat : l = Len(Tail(h)) /\ l # n + m
      <3>1. h # <<>> /\ Len(h) \in Nat
        BY <1>3
      <3>2. Len(Tail(h)) = Len(h) - 1
        BY <1>3, <3>1
      <3>3. PICK l \in Nat : l = n + m - 1 /\ l # n + m
        OBVIOUS
      <3>4. Len(Tail(h)) = l
        BY <1>3, <3>2, <3>3
      <3> QED
        BY <3>3, <3>4
    <2>4. l = Len(c.stateHash) /\ c.nregs + c.nmem # l
      BY <2>1, <2>3
    <2> QED
      BY <2>2, <2>4, OtherSizes
  <1> QED
    <2>1. ASSUME NEW i \in DOMAIN x, c = [capsule EXCEPT !.regs = Without(@, i)]
          PROVE  Sound(c, a)
      <3>1. Without(x, i) \in Seq(Word)
        BY <1>5, ZeroWord, OtherLines
      <3>2. c = [capsule EXCEPT !.regs = Without(x, i)]
        BY <1>2, <2>1
      <3> QED
        BY <1>9, <3>1, <3>2
    <2>2. ASSUME NEW w \in Word, c = [capsule EXCEPT !.regs = <<w>> \o @]
          PROVE  Sound(c, a)
      <3>1. <<w>> \o x \in Seq(Word)
        BY <1>5, OtherLines
      <3>2. c = [capsule EXCEPT !.regs = <<w>> \o x]
        BY <1>2, <2>2
      <3> QED
        BY <1>9, <3>1, <3>2
    <2>3. ASSUME NEW d \in {-1, 1}, capsule.nregs + d >= 0, c = [capsule EXCEPT !.nregs = @ + d]
          PROVE  Sound(c, a)
      <3>1. capsule.nregs = n
        BY <1>4
      <3>2. n + d \in Nat /\ n + d # n
        BY <2>3, <3>1
      <3>3. c = [capsule EXCEPT !.nregs = n + d]
        BY <2>3, <3>1
      <3> QED
        BY <1>10, <3>2, <3>3
    <2>4. ASSUME NEW d \in {-1, 1}, capsule.nmem + d >= 0, c = [capsule EXCEPT !.nmem = @ + d]
          PROVE  Sound(c, a)
      <3>1. capsule.nmem = m
        BY <1>4
      <3>2. m + d \in Nat /\ m + d # m
        BY <2>4, <3>1
      <3>3. c = [capsule EXCEPT !.nmem = m + d]
        BY <2>4, <3>1
      <3> QED
        BY <1>11, <3>2, <3>3
    <2>5. ASSUME c = [capsule EXCEPT !.boundaryHash = Tail(@)] PROVE Sound(c, a)
      BY <1>13, <2>5
    <2>6. ASSUME c = [capsule EXCEPT !.stateHash = Tail(@)] PROVE Sound(c, a)
      <3>1. capsule.stateHash = h
        BY <1>4
      <3> QED
        BY <1>14, <2>6, <3>1
    <2> QED
      BY <1>1, <1>2, <1>7, <1>8, <1>12, <2>1, <2>2, <2>3, <2>4, <2>5, <2>6 DEF Damage

(* The way of a state s: the state a it becomes on host A, and what becomes   *)
(* of that on host B.                                                        *)
Way(s, a) ==
  /\ RunForward(s, Leaves(Done)) = [s |-> a, done |-> RunForward(s, Leaves(Done)).done, out |-> "ok"]
  /\ a \in State
  /\ ReverseAll(a, Leaves(Done)).out = "ok" /\ ReverseAll(a, Leaves(Done)).s = s
  /\ RunForward(a, Leaves(Rest)).out = "ok"
  /\ RunForward(a, Leaves(Rest)).s = RunForward(s, Leaves(Done + Rest)).s

LEMMA WayExists ==
  ASSUME NEW s \in Boundaries
  PROVE  s \in State /\ \E a : Way(s, a)
  <1>1. s \in Shape(Reg, Addr) /\ Done \in Nat /\ Rest \in Nat
    BY CapsuleAssumption, StateShape
  <1>2. PICK prog \in Seq(Inst) : prog = Leaves(Done) /\ AllInvertible(prog) /\ Len(prog) \in Nat
    BY <1>1, LeavesAre
  <1>3. PICK rest \in Seq(Inst) : rest = Leaves(Rest) /\ Len(rest) \in Nat
    BY <1>1, LeavesAre
  <1>4. PICK whole \in Seq(Inst) : whole = Leaves(Done + Rest)
    <2>1. Done + Rest \in Nat
      BY <1>1
    <2> QED
      BY <2>1, LeavesAre
  <1>5. PICK n \in Nat, m \in Nat : n = Len(prog) /\ m = Len(rest)
    BY <1>2, <1>3
  <1>6. Continues(whole, prog, rest, n, m)
    <2>1. n = Len(Leaves(Done)) /\ m = Len(Leaves(Rest))
      BY <1>2, <1>3, <1>5
    <2>2. Continues(Leaves(Done + Rest), Leaves(Done), Leaves(Rest), n, m)
      BY <1>1, <2>1, RepeatsGoOn
    <2> QED
      BY <1>2, <1>3, <1>4, <2>2
  <1>7. RunForward(s, whole).out = "ok"
    BY <1>4, CapsuleAssumption
  <1>8. Goes(s, prog, rest, whole)
    BY <1>1, <1>6, <1>7, RunGoesOn
  <1>9. PICK r \in Res(Reg, Addr) : r = RunForward(s, prog)
    <2>1. HasRun(Reg, Addr, s, prog, n)
      BY <1>1, <1>5, RunExists
    <2>2. PICK f \in [0 .. n -> Res(Reg, Addr)] : RunForward(s, prog) = f[n]
      BY <2>1 DEF HasRun
    <2>3. n \in 0 .. n
      OBVIOUS
    <2> QED
      BY <2>2, <2>3
  <1>10. r.out = "ok" /\ r.s \in State /\ r = [s |-> r.s, done |-> r.done, out |-> "ok"]
    BY <1>8, <1>9, StateShape DEF Goes, Res
  <1>11. ReverseAll(r.s, prog).out = "ok" /\ ReverseAll(r.s, prog).s = s
    BY <1>1, <1>2, <1>9, <1>10, ReverseUndoesRun
  <1>12. Way(s, r.s)
    BY <1>2, <1>3, <1>4, <1>8, <1>9, <1>10, <1>11 DEF Way, Goes
  <1> QED
    BY <1>1, <1>12, StateShape

LEMMA StateSized ==
  ASSUME NEW s \in State
  PROVE  Sized(s, NRegs, NMem) /\ NRegs \in Nat \ {0} /\ NMem \in Nat
  BY SizesAssumption DEF State, Sized, Shape, Reg, Addr

(* The move of the boundary state s. *)
Moving(s) ==
  /\ s \in Boundaries
  /\ m_at = "away" => hostA = s /\ ~damaged
  /\ m_at # "away" => Way(s, hostA)
  /\ m_at = "sent" => /\ Sound(capsule, hostA)
                      /\ ~damaged => Sent(capsule, hostA, StateHash(s))
  /\ m_at \in {"back", "again", "finish"} =>
       /\ capsule.src = Done /\ meant.state = StateHash(hostA)
       /\ ~damaged => meant.boundary = StateHash(s)
  /\ m_at \in {"back", "finish"} => hostB = hostA
  /\ m_at = "again" => hostB = s
  /\ m_at = "done" => hostB = RunForward(s, Leaves(Done + Rest)).s
  /\ m_at \in {"incomplete", "unparsable", "refused", "panic"} => damaged

Stage == m_at \in {"away", "sent", "incomplete", "unparsable", "back", "again", "finish", "done",
                   "refused", "panic"}

LEMMA FreezeKeeps ==
  ASSUME NEW s, Moving(s), Freeze
  PROVE  Moving(s)' /\ Stage'
  <1>1. s \in Boundaries /\ hostA = s /\ ~damaged /\ UNCHANGED <<hostB, meant, damaged>>
    BY DEF Moving, Freeze
  <1>2. PICK a : Way(s, a)
    BY <1>1, WayExists
  <1>3. PICK r : r = RunForward(s, Leaves(Done)) /\ r.s = a /\ r.out = "ok"
    BY <1>2 DEF Way
  <1>4. hostA' = a /\ capsule' = Export(Done, a, StateHash(s)) /\ m_at' = "sent"
    BY <1>1, <1>3 DEF Freeze
  <1>5. Sent(capsule, a, StateHash(s))'
    BY <1>4 DEF Sent
  <1>6. PICK c : c = capsule' /\ Sent(c, a, StateHash(s))
    BY <1>5 DEF Sent
  <1>7. Sound(c, a)
    <2>1. Sized(a, NRegs, NMem) /\ NRegs \in Nat \ {0} /\ NMem \in Nat
      BY <1>2, StateSized DEF Way
    <2>2. c.src = Done /\ c.stateHash = StateHash(a) /\ Imported(c) = a
      BY <1>6, <2>1, SentSays
    <2> QED
      BY <2>2 DEF Sound
  <1>8. Way(s, hostA') /\ Sound(capsule', hostA') /\ Sent(capsule', hostA', StateHash(s))
    BY <1>2, <1>4, <1>6, <1>7
  <1> QED
    BY <1>1, <1>4, <1>8 DEF Moving, Stage

LEMMA DamageKeeps ==
  ASSUME NEW s, Moving(s), Damage
  PROVE  Moving(s)' /\ Stage'
  <1>1. /\ m_at = "sent" /\ ~damaged /\ damaged' = TRUE
        /\ UNCHANGED <<m_at, hostA, hostB, meant>>
    BY DEF Damage
  <1>2. PICK a : a = hostA
    OBVIOUS
  <1>3. s \in Boundaries /\ Way(s, a) /\ Sent(capsule, a, StateHash(s))
    BY <1>1, <1>2 DEF Moving
  <1>4. Sized(a, NRegs, NMem) /\ NRegs \in Nat \ {0} /\ NMem \in Nat
    BY <1>3, StateSized DEF Way
  <1>5. Sound(capsule', a)
    BY <1>3, <1>4, DamageSays
  <1>6. Way(s, hostA') /\ Sound(capsule', hostA')
    BY <1>1, <1>2, <1>3, <1>5
  <1> QED
    BY <1>1, <1>3, <1>6 DEF Moving, Stage

LEMMA DefaceKeeps ==
  ASSUME NEW s, Moving(s), Deface \/ ImportFails
  PROVE  Moving(s)' /\ Stage'
  <1>1. /\ m_at \in {"sent", "incomplete", "unparsable"}
        /\ m_at' \in {"incomplete", "unparsable", "refused", "panic"} /\ damaged'
        /\ hostA' = hostA
    BY DEF Deface, ImportFails, Moving
  <1>2. s \in Boundaries /\ Way(s, hostA)
    BY <1>1 DEF Moving
  <1>3. PICK a : a = hostA
    OBVIOUS
  <1>4. Way(s, hostA')
    BY <1>1, <1>2, <1>3
  <1> QED
    BY <1>1, <1>2, <1>4 DEF Moving, Stage

LEMMA ImportKeeps ==
  ASSUME NEW s, Moving(s), Import
  PROVE  Moving(s)' /\ Stage'
  <1>1. m_at = "sent" /\ UNCHANGED <<hostA, capsule, damaged>>
    BY DEF Import
  <1>2. PICK a, c : a = hostA /\ c = capsule
    OBVIOUS
  <1>3. s \in Boundaries /\ Way(s, a) /\ Sound(c, a) /\ (~damaged => Sent(c, a, StateHash(s)))
    BY <1>1, <1>2 DEF Moving
  <1>4. Sized(a, NRegs, NMem) /\ NRegs \in Nat \ {0} /\ NMem \in Nat
    BY <1>3, StateSized DEF Way
  <1>5. ~damaged => Accepts(c) /\ c.boundaryHash = StateHash(s)
    BY <1>3, <1>4, SentSays
  <1>6. Way(s, hostA')
    BY <1>1, <1>2, <1>3
  <1>7. CASE Accepts(c)
    <2>1. /\ hostB' = Imported(c) /\ m_at' = "back"
          /\ meant' = [boundary |-> c.boundaryHash, state |-> c.stateHash]
      BY <1>2, <1>7 DEF Import
    <2>2. Imported(c) = a /\ c.src = Done /\ c.stateHash = StateHash(a)
      BY <1>3, <1>7 DEF Sound
    <2>3. hostB' = hostA' /\ capsule'.src = Done /\ meant'.state = StateHash(hostA')
      BY <1>1, <1>2, <2>1, <2>2
    <2>4. ~damaged' => meant'.boundary = StateHash(s)
      BY <1>1, <1>5, <2>1
    <2> QED
      BY <1>3, <1>6, <2>1, <2>3, <2>4 DEF Moving, Stage
  <1>8. CASE ~Accepts(c)
    <2>1. m_at' = "refused" /\ damaged'
      BY <1>1, <1>2, <1>5, <1>8 DEF Import
    <2> QED
      BY <1>3, <1>6, <2>1 DEF Moving, Stage
  <1> QED
    BY <1>7, <1>8

LEMMA GoBackKeeps ==
  ASSUME NEW s, Moving(s), GoBack
  PROVE  Moving(s)' /\ Stage'
  <1>1. m_at = "back" /\ UNCHANGED <<hostA, capsule, meant, damaged>>
    BY DEF GoBack
  <1>2. PICK a : a = hostA
    OBVIOUS
  <1>3. /\ s \in Boundaries /\ Way(s, a) /\ hostB = a
        /\ capsule.src = Done /\ meant.state = StateHash(a)
        /\ ~damaged => meant.boundary = StateHash(s)
    BY <1>1, <1>2 DEF Moving
  <1>4. PICK r : r = ReverseAll(a, Leaves(Done)) /\ r.out = "ok" /\ r.s = s
    BY <1>3 DEF Way
  <1>5. /\ hostB' = s
        /\ m_at' = IF StateHash(s) = meant.boundary THEN "again" ELSE "refused"
    BY <1>3, <1>4 DEF GoBack
  <1>6. /\ Way(s, hostA') /\ capsule'.src = Done /\ meant'.state = StateHash(hostA')
        /\ ~damaged' => meant'.boundary = StateHash(s)
    BY <1>1, <1>2, <1>3
  <1>7. m_at' = "again" \/ (m_at' = "refused" /\ damaged')
    BY <1>1, <1>3, <1>5
  <1> QED
    BY <1>3, <1>5, <1>6, <1>7 DEF Moving, Stage

LEMMA GoAgainKeeps ==
  ASSUME NEW s, Moving(s), GoAgain
  PROVE  Moving(s)' /\ Stage'
  <1>1. m_at = "again" /\ UNCHANGED <<hostA, capsule, meant, damaged>>
    BY DEF GoAgain
  <1>2. PICK a : a = hostA
    OBVIOUS
  <1>3. /\ s \in Boundaries /\ Way(s, a) /\ hostB = s
        /\ capsule.src = Done /\ meant.state = StateHash(a)
        /\ ~damaged => meant.boundary = StateHash(s)
    BY <1>1, <1>2 DEF Moving
  <1>4. PICK r : r = RunForward(s, Leaves(Done)) /\ r.out = "ok" /\ r.s = a
    BY <1>3 DEF Way
  <1>5. hostB' = a /\ m_at' = "finish"
    BY <1>2, <1>3, <1>4 DEF GoAgain
  <1>6. /\ Way(s, hostA') /\ capsule'.src = Done /\ meant'.state = StateHash(hostA')
        /\ ~damaged' => meant'.boundary = StateHash(s)
        /\ hostB' = hostA'
    BY <1>1, <1>2, <1>3, <1>5
  <1> QED
    BY <1>3, <1>5, <1>6 DEF Moving, Stage

LEMMA FinishKeeps ==
  ASSUME NEW s, Moving(s), FinishOnB
  PROVE  Moving(s)' /\ Stage'
  <1>1. m_at = "finish" /\ UNCHANGED <<hostA, capsule, meant, damaged>>
    BY DEF FinishOnB
  <1>2. PICK a : a = hostA
    OBVIOUS
  <1>3. s \in Boundaries /\ Way(s, a) /\ hostB = a
    BY <1>1, <1>2 DEF Moving
  <1>4. PICK r : /\ r = RunForward(a, Leaves(Rest)) /\ r.out = "ok"
                 /\ r.s = RunForward(s, Leaves(Done + Rest)).s
    BY <1>3 DEF Way
  <1>5. hostB' = RunForward(s, Leaves(Done + Rest)).s /\ m_at' = "done"
    BY <1>3, <1>4 DEF FinishOnB
  <1>6. Way(s, hostA')
    BY <1>1, <1>2, <1>3
  <1> QED
    BY <1>3, <1>5, <1>6 DEF Moving, Stage

MoveInv == Stage /\ \E s : Moving(s)

(* A capsule that was damaged on the way is refused or was not damaged in     *)
(* anything that counts, and one that was not goes on as if the state had    *)
(* never moved.                                                              *)
THEOREM CapsuleLeavesNoTrace == MoveSpec => []CapsuleMoves
  <1>1. MoveStart(TRUE) => MoveInv
    <2> SUFFICES ASSUME MoveStart(TRUE) PROVE MoveInv
      OBVIOUS
    <2>1. PICK s \in Boundaries : hostA = s /\ hostB = s
      BY DEF MoveStart, Among
    <2>2. m_at = "away" /\ damaged = FALSE
      BY DEF MoveStart
    <2>3. Moving(s) /\ Stage
      BY <2>1, <2>2 DEF Moving, Stage
    <2> QED
      BY <2>3 DEF MoveInv
  <1>2. MoveInv /\ [MoveNext]_moveVars => MoveInv'
    <2> SUFFICES ASSUME MoveInv, [MoveNext]_moveVars PROVE MoveInv'
      OBVIOUS
    <2>1. PICK s : Moving(s) /\ Stage
      BY DEF MoveInv
    <2>2. CASE UNCHANGED moveVars
      <3>1. Moving(s)' /\ Stage'
        BY <2>1, <2>2 DEF Moving, Stage, moveVars, Way, Sound, Sent, Accepts, Imported
      <3> QED
        BY <3>1 DEF MoveInv
    <2>3. CASE MoveNext
      <3>1. Moving(s)' /\ Stage'
        BY <2>1, <2>3, FreezeKeeps, DamageKeeps, DefaceKeeps, ImportKeeps, GoBackKeeps, GoAgainKeeps,
           FinishKeeps DEF MoveNext
      <3> QED
        BY <3>1 DEF MoveInv
    <2> QED
      BY <2>2, <2>3
  <1>3. MoveInv => CapsuleMoves
    <2> SUFFICES ASSUME MoveInv PROVE CapsuleMoves
      OBVIOUS
    <2>1. PICK s : Moving(s)
      BY DEF MoveInv
    <2>2. DamageRefused
      BY <2>1 DEF Moving, DamageRefused
    <2>3. m_at \in {"refused", "panic"} => damaged
      BY <2>1 DEF Moving
    <2>4. m_at = "done" => s \in Boundaries /\ RunForward(s, Leaves(Done)).s = hostA
                           /\ RunForward(s, Leaves(Done + Rest)).s = hostB
      BY <2>1 DEF Moving, Way
    <2> QED
      BY <2>2, <2>3, <2>4 DEF CapsuleMoves, MoveLeavesNoTrace
  <1> QED
    BY <1>1, <1>2, <1>3, PTL DEF MoveSpec

-----------------------------------------------------------------------------
(* The rollback server. *)

Here == IF now <= NT THEN now ELSE NT
Over == phase \in {"compare", "converged", "diverged"}

(* How far the timelines go, and what the counters say in each phase. *)
Extent ==
  /\ phase = "reference" =>
       /\ now = 0 /\ goal = 0 /\ world = Start
       /\ line = [t \in {0} |-> Start]
       /\ pending = Tick \X Entity /\ due = {}
       /\ log = [t \in 0 .. NT |-> NoInput]
       /\ ref \in [0 .. curSim -> World]
  /\ phase # "reference" => ref \in [0 .. NT -> World]
  /\ phase \in {"arrive", "deliver"} =>
       /\ now <= NT + DelayMax
       /\ curSim = Here
       /\ line \in [0 .. curSim -> World]
  /\ Reconciling =>
       /\ now <= NT + DelayMax
       /\ goal = Here
       /\ late \in due
       /\ late[1] < goal
       /\ curSim \in late[1] .. goal
       /\ line \in [0 .. goal -> World]
  /\ Over =>
       /\ curSim = NT
       /\ line \in [0 .. NT -> World]
  /\ line[0] = Start

(* The reference timeline is a run on the true inputs. *)
RefRight ==
  /\ ref[0] = Start
  /\ \A k \in 1 .. NT : (phase = "reference" => k <= curSim)
                          => ref[k] = Simulated(ref[k - 1], truth[k - 1])

(* What has arrived and was dealt with is in the log. *)
LogRight ==
  /\ \A x \in Tick \X Entity : x \notin Outstanding => log[x[1]][x[2]] = Val(x)
  /\ phase = "resim" => log[late[1]][late[2]] = Val(late)

(* When inputs can still be on their way. *)
Window ==
  /\ \A x \in due : x[1] <= now /\ x[1] + DelayMax >= now
  /\ phase = "arrive" => due = {} /\ \A x \in pending : x[1] + DelayMax >= now
  /\ phase = "deliver" \/ Reconciling => \A x \in pending : x[1] + DelayMax > now
  /\ Over => due = {} /\ pending = {}

IInv == TypeOK /\ WorldIsReplay /\ NeverDiverges /\ Extent /\ RefRight /\ LogRight /\ Window

-----------------------------------------------------------------------------
(* The kernel. *)

LEMMA WordFacts ==
  /\ 0 \in Word
  /\ \A i \in Int : AsWord(i) \in Word
  <1>1. Modulus \in Nat \ {0, 1}
    BY ModulusFacts
  <1>2. \A K \in Nat \ {0} : \A i \in Int : i % K \in 0 .. K - 1
    BY SMT
  <1> QED
    BY <1>1, <1>2 DEF AsWord, Word

LEMMA LoadType ==
  ASSUME NEW in \in Known
  PROVE  Load(in) \in Register
  <1>1. \A e \in Entity : in[e] \in Int
    BY NetcodeAssumption DEF Known
  <1> QED
    BY <1>1, WordFacts DEF Load, Register

LEMMA StartType == Start \in World /\ NoInput \in Known
  BY WordFacts, NetcodeAssumption DEF Start, Zero, World, Register, NoInput, Known

(* A tick maps worlds to worlds, and so does taking one back. *)
LEMMA KernelType ==
  ASSUME NEW w \in World, NEW in \in Known
  PROVE  Simulated(w, in) \in World /\ TakenBack(w, in) \in World
  <1> DEFINE u == Load(in)
             v == [e \in Entity |-> WrapAdd(w.v[e], u[e])]
  <1>1. u \in Register /\ w.p \in Register /\ w.v \in Register
    BY LoadType DEF World
  <1>2. v \in Register
    BY <1>1, AddSubCancel DEF Register
  <1>3. [e \in Entity |-> WrapAdd(w.p[e], v[e])] \in Register
    BY <1>1, <1>2, AddSubCancel DEF Register
  <1>4. /\ [e \in Entity |-> WrapSub(w.p[e], w.v[e])] \in Register
        /\ [e \in Entity |-> WrapSub(w.v[e], u[e])] \in Register
    BY <1>1, AddSubCancel DEF Register
  <1> HIDE DEF u, v
  <1>5. [p |-> [e \in Entity |-> WrapAdd(w.p[e], v[e])], v |-> v, u |-> u] \in World
    BY <1>1, <1>2, <1>3 DEF World
  <1>6. [p |-> [e \in Entity |-> WrapSub(w.p[e], w.v[e])],
         v |-> [e \in Entity |-> WrapSub(w.v[e], u[e])], u |-> u] \in World
    BY <1>1, <1>4 DEF World
  <1> QED
    BY <1>5, <1>6 DEF Simulated, TakenBack, u, v

(* A tick overwrites the input registers: it depends on places and speeds. *)
LEMMA KernelInput ==
  ASSUME NEW w, NEW x, NEW in, w.p = x.p, w.v = x.v
  PROVE  Simulated(w, in) = Simulated(x, in)
  BY DEF Simulated

(* Taking a tick back with its inputs gives the places and speeds before it. *)
LEMMA KernelCancel ==
  ASSUME NEW w \in World, NEW in \in Known, NEW x,
         x.p = Simulated(w, in).p, x.v = Simulated(w, in).v
  PROVE  TakenBack(x, in).p = w.p /\ TakenBack(x, in).v = w.v
  <1> DEFINE u == Load(in)
             v == [e \in Entity |-> WrapAdd(w.v[e], u[e])]
  <1>1. u \in Register /\ w.p \in Register /\ w.v \in Register
    BY LoadType DEF World
  <1>2. v \in Register
    BY <1>1, AddSubCancel DEF Register
  <1>3. x.v = v /\ x.p = [e \in Entity |-> WrapAdd(w.p[e], v[e])]
    BY DEF Simulated
  <1>4. ASSUME NEW e \in Entity
        PROVE  WrapSub(x.p[e], x.v[e]) = w.p[e] /\ WrapSub(x.v[e], u[e]) = w.v[e]
    <2>1. w.p[e] \in Word /\ w.v[e] \in Word /\ u[e] \in Word /\ v[e] \in Word
      BY <1>1, <1>2 DEF Register
    <2>2. x.v[e] = v[e] /\ v[e] = WrapAdd(w.v[e], u[e]) /\ x.p[e] = WrapAdd(w.p[e], v[e])
      BY <1>3
    <2> HIDE DEF u, v
    <2> QED
      BY <2>1, <2>2, AddSubCancel
  <1>5. /\ w.p = [e \in Entity |-> WrapSub(x.p[e], x.v[e])]
        /\ w.v = [e \in Entity |-> WrapSub(x.v[e], u[e])]
    BY <1>1, <1>4 DEF Register
  <1> QED
    BY <1>5 DEF TakenBack

-----------------------------------------------------------------------------
(* The timeline up to curSim is the simulation of the log. *)
Replayed == \A k \in 1 .. curSim : line[k] = Simulated(line[k - 1], log[k - 1])
At(w)    == w.p = line[curSim].p /\ w.v = line[curSim].v

(* Simulating one more tick extends the replayed timeline. *)
LEMMA SimulateFacts ==
  ASSUME TypeOK, NEW k \in 0 .. NT, line \in [0 .. k -> World],
         curSim <= k, curSim < NT, At(world), Replayed, Simulate, UNCHANGED log
  PROVE  /\ world' \in World
         /\ line' \in [0 .. (IF curSim = k THEN k + 1 ELSE k) -> World]
         /\ curSim' = curSim + 1
         /\ world' = line'[curSim']
         /\ At(world)' /\ Replayed'
         /\ line'[0] = line[0]
  <1>1. curSim \in 0 .. k /\ NT \in Nat /\ curSim + 1 \in 1 .. k + 1 /\ curSim \in 0 .. NT
    BY NetcodeAssumption DEF TypeOK
  <1>2. world \in World /\ log[curSim] \in Known
    BY <1>1 DEF TypeOK
  <1>3. world' = Simulated(world, log[curSim]) /\ world' \in World
    BY <1>2, KernelType DEF Simulate
  <1>4. line' = Recorded(line, curSim + 1, world') /\ curSim' = curSim + 1
    BY DEF Simulate
  <1>5. /\ line' \in [0 .. (IF curSim = k THEN k + 1 ELSE k) -> World]
        /\ line'[curSim + 1] = world'
        /\ \A j \in 0 .. curSim : line'[j] = line[j]
        /\ line'[0] = line[0]
    <2> DEFINE n == curSim + 1
    <2>1. k \in Nat /\ n \in 1 .. k + 1
      BY <1>1
    <2>2. /\ Recorded(line, n, world') \in [0 .. (IF n = k + 1 THEN k + 1 ELSE k) -> World]
          /\ Recorded(line, n, world')[n] = world'
          /\ \A j \in 0 .. n - 1 : Recorded(line, n, world')[j] = line[j]
          /\ Recorded(line, n, world')[0] = line[0]
      <3> HIDE DEF n
      <3> QED
        BY <2>1, <1>3, line \in [0 .. k -> World] DEF Recorded
    <2>3. line' = Recorded(line, n, world')
      BY <1>4
    <2>4. 0 .. n - 1 = 0 .. curSim /\ (n = k + 1 <=> curSim = k)
      BY <1>1
    <2> HIDE DEF n
    <2>5. /\ line' \in [0 .. (IF curSim = k THEN k + 1 ELSE k) -> World]
          /\ line'[n] = world'
          /\ \A j \in 0 .. curSim : line'[j] = line[j]
          /\ line'[0] = line[0]
      BY <2>2, <2>3, <2>4
    <2> QED
      BY <2>5 DEF n
  <1>6. world' = Simulated(line[curSim], log[curSim])
    BY <1>3, KernelInput DEF At
  <1>7. ASSUME NEW j \in 1 .. curSim + 1
        PROVE  line'[j] = Simulated(line'[j - 1], log[j - 1])
    <2>1. CASE j = curSim + 1
      BY <2>1, <1>1, <1>5, <1>6
    <2>2. CASE j \in 1 .. curSim
      BY <2>2, <1>1, <1>5 DEF Replayed
    <2> QED
      BY <2>1, <2>2, <1>1
  <1>8. Replayed'
    BY <1>7, <1>4 DEF Replayed
  <1> QED
    BY <1>1, <1>3, <1>4, <1>5, <1>8 DEF At

(* What WorldIsReplay says, with its parts named. *)
LEMMA ReplayParts ==
  WorldIsReplay <=>
    (Serving =>
       /\ At(world)
       /\ phase # "back" /\ curSim > 0 /\ (phase = "resim" => curSim > late[1])
            => world = line[curSim]
       /\ Replayed)
  BY DEF WorldIsReplay, At, Replayed

(* Correcting the input of a tick that is not simulated leaves the timeline  *)
(* a replay, and what was in the log stays in it.                            *)
LEMMA CorrectedFacts ==
  ASSUME TypeOK, NEW x \in Tick \X Entity, log' = Corrected(x), UNCHANGED <<line, curSim>>,
         curSim <= x[1], Replayed
  PROVE  /\ log' \in [0 .. NT -> Known]
         /\ log'[x[1]][x[2]] = Val(x)
         /\ \A y \in Tick \X Entity : y # x => log'[y[1]][y[2]] = log[y[1]][y[2]]
         /\ Replayed'
  <1>1. x[1] \in 0 .. NT - 1 /\ x[2] \in Entity /\ NT \in Nat /\ x = <<x[1], x[2]>>
    BY NetcodeAssumption DEF Tick
  <1>2. Val(x) \in Inputs
    BY <1>1 DEF TypeOK, Val, Known, Tick
  <1>3. log \in [0 .. NT -> [Entity -> Inputs]]
    BY DEF TypeOK, Known
  <1>4. log' = [log EXCEPT ![x[1]] = [log[x[1]] EXCEPT ![x[2]] = Val(x)]]
    BY DEF Corrected
  <1>5. log' \in [0 .. NT -> [Entity -> Inputs]]
    BY <1>1, <1>2, <1>3, <1>4
  <1>6. log'[x[1]][x[2]] = Val(x)
    BY <1>1, <1>3, <1>4
  <1>7. ASSUME NEW y \in Tick \X Entity, y # x
        PROVE  log'[y[1]][y[2]] = log[y[1]][y[2]]
    <2>1. y[1] \in 0 .. NT /\ y[2] \in Entity /\ y = <<y[1], y[2]>>
      BY <1>1 DEF Tick
    <2>2. y[1] # x[1] \/ y[2] # x[2]
      BY <2>1, <1>1, <1>7
    <2> QED
      BY <2>1, <2>2, <1>1, <1>3, <1>4
  <1>8. \A k \in 0 .. NT : k # x[1] => log'[k] = log[k]
    BY <1>1, <1>3, <1>4
  <1>9. ASSUME NEW k \in 1 .. curSim
        PROVE  log'[k - 1] = log[k - 1]
    BY <1>1, <1>8 DEF TypeOK
  <1> QED
    BY <1>5, <1>6, <1>7, <1>9 DEF Known, Replayed

-----------------------------------------------------------------------------
(* The invariant holds at first, and every action keeps it. *)

LEMMA IInvInit ==
  ASSUME Init
  PROVE  IInv
  <1>1. NT \in Nat /\ DelayMax \in Nat /\ 0 \in 0 .. NT
    BY NetcodeAssumption
  <1>2. [t \in {0} |-> Start] \in [0 .. 0 -> World] /\ 0 .. 0 = {0}
    BY StartType
  <1>3. TypeOK
    BY <1>1, <1>2, StartType, SMTT(30) DEF Init, TypeOK, IsTimeline
  <1>4. WorldIsReplay /\ NeverDiverges
    BY DEF Init, WorldIsReplay, NeverDiverges, Serving
  <1>5. Extent
    BY <1>2 DEF Init, Extent, Reconciling, Over
  <1>6. RefRight
    BY <1>1 DEF Init, RefRight
  <1>7. LogRight /\ Window
    BY DEF Init, LogRight, Window, Outstanding, Reconciling, Over
  <1> QED
    BY <1>3, <1>4, <1>5, <1>6, <1>7 DEF IInv

LEMMA KeepReferenceTick ==
  ASSUME IInv, ReferenceTick
  PROVE  IInv'
  <1> USE DEF ReferenceTick
  <1>1. /\ NT \in Nat /\ curSim \in 0 .. NT /\ curSim + 1 \in 0 .. NT /\ curSim' = curSim + 1
        /\ ref \in [0 .. curSim -> World] /\ truth[curSim] \in Known
        /\ truth' = truth /\ phase = "reference" /\ phase' = "reference"
    BY NetcodeAssumption DEF IInv, TypeOK, Extent, Tick
  <1>2. Simulated(ref[curSim], truth[curSim]) \in World
    BY <1>1, KernelType
  <1>3. /\ ref' \in [0 .. curSim + 1 -> World]
        /\ ref'[curSim + 1] = Simulated(ref[curSim], truth[curSim])
        /\ \A k \in 0 .. curSim : ref'[k] = ref[k]
    BY <1>1, <1>2 DEF Recorded
  <1>4. IsTimeline(ref')
    BY <1>1, <1>3 DEF IsTimeline
  <1>5. TypeOK'
    BY <1>1, <1>4 DEF IInv, TypeOK, IsTimeline
  <1>6. RefRight'
    <2>1. ASSUME NEW k \in 1 .. curSim + 1
          PROVE  ref'[k] = Simulated(ref'[k - 1], truth[k - 1])
      <3>1. CASE k = curSim + 1
        BY <3>1, <1>1, <1>3
      <3>2. CASE k \in 1 .. curSim
        <4>1. k - 1 \in 0 .. curSim /\ k \in 0 .. curSim /\ k \in 1 .. NT
          BY <3>2, <1>1
        <4> QED
          BY <3>2, <4>1, <1>1, <1>3 DEF IInv, RefRight
      <3> QED
        BY <3>1, <3>2, <1>1
    <2>2. ref'[0] = Start
      BY <1>1, <1>3 DEF IInv, RefRight
    <2> QED
      BY <2>1, <2>2, <1>1 DEF RefRight
  <1>7. Extent'
    BY <1>1, <1>3 DEF IInv, Extent, Reconciling, Over
  <1>8. (WorldIsReplay /\ NeverDiverges /\ LogRight /\ Window)'
    BY <1>1 DEF IInv, WorldIsReplay, NeverDiverges, LogRight, Window, Outstanding,
                Serving, Reconciling, Over, Val
  <1> QED
    BY <1>5, <1>6, <1>7, <1>8 DEF IInv

LEMMA KeepReferenceEnd ==
  ASSUME IInv, ReferenceEnd
  PROVE  IInv'
  <1> USE DEF ReferenceEnd
  <1>1. /\ NT \in Nat /\ DelayMax \in Nat
        /\ phase = "reference" /\ phase' = "arrive" /\ curSim = NT /\ curSim' = 0
        /\ now = 0 /\ line = [t \in {0} |-> Start] /\ world = Start
        /\ due = {} /\ pending = Tick \X Entity /\ ref \in [0 .. NT -> World]
    BY NetcodeAssumption DEF IInv, Extent
  <1>2. TypeOK'
    BY <1>1 DEF IInv, TypeOK, IsTimeline
  <1>3. (WorldIsReplay /\ NeverDiverges)'
    BY <1>1 DEF WorldIsReplay, NeverDiverges, Serving
  <1>4. Extent'
    BY <1>1, StartType DEF IInv, Extent, Reconciling, Over, Here
  <1>5. RefRight'
    BY <1>1 DEF IInv, RefRight
  <1>6. (LogRight /\ Window)'
    BY <1>1 DEF IInv, LogRight, Window, Outstanding, Reconciling, Over, Tick
  <1> QED
    BY <1>2, <1>3, <1>4, <1>5, <1>6 DEF IInv

LEMMA KeepArrive ==
  ASSUME IInv, Arrive
  PROVE  IInv'
  <1> USE DEF Arrive
  <1>1. PICK arrived \in SUBSET {x \in pending : x[1] <= now} :
          InTime(arrived) /\ due' = arrived /\ pending' = pending \ arrived
    OBVIOUS
  <1>2. /\ NT \in Nat /\ DelayMax \in Nat /\ now \in Nat
        /\ phase = "arrive" /\ phase' = "deliver" /\ due = {}
        /\ \A x \in pending : x[1] \in Nat
    BY NetcodeAssumption DEF IInv, TypeOK, Window, Tick
  <1>3. Outstanding' = Outstanding
    BY <1>1, <1>2 DEF Outstanding
  <1>4. TypeOK'
    BY <1>1 DEF IInv, TypeOK, IsTimeline
  <1>5. (WorldIsReplay /\ NeverDiverges)'
    BY <1>2 DEF IInv, WorldIsReplay, NeverDiverges, Serving
  <1>6. Extent'
    BY <1>2 DEF IInv, Extent, Reconciling, Over, Here
  <1>7. RefRight' /\ LogRight'
    BY <1>2, <1>3 DEF IInv, RefRight, LogRight, Val
  <1>8. Window'
    BY <1>1, <1>2 DEF IInv, Window, Reconciling, Over, InTime
  <1> QED
    BY <1>4, <1>5, <1>6, <1>7, <1>8 DEF IInv

LEMMA KeepRemember ==
  ASSUME IInv, NEW x \in Tick \X Entity, Remember(x)
  PROVE  IInv'
  <1> USE DEF Remember, NextDue
  <1>1. /\ phase = "deliver" /\ phase' = "deliver" /\ x \in due /\ due' = due \ {x}
        /\ log' = Corrected(x) /\ curSim <= x[1] /\ TypeOK /\ Replayed /\ At(world)
        /\ (curSim > 0 => world = line[curSim])
    <2>1. x[1] \in Nat /\ curSim \in Nat
      BY NetcodeAssumption DEF Tick, IInv, TypeOK
    <2> QED
      BY <2>1, ReplayParts DEF IInv, Serving
  <1>2. /\ log' \in [0 .. NT -> Known]
        /\ log'[x[1]][x[2]] = Val(x)
        /\ \A y \in Tick \X Entity : y # x => log'[y[1]][y[2]] = log[y[1]][y[2]]
        /\ Replayed'
    BY <1>1, CorrectedFacts
  <1>3. TypeOK'
    BY <1>1, <1>2 DEF TypeOK, IsTimeline
  <1>4. WorldIsReplay'
    BY <1>1, <1>2 DEF WorldIsReplay, Replayed, At
  <1>5. LogRight'
    BY <1>1, <1>2 DEF IInv, LogRight, Outstanding, Val
  <1>6. (NeverDiverges /\ Extent /\ RefRight /\ Window)'
    BY <1>1 DEF IInv, NeverDiverges, Extent, RefRight, Window, Reconciling, Over, Here
  <1> QED
    BY <1>3, <1>4, <1>5, <1>6 DEF IInv

LEMMA KeepPredictedRight ==
  ASSUME IInv, NEW x \in Tick \X Entity, PredictedRight(x)
  PROVE  IInv'
  <1> USE DEF PredictedRight, NextDue
  <1>1. phase = "deliver" /\ phase' = "deliver" /\ due' = due \ {x}
    OBVIOUS
  <1>2. TypeOK'
    BY DEF IInv, TypeOK, IsTimeline
  <1>3. WorldIsReplay'
    BY DEF IInv, WorldIsReplay, Serving
  <1>4. LogRight'
    BY DEF IInv, LogRight, Outstanding, Val
  <1>5. (NeverDiverges /\ Extent /\ RefRight /\ Window)'
    BY DEF IInv, NeverDiverges, Extent, RefRight, Window, Reconciling, Over, Here
  <1> QED
    BY <1>2, <1>3, <1>4, <1>5 DEF IInv

LEMMA KeepReconcile ==
  ASSUME IInv, NEW x \in Tick \X Entity, Reconcile(x)
  PROVE  IInv'
  <1> USE DEF Reconcile, NextDue
  <1>1. /\ phase = "deliver" /\ phase' = "back" /\ late' = x /\ goal' = curSim
        /\ x[1] \in Nat /\ x \in Nat \X Nat /\ curSim \in 0 .. NT /\ NT \in Nat
    BY NetcodeAssumption DEF Tick, Entity, IInv, TypeOK
  <1>2. TypeOK'
    BY <1>1 DEF IInv, TypeOK, IsTimeline
  <1>3. WorldIsReplay'
    BY <1>1 DEF IInv, WorldIsReplay, Serving
  <1>4. Extent'
    BY <1>1 DEF IInv, Extent, Reconciling, Over, Here
  <1>5. (NeverDiverges /\ RefRight /\ LogRight /\ Window)'
    BY <1>1 DEF IInv, NeverDiverges, RefRight, LogRight, Window, Outstanding, Val,
                Reconciling, Over
  <1> QED
    BY <1>2, <1>3, <1>4, <1>5 DEF IInv

(* A tick taken back lands on the world recorded before it. *)
LEMMA KeepBackTick ==
  ASSUME IInv, BackTick
  PROVE  IInv'
  <1> USE DEF BackTick
  <1>1. /\ phase = "back" /\ phase' = "back" /\ curSim' = curSim - 1
        /\ curSim \in 1 .. NT /\ NT \in Nat /\ curSim - 1 \in 0 .. NT
        /\ late[1] \in Nat /\ goal \in 0 .. NT /\ curSim <= goal
        /\ line \in [0 .. goal -> World] /\ TypeOK /\ Replayed /\ At(world)
    <2>1. late[1] \in Nat /\ curSim \in 0 .. NT /\ goal \in 0 .. NT /\ NT \in Nat
      BY NetcodeAssumption DEF IInv, TypeOK
    <2>2. Replayed /\ At(world)
      BY ReplayParts DEF IInv, Serving
    <2> QED
      BY <2>1, <2>2 DEF IInv, Extent, Reconciling
  <1>2. /\ line[curSim - 1] \in World /\ log[curSim - 1] \in Known
        /\ line[curSim] = Simulated(line[curSim - 1], log[curSim - 1])
    BY <1>1 DEF Replayed, TypeOK
  <1>3. /\ world'.p = line[curSim - 1].p
        /\ world'.v = line[curSim - 1].v
    BY <1>1, <1>2, KernelCancel DEF At
  <1>4. world' \in World
    BY <1>1, <1>2, KernelType DEF TypeOK
  <1>5. TypeOK'
    BY <1>1, <1>4 DEF TypeOK, IsTimeline
  <1>6. WorldIsReplay'
    <2>1. \A k \in 1 .. curSim - 1 : line[k] = Simulated(line[k - 1], log[k - 1])
      BY <1>1 DEF Replayed
    <2> QED
      BY <2>1, <1>1, <1>3 DEF WorldIsReplay
  <1>7. Extent'
    BY <1>1 DEF IInv, Extent, Reconciling, Over, Here
  <1>8. (NeverDiverges /\ RefRight /\ LogRight /\ Window)'
    BY <1>1 DEF IInv, NeverDiverges, RefRight, LogRight, Window, Outstanding, Val,
                Reconciling, Over
  <1> QED
    BY <1>5, <1>6, <1>7, <1>8 DEF IInv

LEMMA KeepCorrect ==
  ASSUME IInv, Correct
  PROVE  IInv'
  <1> USE DEF Correct
  <1>1. /\ phase = "back" /\ phase' = "resim" /\ curSim = late[1]
        /\ log' = Corrected(late) /\ late \in Tick \X Entity /\ late \in due
        /\ curSim \in 0 .. NT /\ NT \in Nat /\ TypeOK /\ Replayed /\ At(world)
    <2>1. Replayed /\ At(world)
      BY ReplayParts DEF IInv, Serving
    <2> QED
      BY <2>1, NetcodeAssumption DEF IInv, TypeOK, Extent, Reconciling
  <1>2. /\ log' \in [0 .. NT -> Known]
        /\ log'[late[1]][late[2]] = Val(late)
        /\ \A y \in Tick \X Entity : y # late => log'[y[1]][y[2]] = log[y[1]][y[2]]
        /\ Replayed'
    BY <1>1, CorrectedFacts
  <1>3. TypeOK'
    BY <1>1, <1>2 DEF TypeOK, IsTimeline
  <1>4. WorldIsReplay'
    BY <1>1, <1>2 DEF WorldIsReplay, Replayed, At
  <1>5. LogRight'
    BY <1>1, <1>2 DEF IInv, LogRight, Outstanding, Val
  <1>6. (NeverDiverges /\ Extent /\ RefRight /\ Window)'
    BY <1>1 DEF IInv, NeverDiverges, Extent, RefRight, Window, Reconciling, Over, Here
  <1> QED
    BY <1>3, <1>4, <1>5, <1>6 DEF IInv

LEMMA KeepResimTick ==
  ASSUME IInv, ResimTick
  PROVE  IInv'
  <1> USE DEF ResimTick
  <1>1. /\ phase = "resim" /\ phase' = "resim" /\ late[1] \in Nat
        /\ curSim \in 0 .. NT /\ NT \in Nat /\ goal \in 0 .. NT /\ curSim < goal
        /\ curSim < NT /\ curSim >= late[1] /\ curSim <= goal
        /\ line \in [0 .. goal -> World] /\ TypeOK /\ Replayed /\ At(world)
    <2>1. late[1] \in Nat /\ curSim \in 0 .. NT /\ goal \in 0 .. NT /\ NT \in Nat
      BY NetcodeAssumption DEF IInv, TypeOK
    <2>2. Replayed /\ At(world)
      BY ReplayParts DEF IInv, Serving
    <2> QED
      BY <2>1, <2>2 DEF IInv, Extent, Reconciling
  <1>2. /\ world' \in World
        /\ line' \in [0 .. (IF curSim = goal THEN goal + 1 ELSE goal) -> World]
        /\ curSim' = curSim + 1
        /\ world' = line'[curSim']
        /\ At(world)' /\ Replayed'
        /\ line'[0] = line[0]
    BY <1>1, SimulateFacts
  <1>3. line' \in [0 .. goal -> World] /\ curSim' \in 0 .. NT /\ curSim' \in late[1] .. goal
    BY <1>1, <1>2
  <1>4. TypeOK'
    BY <1>1, <1>2, <1>3 DEF TypeOK, IsTimeline
  <1>5. WorldIsReplay'
    BY <1>2 DEF WorldIsReplay, Replayed, At
  <1>6. Extent'
    BY <1>1, <1>2, <1>3 DEF IInv, Extent, Reconciling, Over, Here
  <1>7. (NeverDiverges /\ RefRight /\ LogRight /\ Window)'
    BY <1>1 DEF IInv, NeverDiverges, RefRight, LogRight, Window, Outstanding, Val,
                Reconciling, Over
  <1> QED
    BY <1>4, <1>5, <1>6, <1>7 DEF IInv

LEMMA KeepReconcileEnd ==
  ASSUME IInv, ReconcileEnd
  PROVE  IInv'
  <1> USE DEF ReconcileEnd
  <1>1. /\ phase = "resim" /\ phase' = "deliver" /\ curSim = goal /\ due' = due \ {late}
        /\ late \in Tick \X Entity /\ late[1] < goal /\ late = <<late[1], late[2]>>
        /\ log[late[1]][late[2]] = Val(late)
    BY DEF IInv, TypeOK, Extent, Reconciling, LogRight
  <1>2. TypeOK'
    BY <1>1 DEF IInv, TypeOK, IsTimeline
  <1>3. WorldIsReplay'
    BY <1>1 DEF IInv, WorldIsReplay, Serving
  <1>4. LogRight'
    BY <1>1 DEF IInv, LogRight, Outstanding, Val
  <1>5. Extent'
    BY <1>1 DEF IInv, Extent, Reconciling, Over, Here
  <1>6. (NeverDiverges /\ RefRight /\ Window)'
    BY <1>1 DEF IInv, NeverDiverges, RefRight, Window, Reconciling, Over
  <1> QED
    BY <1>2, <1>3, <1>4, <1>5, <1>6 DEF IInv

LEMMA KeepAdvance ==
  ASSUME IInv, Advance
  PROVE  IInv'
  <1> USE DEF Advance
  <1>1. /\ phase = "deliver" /\ due = {} /\ now' = now + 1 /\ curSim = Here
        /\ NT \in Nat /\ DelayMax \in Nat /\ now \in 0 .. NT + DelayMax
        /\ curSim \in 0 .. NT /\ line \in [0 .. curSim -> World]
        /\ TypeOK /\ Replayed /\ At(world) /\ (curSim > 0 => world = line[curSim])
        /\ line[0] = Start
    <2>1. Replayed /\ At(world) /\ (curSim > 0 => world = line[curSim])
      BY ReplayParts DEF IInv, Serving
    <2> QED
      BY <2>1, NetcodeAssumption DEF IInv, TypeOK, Extent
  <1>2. phase' = (IF now + 1 > NT + DelayMax THEN "compare" ELSE "arrive")
    OBVIOUS
  <1>3. /\ world' \in World
        /\ curSim' = IF now + 1 <= NT THEN now + 1 ELSE NT
        /\ line' \in [0 .. curSim' -> World] /\ line'[0] = Start
        /\ At(world)' /\ Replayed' /\ (curSim' > 0 => world' = line'[curSim'])
    <2>1. CASE now < NT
      <3>1. Simulate /\ curSim = now /\ curSim < NT /\ UNCHANGED log
        BY <2>1, <1>1 DEF Here
      <3>2. /\ world' \in World
            /\ line' \in [0 .. (IF curSim = curSim THEN curSim + 1 ELSE curSim) -> World]
            /\ curSim' = curSim + 1
            /\ world' = line'[curSim']
            /\ At(world)' /\ Replayed'
            /\ line'[0] = line[0]
        BY <3>1, <1>1, SimulateFacts
      <3> QED
        BY <3>1, <3>2, <1>1
    <2>2. CASE ~(now < NT)
      <3>1. curSim = NT /\ UNCHANGED <<world, line, curSim, log>>
        BY <2>2, <1>1 DEF Here
      <3> QED
        BY <2>2, <3>1, <1>1 DEF TypeOK, Replayed, At
    <2> QED
      BY <2>1, <2>2
  <1>4. curSim' \in 0 .. NT
    BY <1>1, <1>3
  <1>5. TypeOK'
    <2>1. IsTimeline(line')
      BY <1>3, <1>4 DEF IsTimeline
    <2>2. /\ now' \in 0 .. NT + DelayMax + 1
          /\ phase' \in {"arrive", "compare"}
      BY <1>1, <1>2
    <2>3. UNCHANGED <<truth, ref, pending, due, log, goal, late>>
      OBVIOUS
    <2>4. IsTimeline(ref')
      BY <1>1, <2>3 DEF TypeOK
    <2> QED
      BY ONLY <1>1, <1>3, <1>4, <2>1, <2>2, <2>3, <2>4 DEF TypeOK
  <1>6. WorldIsReplay'
    BY <1>3 DEF WorldIsReplay, Replayed, At
  <1>7. Extent'
    BY <1>1, <1>2, <1>3 DEF IInv, Extent, Reconciling, Over, Here
  <1>8. Window'
    <2>1. \A x \in pending : x[1] \in 0 .. NT - 1 /\ x[1] + DelayMax > now
      BY <1>1 DEF IInv, Window, TypeOK, Tick
    <2> QED
      BY <2>1, <1>1, <1>2 DEF Window, Reconciling, Over
  <1>9. (NeverDiverges /\ RefRight /\ LogRight)'
    BY <1>1, <1>2 DEF IInv, NeverDiverges, RefRight, LogRight, Outstanding, Val
  <1> QED
    BY <1>5, <1>6, <1>7, <1>8, <1>9 DEF IInv

-----------------------------------------------------------------------------
(* Two runs on the same inputs from the same start are the same: the least   *)
(* tick at which they differ would follow from a tick at which they agree.   *)
LEMMA SameInputsSameRun ==
  ASSUME NEW n \in Nat, NEW f, NEW g, NEW in, f[0] = g[0],
         \A k \in 1 .. n : f[k] = Simulated(f[k - 1], in[k - 1])
                           /\ g[k] = Simulated(g[k - 1], in[k - 1])
  PROVE  \A k \in 0 .. n : f[k] = g[k]
  <1> DEFINE D == {k \in 0 .. n : f[k] # g[k]}
  <1>1. SUFFICES ASSUME D # {} PROVE FALSE
    OBVIOUS
  <1>2. PICK m \in D : \A k \in D : m <= k
    <2>1. D \subseteq Nat
      OBVIOUS
    <2> QED
      BY <1>1, <2>1, LeastNat
  <1>3. m \in 1 .. n /\ m - 1 \in 0 .. n /\ m - 1 \notin D
    BY <1>2
  <1> QED
    BY <1>2, <1>3

(* The timeline is right wherever all inputs before it are in the log. *)
LEMMA ConfirmedFromIInv ==
  ASSUME IInv
  PROVE  ConfirmedExact
  <1>1. SUFFICES ASSUME Serving, NEW t \in 0 .. curSim, \A x \in Outstanding : x[1] >= t
                 PROVE  line[t] = ref[t]
    BY DEF ConfirmedExact
  <1>2. /\ NT \in Nat /\ t \in 0 .. NT /\ curSim \in 0 .. NT /\ t \in Nat
        /\ phase # "reference" /\ Replayed
    BY <1>1, NetcodeAssumption, ReplayParts DEF IInv, TypeOK, Serving
  <1>3. ASSUME NEW k \in 0 .. t - 1
        PROVE  log[k] = truth[k]
    <2>1. k \in Tick /\ k \in 0 .. NT /\ k < t
      BY <1>2 DEF Tick
    <2>2. \A e \in Entity : log[k][e] = truth[k][e]
      <3>1. ASSUME NEW e \in Entity
            PROVE  log[k][e] = truth[k][e]
        <4>1. <<k, e>> \in Tick \X Entity /\ <<k, e>>[1] = k /\ <<k, e>>[2] = e
          BY <2>1
        <4>2. <<k, e>> \notin Outstanding
          BY <4>1, <1>1, <2>1, <1>2
        <4> QED
          BY <4>1, <4>2 DEF IInv, LogRight, Val
      <3> QED
        BY <3>1
    <2>3. log[k] \in [Entity -> Inputs] /\ truth[k] \in [Entity -> Inputs]
      BY <2>1 DEF IInv, TypeOK, Known
    <2> QED
      BY <2>2, <2>3
  <1>4. line[0] = ref[0]
    BY DEF IInv, Extent, RefRight
  <1>5. ASSUME NEW k \in 1 .. t
        PROVE  /\ line[k] = Simulated(line[k - 1], log[k - 1])
               /\ ref[k] = Simulated(ref[k - 1], log[k - 1])
    <2>1. k \in 1 .. curSim /\ k \in 1 .. NT /\ k - 1 \in 0 .. t - 1
      BY <1>2
    <2> QED
      BY <2>1, <1>2, <1>3 DEF Replayed, IInv, RefRight
  <1>6. \A k \in 0 .. t : line[k] = ref[k]
    BY <1>2, <1>4, <1>5, SameInputsSameRun
  <1> QED
    BY <1>2, <1>6

LEMMA KeepCompare ==
  ASSUME IInv, Compare
  PROVE  IInv'
  <1> USE DEF Compare
  <1>1. /\ phase = "compare" /\ curSim = NT /\ NT \in Nat
        /\ due = {} /\ pending = {}
    BY NetcodeAssumption DEF IInv, Extent, Window, Over
  <1>2. \A t \in 0 .. NT : line[t] = ref[t]
    BY <1>1, ConfirmedFromIInv DEF ConfirmedExact, Serving, Outstanding
  <1>3. phase' = "converged"
    BY <1>1, <1>2 DEF Agrees
  <1>4. TypeOK'
    BY <1>3 DEF IInv, TypeOK, IsTimeline
  <1>5. (WorldIsReplay /\ NeverDiverges)'
    BY <1>3 DEF WorldIsReplay, NeverDiverges, Serving
  <1>6. (Extent /\ RefRight /\ LogRight /\ Window)'
    BY <1>1, <1>3 DEF IInv, Extent, RefRight, LogRight, Window, Outstanding, Val,
                      Reconciling, Over, Here
  <1> QED
    BY <1>4, <1>5, <1>6 DEF IInv

LEMMA WindowFromIInv ==
  ASSUME IInv
  PROVE  WindowBounded
  <1>1. NT \in Nat /\ DelayMax \in Nat /\ now \in Nat /\ goal \in Nat
    BY NetcodeAssumption DEF IInv, TypeOK
  <1>2. ASSUME Reconciling
        PROVE  goal - late[1] \in 1 .. DelayMax
    <2>1. /\ late \in due /\ late[1] < goal /\ goal = Here
          /\ late[1] + DelayMax >= now /\ late[1] \in Nat
      BY <1>2 DEF IInv, TypeOK, Extent, Window
    <2> QED
      BY <2>1, <1>1 DEF Here
  <1> QED
    BY <1>2 DEF IInv, Window, WindowBounded

-----------------------------------------------------------------------------
LEMMA IInvStep ==
  ASSUME IInv, [Next]_vars
  PROVE  IInv'
  <1>1. CASE UNCHANGED vars
    BY <1>1 DEF IInv, vars, TypeOK, IsTimeline, WorldIsReplay, NeverDiverges, Extent, RefRight,
                LogRight, Window, Outstanding, Val, Serving, Reconciling, Over, Here
  <1>2. CASE Next
    BY <1>2, KeepReferenceTick, KeepReferenceEnd, KeepArrive, KeepRemember,
       KeepPredictedRight, KeepReconcile, KeepBackTick, KeepCorrect, KeepResimTick,
       KeepReconcileEnd, KeepAdvance, KeepCompare
       DEF Next, Deliver
  <1> QED
    BY <1>1, <1>2

LEMMA Invariance == Spec => []IInv
  BY IInvInit, IInvStep, PTL DEF Spec

(* Types of the server's state, the extent of its timelines included. *)
THEOREM NetcodeTypeCorrect == Spec => []TypeOK
  <1>1. IInv => TypeOK
    BY DEF IInv
  <1> QED
    BY <1>1, Invariance, PTL

(* Ticks taken back land on recorded worlds, without a snapshot of them. *)
THEOREM WorldReplay == Spec => []WorldIsReplay
  <1>1. IInv => WorldIsReplay
    BY DEF IInv
  <1> QED
    BY <1>1, Invariance, PTL

(* What is confirmed is exact. *)
THEOREM ConfirmedCorrect == Spec => []ConfirmedExact
  BY Invariance, ConfirmedFromIInv, PTL

(* No reconciliation leaves the window. *)
THEOREM WindowCorrect == Spec => []WindowBounded
  BY Invariance, WindowFromIInv, PTL

(* Whatever the delays, the final comparison succeeds. *)
THEOREM ServerNeverDiverges == Spec => []NeverDiverges
  <1>1. IInv => NeverDiverges
    BY DEF IInv
  <1> QED
    BY <1>1, Invariance, PTL

-----------------------------------------------------------------------------
(* The batches of transfers. *)

(* The partial sums of the balances. *)
Sums(t, mem) ==
  /\ t \in [0 .. NAccounts -> Int] /\ t[0] = 0
  /\ \A a \in 1 .. NAccounts : t[a] = t[a - 1] + mem[a - 1]
  /\ Total(mem) = t[NAccounts]

LEMMA AccountsAre ==
  /\ NAccounts \in Nat \ {0} /\ Account = 0 .. NAccounts - 1
  /\ \A k \in 1 .. NAccounts : k - 1 \in Account
  /\ Account \subseteq Word
  BY BankAssumption, ModulusFacts DEF Account, Word

LEMMA SumsExist ==
  ASSUME NEW mem \in [Account -> Int]
  PROVE  \E t : Sums(t, mem)
  <1>1. PICK n \in Nat : n = NAccounts
    BY AccountsAre
  <1> DEFINE S == Int
  <1>2. \A k \in 1 .. n : mem[k - 1] \in Int
    BY <1>1, AccountsAre
  <1> DEFINE step == [k \in 1 .. n |-> [x \in Int |-> x + mem[k - 1]]]
  <1>3. step \in [1 .. n -> [S -> S]]
    BY <1>2
  <1>a. 0 \in S
    OBVIOUS
  <1> HIDE DEF S, step
  <1>4. PICK f : /\ f \in [0 .. n -> Int] /\ f[0] = 0
                 /\ \A k \in 1 .. n : f[k] = step[k][f[k - 1]]
    <2>1. \E f : Chain(f, n, S, 0, step)
      BY <1>3, <1>a, Recursion
    <2> QED
      BY <2>1 DEF Chain, S
  <1>5. ASSUME NEW k \in 1 .. n PROVE f[k] = f[k - 1] + mem[k - 1]
    <2>1. k - 1 \in 0 .. n
      OBVIOUS
    <2>2. f[k - 1] \in Int
      BY <1>4, <2>1
    <2>3. step[k][f[k - 1]] = f[k - 1] + mem[k - 1]
      BY <2>2 DEF step
    <2> QED
      BY <1>4, <2>3
  <1> DEFINE Adds(g) == g = [k \in 0 .. n |-> IF k = 0 THEN 0 ELSE g[k - 1] + mem[k - 1]]
  <1>6. Adds(f)
    <2>1. \A k \in 0 .. n : f[k] = IF k = 0 THEN 0 ELSE f[k - 1] + mem[k - 1]
      <3>1. \A k \in 0 .. n : k = 0 \/ k \in 1 .. n
        OBVIOUS
      <3> QED
        BY <1>4, <1>5, <3>1
    <2> QED
      BY <1>4, <2>1
  <1>7. PICK g : g = CHOOSE h : Adds(h)
    OBVIOUS
  <1>8. Adds(g)
    BY <1>6, <1>7
  <1>9. Total(mem) = g[n]
    BY <1>1, <1>7 DEF Total
  <1>10. g[0] = 0 /\ DOMAIN g = 0 .. n
    BY <1>8
  <1>11. \A k \in 1 .. n : g[k] = g[k - 1] + mem[k - 1]
    BY <1>8
  <1>12. g = [k \in 0 .. n |-> g[k]]
    BY <1>8
  <1> HIDE DEF Adds
  <1>13. \A k \in 0 .. n : g[k] \in Int
    <2> DEFINE P == {k \in 0 .. n : g[k] \in Int}
    <2>1. 0 \in P
      BY <1>10
    <2>2. ASSUME NEW k \in 1 .. n, k - 1 \in P PROVE k \in P
      BY <1>2, <1>11, <2>2
    <2>3. \A k \in 1 .. n : k - 1 \in P => k \in P
      BY <2>2
    <2> HIDE DEF P
    <2>4. \A k \in 0 .. n : k \in P
      BY <2>1, <2>3, UpTo
    <2> QED
      BY <2>4 DEF P
  <1>14. g \in [0 .. n -> Int]
    BY <1>12, <1>13
  <1>15. Sums(g, mem)
    BY <1>1, <1>9, <1>10, <1>11, <1>14 DEF Sums
  <1> QED
    BY <1>15

(* What one account loses another one gains: the sum is the same. *)
LEMMA SumStays ==
  ASSUME NEW mem \in [Account -> Int], NEW other \in [Account -> Int],
         NEW p \in Account, NEW q \in Account, NEW m \in Int, p # q,
         other = [mem EXCEPT ![p] = @ - m, ![q] = @ + m]
  PROVE  Total(other) = Total(mem)
  <1>1. PICK n \in Nat : n = NAccounts /\ Account = 0 .. n - 1
    BY AccountsAre
  <1>2. PICK t : Sums(t, mem)
    BY SumsExist
  <1>3. PICK u : Sums(u, other)
    BY SumsExist
  <1>4. /\ t \in [0 .. n -> Int] /\ t[0] = 0 /\ Total(mem) = t[n]
        /\ \A a \in 1 .. n : t[a] = t[a - 1] + mem[a - 1]
    BY <1>1, <1>2 DEF Sums
  <1>5. /\ u \in [0 .. n -> Int] /\ u[0] = 0 /\ Total(other) = u[n]
        /\ \A a \in 1 .. n : u[a] = u[a - 1] + other[a - 1]
    BY <1>1, <1>3 DEF Sums
  <1>6. \A a \in 0 .. n - 1 : /\ mem[a] \in Int
                             /\ other[a] = mem[a] + (IF a = p THEN -m ELSE IF a = q THEN m ELSE 0)
    BY <1>1
  <1> DEFINE Gap(a) == (IF p < a THEN -m ELSE 0) + (IF q < a THEN m ELSE 0)
             P == {a \in 0 .. n : u[a] = t[a] + Gap(a)}
  <1>7. 0 \in P
    BY <1>1, <1>4, <1>5
  <1>8. ASSUME NEW a \in 1 .. n, a - 1 \in P PROVE a \in P
    <2>1. PICK b \in 0 .. n - 1 : b = a - 1
      OBVIOUS
    <2>2. t[a] = t[b] + mem[b] /\ u[a] = u[b] + other[b] /\ u[b] = t[b] + Gap(b)
      BY <1>4, <1>5, <1>8, <2>1
    <2>3. t[b] \in Int /\ mem[b] \in Int
      BY <1>4, <1>6, <2>1
    <2>4. Gap(a) = Gap(b) + (IF b = p THEN -m ELSE IF b = q THEN m ELSE 0)
      BY <1>1, <2>1
    <2>5. Gap(b) \in Int
      OBVIOUS
    <2>6. other[b] = mem[b] + (IF b = p THEN -m ELSE IF b = q THEN m ELSE 0)
      BY <1>6
    <2>7. u[a] = t[a] + Gap(a)
      BY <2>2, <2>3, <2>4, <2>5, <2>6
    <2> QED
      BY <2>7
  <1>9. \A a \in 1 .. n : a - 1 \in P => a \in P
    BY <1>8
  <1> HIDE DEF P
  <1>10. n \in P
    <2>1. \A a \in 0 .. n : a \in P
      BY <1>7, <1>9, UpTo
    <2> QED
      BY <2>1
  <1>11. u[n] = t[n] + Gap(n)
    BY <1>10 DEF P
  <1>12. Gap(n) = 0
    BY <1>1
  <1>13. t[n] \in Int
    BY <1>4
  <1> QED
    BY <1>4, <1>5, <1>11, <1>12, <1>13

(* No balance is above the sum of them all. *)
LEMMA SumBounds ==
  ASSUME NEW mem \in [Account -> Nat], NEW a \in Account
  PROVE  mem[a] <= Total(mem)
  <1>1. PICK n \in Nat : n = NAccounts /\ Account = 0 .. n - 1
    BY AccountsAre
  <1>2. PICK t : Sums(t, mem)
    <2>1. mem \in [Account -> Int]
      OBVIOUS
    <2> QED
      BY <2>1, SumsExist
  <1>3. /\ t \in [0 .. n -> Int] /\ t[0] = 0 /\ Total(mem) = t[n]
        /\ \A k \in 1 .. n : t[k] = t[k - 1] + mem[k - 1]
    BY <1>1, <1>2 DEF Sums
  <1>4. \A k \in 0 .. n - 1 : mem[k] \in Nat
    BY <1>1
  <1> DEFINE P == {k \in 0 .. n : t[k] >= 0 /\ (a < k => t[k] >= mem[a])}
  <1>5. 0 \in P
    BY <1>1, <1>3
  <1>6. ASSUME NEW k \in 1 .. n, k - 1 \in P PROVE k \in P
    <2>1. PICK b \in 0 .. n - 1 : b = k - 1
      OBVIOUS
    <2>2. t[k] = t[b] + mem[b] /\ t[b] \in Int /\ mem[b] \in Nat /\ mem[a] \in Nat
      BY <1>1, <1>3, <1>4, <2>1
    <2>3. t[b] >= 0 /\ (a < b => t[b] >= mem[a])
      BY <1>6, <2>1
    <2>4. a < k => a < b \/ a = b
      BY <1>1, <2>1
    <2> QED
      BY <2>2, <2>3, <2>4
  <1>7. \A k \in 1 .. n : k - 1 \in P => k \in P
    BY <1>6
  <1> HIDE DEF P
  <1>8. n \in P
    <2>1. \A k \in 0 .. n : k \in P
      BY <1>5, <1>7, UpTo
    <2> QED
      BY <2>1
  <1>9. a < n
    BY <1>1
  <1> QED
    BY <1>3, <1>8, <1>9 DEF P

(* The transfers of a batch: between two accounts each, of amounts that are   *)
(* no more than the most there is.                                           *)
Orders == [Transfer -> {p \in [from : Account, to : Account, amt : 0 .. MaxBal] : p.from # p.to}]
Table  == [Account -> Word]

(* The balances as a batch goes on, in words and in numbers. *)
Book(x, first, sp) ==
  /\ x \in [0 .. Transfers -> Table] /\ x[0] = first
  /\ \A k \in 1 .. Transfers : x[k] = Moved(x[k - 1], sp[k])

Truly(v, first, sp) ==
  /\ v \in [0 .. Transfers -> [Account -> Int]] /\ v[0] = first
  /\ \A k \in 1 .. Transfers :
       v[k] = [v[k - 1] EXCEPT ![sp[k].from] = @ - sp[k].amt, ![sp[k].to] = @ + sp[k].amt]

LEMMA BankFacts ==
  /\ Transfers \in Nat /\ Transfer = 1 .. Transfers
  /\ MaxBal \in Nat /\ Modulus \in Nat \ {0} /\ (Transfers + 1) * MaxBal < Modulus
  /\ 0 .. MaxBal \subseteq Word
  <1>1. PICK n \in Nat, b \in Nat, m \in Nat \ {0} :
          n = Transfers /\ b = MaxBal /\ m = Modulus /\ (n + 1) * b < m
    BY BankAssumption, ModulusFacts
  <1>2. n * b \in Nat
    BY SMT
  <1>3. (n + 1) * b = n * b + b
    BY SMT
  <1>4. b < m
    BY <1>1, <1>2, <1>3
  <1>5. 0 .. MaxBal \subseteq Word
    BY <1>1, <1>4 DEF Word
  <1> QED
    BY <1>1, <1>5 DEF Transfer

LEMMA MovedTable ==
  ASSUME NEW x \in Table, NEW sp \in Orders, NEW k \in Transfer
  PROVE  /\ Moved(x, sp[k]) \in Table
         /\ sp[k].from \in Account /\ sp[k].to \in Account /\ sp[k].from # sp[k].to
         /\ sp[k].amt \in 0 .. MaxBal /\ sp[k].amt \in Word
         /\ \A a \in Account : Moved(x, sp[k])[a] = IF a = sp[k].from THEN WrapSub(x[a], sp[k].amt)
                                                   ELSE IF a = sp[k].to THEN WrapAdd(x[a], sp[k].amt)
                                                   ELSE x[a]
  <1>1. PICK p : p = sp[k]
    OBVIOUS
  <1>2. p.from \in Account /\ p.to \in Account /\ p.amt \in 0 .. MaxBal /\ p.from # p.to
    BY <1>1 DEF Orders
  <1>3. p.amt \in Word
    BY <1>2, BankFacts
  <1>4. \A a \in Account : /\ x[a] \in Word /\ WrapSub(x[a], p.amt) \in Word
                          /\ WrapAdd(x[a], p.amt) \in Word
    BY <1>3, AddSubCancel DEF Table
  <1>5. Moved(x, p) = [a \in Account |-> IF a = p.from THEN WrapSub(x[a], p.amt)
                                         ELSE IF a = p.to THEN WrapAdd(x[a], p.amt)
                                         ELSE x[a]]
    BY <1>2 DEF Moved, Table
  <1>6. Moved(x, p) \in Table
    BY <1>4, <1>5 DEF Table
  <1> QED
    BY <1>1, <1>2, <1>3, <1>5, <1>6

HasBook(first, sp) == \E x : Book(x, first, sp)

LEMMA BookExists ==
  ASSUME NEW first \in Table, NEW sp \in Orders
  PROVE  HasBook(first, sp)
  <1>1. PICK n \in Nat : n = Transfers /\ Transfer = 1 .. n
    BY BankFacts
  <1> DEFINE step == [k \in 1 .. n |-> [x \in Table |-> Moved(x, sp[k])]]
  <1>2. step \in [1 .. n -> [Table -> Table]]
    BY <1>1, MovedTable
  <1> HIDE DEF step
  <1>3. PICK f : Chain(f, n, Table, first, step)
    BY <1>2, Recursion
  <1>4. f \in [0 .. n -> Table] /\ f[0] = first /\ \A k \in 1 .. n : f[k] = step[k][f[k - 1]]
    BY <1>3 DEF Chain
  <1>5. ASSUME NEW k \in 1 .. n PROVE f[k] = Moved(f[k - 1], sp[k])
    <2>1. k - 1 \in 0 .. n
      OBVIOUS
    <2>2. f[k - 1] \in Table
      BY <1>4, <2>1
    <2>3. step[k][f[k - 1]] = Moved(f[k - 1], sp[k])
      BY <2>2 DEF step
    <2> QED
      BY <1>4, <2>3
  <1>6. Book(f, first, sp)
    BY <1>1, <1>4, <1>5 DEF Book
  <1> QED
    BY <1>6 DEF HasBook

HasTruth(first, sp) == \E v : Truly(v, first, sp)

LEMMA TruthExists ==
  ASSUME NEW first \in Table, NEW sp \in Orders
  PROVE  HasTruth(first, sp)
  <1>1. PICK n \in Nat : n = Transfers /\ Transfer = 1 .. n
    BY BankFacts
  <1> DEFINE S == [Account -> Int]
             step == [k \in 1 .. n |-> [v \in S |->
                        [v EXCEPT ![sp[k].from] = @ - sp[k].amt, ![sp[k].to] = @ + sp[k].amt]]]
  <1>2. step \in [1 .. n -> [S -> S]]
    <2>1. \A k \in 1 .. n : sp[k].from \in Account /\ sp[k].to \in Account /\ sp[k].amt \in Int
      BY <1>1 DEF Orders
    <2>2. ASSUME NEW v \in S, NEW k \in 1 .. n
          PROVE  [v EXCEPT ![sp[k].from] = @ - sp[k].amt, ![sp[k].to] = @ + sp[k].amt] \in S
      BY <2>1
    <2> QED
      BY <2>2
  <1>a. first \in S
    BY ModulusFacts DEF Table, Word
  <1> HIDE DEF S, step
  <1>3. PICK f : Chain(f, n, S, first, step)
    BY <1>2, <1>a, Recursion
  <1>4. f \in [0 .. n -> S] /\ f[0] = first /\ \A k \in 1 .. n : f[k] = step[k][f[k - 1]]
    BY <1>3 DEF Chain
  <1>5. ASSUME NEW k \in 1 .. n
        PROVE  f[k] = [f[k - 1] EXCEPT ![sp[k].from] = @ - sp[k].amt, ![sp[k].to] = @ + sp[k].amt]
    <2>1. k - 1 \in 0 .. n
      OBVIOUS
    <2>2. PICK v \in S : v = f[k - 1]
      BY <1>4, <2>1
    <2>3. step[k][v] = [v EXCEPT ![sp[k].from] = @ - sp[k].amt, ![sp[k].to] = @ + sp[k].amt]
      BY DEF step
    <2> QED
      BY <1>4, <2>2, <2>3
  <1>6. Truly(f, first, sp)
    BY <1>1, <1>4, <1>5 DEF Truly, S
  <1> QED
    BY <1>6 DEF HasTruth

(* What a transfer does to the true balances. *)
Pays(u, w, p) ==
  /\ u \in [Account -> Int] /\ w \in [Account -> Int] /\ Total(w) = Total(u)
  /\ \A a \in Account : w[a] = IF a = p.from THEN u[a] - p.amt
                               ELSE IF a = p.to THEN u[a] + p.amt ELSE u[a]

LEMMA TrueStep ==
  ASSUME NEW first, NEW sp \in Orders, NEW v, Truly(v, first, sp), NEW k \in Transfer
  PROVE  Pays(v[k - 1], v[k], sp[k])
  <1>1. PICK n \in Nat : n = Transfers /\ Transfer = 1 .. n
    BY BankFacts
  <1>2. k - 1 \in 0 .. n /\ k \in 0 .. n
    BY <1>1
  <1>3. PICK u \in [Account -> Int], w \in [Account -> Int] : u = v[k - 1] /\ w = v[k]
    BY <1>1, <1>2 DEF Truly
  <1>4. PICK p : p = sp[k]
    OBVIOUS
  <1>5. p.from \in Account /\ p.to \in Account /\ p.amt \in Int /\ p.from # p.to
    BY <1>4 DEF Orders
  <1>6. w = [u EXCEPT ![p.from] = @ - p.amt, ![p.to] = @ + p.amt]
    BY <1>1, <1>3, <1>4 DEF Truly
  <1>7. Total(w) = Total(u)
    <2>1. PICK c \in Account, d \in Account, m \in Int :
            c = p.from /\ d = p.to /\ m = p.amt /\ c # d
      BY <1>5
    <2>2. w = [u EXCEPT ![c] = @ - m, ![d] = @ + m]
      BY <1>6, <2>1
    <2> QED
      BY <2>1, <2>2, SumStays
  <1>8. \A a \in Account : w[a] = IF a = p.from THEN u[a] - p.amt
                                 ELSE IF a = p.to THEN u[a] + p.amt ELSE u[a]
    BY <1>5, <1>6
  <1> QED
    BY <1>3, <1>4, <1>7, <1>8 DEF Pays

(* Taking the rest first makes no difference. *)
LEMMA ModGoesOn ==
  ASSUME NEW m \in Nat \ {0}, NEW i \in Int, NEW d \in Int
  PROVE  ((i % m) + d) % m = (i + d) % m
  <1>1. PICK q \in Int, r \in 0 .. m - 1 : i = q * m + r /\ r = i % m
    BY DivModSplit
  <1>2. PICK j \in Int : j = r + d
    OBVIOUS
  <1>3. PICK p \in Int, s \in 0 .. m - 1 : j = p * m + s /\ s = j % m
    BY DivModSplit
  <1>4. q + p \in Int /\ ((q + p) * m + s) % m = s
    BY DivModUnique
  <1>5. i + d = (q + p) * m + s
    <2>1. (q + p) * m = q * m + p * m
      BY SMT
    <2>2. PICK e \in Int, f \in Int, g \in Int :
            e = q * m /\ f = p * m /\ g = (q + p) * m /\ g = e + f
      <3>1. q * m \in Int /\ p * m \in Int /\ (q + p) * m \in Int
        BY SMT
      <3> QED
        BY <2>1, <3>1
    <2>3. i = e + r /\ r + d = f + s
      BY <1>1, <1>2, <1>3, <2>2
    <2>4. i + d = g + s
      BY <2>2, <2>3
    <2> QED
      BY <2>2, <2>4
  <1> QED
    BY <1>1, <1>2, <1>3, <1>4, <1>5

(* A true balance that a batch can lead to, and the word it is kept in: it is  *)
(* below zero just when the word is above all there is.                      *)
Possible(i) == -(Transfers * MaxBal) <= i /\ i <= Transfers * MaxBal + MaxBal

LEMMA WordTells ==
  ASSUME NEW i \in Int, Possible(i)
  PROVE  /\ i >= 0 => i % Modulus = i
         /\ i < 0  => i % Modulus > MaxBal
  <1>1. PICK t \in Nat, b \in Nat, m \in Nat \ {0} : /\ t = Transfers * MaxBal /\ b = MaxBal
                                                    /\ m = Modulus /\ t + b < m
    <2>1. PICK n \in Nat, b \in Nat : n = Transfers /\ b = MaxBal /\ (n + 1) * b < Modulus
      BY BankFacts
    <2>2. n * b \in Nat /\ (n + 1) * b = n * b + b
      BY SMT
    <2> QED
      BY <2>1, <2>2, BankFacts
  <1>2. -t <= i /\ i <= t + b
    BY <1>1 DEF Possible
  <1>3. CASE i >= 0
    <2>1. i \in 0 .. m - 1
      BY <1>1, <1>2, <1>3
    <2>2. (0 * m + i) % m = i
      BY <2>1, DivModUnique
    <2>3. 0 * m + i = i
      BY <2>1, SMT
    <2> QED
      BY <1>1, <1>3, <2>2, <2>3
  <1>4. CASE i < 0
    <2>1. i + m \in 0 .. m - 1 /\ i + m > b
      BY <1>1, <1>2, <1>4
    <2>2. ((-1) * m + (i + m)) % m = i + m
      BY <2>1, DivModUnique
    <2>3. (-1) * m + (i + m) = i
      BY <2>1, SMT
    <2> QED
      BY <1>1, <1>4, <2>1, <2>2, <2>3
  <1> QED
    BY <1>3, <1>4

(* The words follow the true balances. *)
Follows(x, v, first) ==
  \A k \in 0 .. Transfers :
    /\ Total(v[k]) = Total(first)
    /\ \A a \in Account : x[k][a] = v[k][a] % Modulus /\ Possible(v[k][a])

LEMMA BooksFollow ==
  ASSUME NEW first \in [Account -> 0 .. MaxBal], NEW sp \in Orders,
         NEW x, NEW v, Book(x, first, sp), Truly(v, first, sp)
  PROVE  Follows(x, v, first)
  <1>1. PICK n \in Nat, b \in Nat, m \in Nat \ {0} :
          n = Transfers /\ b = MaxBal /\ m = Modulus /\ Transfer = 1 .. n /\ Word = 0 .. m - 1
    BY BankFacts DEF Word
  <1>2. /\ \A k \in Nat : k * b \in Nat
        /\ \A k \in 1 .. n : k * b = (k - 1) * b + b
        /\ \A k \in 0 .. n : k * b <= n * b
    <2>1. \A k \in Nat : k * b \in Nat
      BY SMT
    <2>2. \A k \in 1 .. n : k * b = (k - 1) * b + b
      BY SMT
    <2>3. ASSUME NEW k \in 0 .. n PROVE k * b <= n * b
      <3>1. PICK l \in Nat : n = k + l
        <4>1. n - k \in Nat /\ n = k + (n - k)
          OBVIOUS
        <4> QED
          BY <4>1
      <3>2. n * b = k * b + l * b
        BY <3>1, SMT
      <3> QED
        BY <2>1, <3>1, <3>2
    <2> QED
      BY <2>1, <2>2, <2>3
  <1> DEFINE Holds(k) ==
               /\ Total(v[k]) = Total(first)
               /\ \A a \in Account : /\ x[k][a] = v[k][a] % m
                                     /\ -(k * b) <= v[k][a] /\ v[k][a] <= k * b + b
             P == {k \in 0 .. n : Holds(k)}
  <1>3. 0 \in P
    <2>1. x[0] = first /\ v[0] = first
      BY DEF Book, Truly
    <2>2. \A a \in Account : first[a] \in 0 .. b
      BY <1>1
    <2>3. \A a \in Account : first[a] % m = first[a]
      <3>1. \A a \in Account : first[a] \in Word
        BY BankFacts
      <3>2. \A i \in 0 .. m - 1 : i % m = i
        <4>1. ASSUME NEW i \in 0 .. m - 1 PROVE i % m = i
          <5>1. (0 * m + i) % m = i
            BY DivModUnique
          <5> QED
            BY <5>1, SMT
        <4> QED
          BY <4>1
      <3> QED
        BY <1>1, <3>1, <3>2
    <2>4. 0 * b = 0
      BY SMT
    <2> QED
      BY <2>1, <2>2, <2>3, <2>4
  <1>4. ASSUME NEW k \in 1 .. n, k - 1 \in P PROVE k \in P
    <2>1. k \in Transfer /\ k - 1 \in 0 .. n /\ k \in 0 .. n
      BY <1>1
    <2>2. PICK y \in Table : y = x[k - 1]
      BY <1>1, <2>1 DEF Book
    <2>3. x[k] = Moved(y, sp[k])
      BY <1>1, <2>2 DEF Book
    <2>4. PICK u \in [Account -> Int], w \in [Account -> Int] : u = v[k - 1] /\ w = v[k]
      BY <2>1, TrueStep DEF Pays
    <2>5. PICK f \in Account, t \in Account, d \in 0 .. b :
            f = sp[k].from /\ t = sp[k].to /\ d = sp[k].amt
      BY <1>1, <2>1, <2>2, MovedTable
    <2>6. \A a \in Account : x[k][a] = IF a = f THEN WrapSub(y[a], d)
                                      ELSE IF a = t THEN WrapAdd(y[a], d) ELSE y[a]
      BY <2>1, <2>3, <2>5, MovedTable
    <2>7. /\ Total(w) = Total(u)
          /\ \A a \in Account : w[a] = IF a = f THEN u[a] - d ELSE IF a = t THEN u[a] + d ELSE u[a]
      <3>1. PICK p : p = sp[k]
        OBVIOUS
      <3>2. Pays(u, w, p)
        BY <2>1, <2>4, <3>1, TrueStep
      <3>3. f = p.from /\ t = p.to /\ d = p.amt
        BY <2>5, <3>1
      <3> QED
        BY <3>2, <3>3 DEF Pays
    <2>8. /\ Total(u) = Total(first)
          /\ \A a \in Account : /\ y[a] = u[a] % m
                                /\ -((k - 1) * b) <= u[a] /\ u[a] <= (k - 1) * b + b
      BY <1>4, <2>2, <2>4
    <2> HIDE DEF P
    <2>9. ASSUME NEW a \in Account
          PROVE  x[k][a] = w[a] % m /\ -(k * b) <= w[a] /\ w[a] <= k * b + b
      <3>1. PICK i \in Int, j \in Int : i = u[a] /\ j = w[a]
        OBVIOUS
      <3>2. PICK lo \in Nat, hi \in Nat : lo = (k - 1) * b /\ hi = k * b /\ hi = lo + b
        <4>1. k - 1 \in Nat /\ k \in Nat
          OBVIOUS
        <4> QED
          BY <1>2, <4>1
      <3>3. -lo <= i /\ i <= lo + b /\ y[a] = i % m
        BY <2>8, <3>1, <3>2
      <3>4. j = IF a = f THEN i - d ELSE IF a = t THEN i + d ELSE i
        BY <2>7, <3>1
      <3>5. -hi <= j /\ j <= hi + b
        BY <3>2, <3>3, <3>4
      <3>6. ((i % m) - d) % m = (i - d) % m /\ ((i % m) + d) % m = (i + d) % m
        <4>1. PICK e \in Int : e = -d
          OBVIOUS
        <4>2. ((i % m) + e) % m = (i + e) % m
          BY ModGoesOn
        <4>a. d \in Int
          OBVIOUS
        <4>3. ((i % m) + d) % m = (i + d) % m
          BY <4>a, ModGoesOn
        <4>4. i % m \in Int
          BY DivModSplit
        <4>5. (i % m) + e = (i % m) - d /\ i + e = i - d
          BY <4>1, <4>4
        <4> QED
          BY <4>2, <4>3, <4>5
      <3>7. x[k][a] = j % m
        BY <1>1, <2>6, <3>3, <3>4, <3>6 DEF WrapAdd, WrapSub
      <3> QED
        BY <3>1, <3>2, <3>5, <3>7
    <2>10. Holds(k)
      BY <2>4, <2>7, <2>8, <2>9
    <2> QED
      BY <2>1, <2>10 DEF P
  <1>5. \A k \in 1 .. n : k - 1 \in P => k \in P
    BY <1>4
  <1> HIDE DEF P
  <1>6. \A k \in 0 .. n : k \in P
    BY <1>3, <1>5, UpTo
  <1>7. ASSUME NEW k \in 0 .. n, NEW a \in Account
        PROVE  x[k][a] = v[k][a] % m /\ Possible(v[k][a])
    <2>1. x[k][a] = v[k][a] % m /\ -(k * b) <= v[k][a] /\ v[k][a] <= k * b + b
      BY <1>6 DEF P
    <2>2. PICK lo \in Nat, hi \in Nat : lo = k * b /\ hi = n * b /\ lo <= hi
      <3>1. k \in Nat
        OBVIOUS
      <3> QED
        BY <1>2, <3>1
    <2>3. v[k][a] \in Int
      BY <1>1 DEF Truly
    <2>4. -hi <= v[k][a] /\ v[k][a] <= hi + b
      BY <2>1, <2>2, <2>3
    <2> QED
      BY <1>1, <2>1, <2>2, <2>4 DEF Possible
  <1>8. \A k \in 0 .. n : Total(v[k]) = Total(first)
    BY <1>6 DEF P
  <1> QED
    BY <1>1, <1>7, <1>8 DEF Follows

(* The look at the balances after a batch. *)
LooksFine(mem, sp) == \A k \in Transfer : mem[sp[k].from] <= MaxBal

(* What is known of one account all the way through a batch. *)
LEMMA AccountGoes ==
  ASSUME NEW first \in [Account -> 0 .. MaxBal], NEW sp \in Orders, NEW a \in Account,
         NEW x, NEW v, Book(x, first, sp), Truly(v, first, sp)
  PROVE  /\ \A k \in 0 .. Transfers : /\ v[k][a] \in Int
                                      /\ v[k][a] >= 0 => x[k][a] = v[k][a]
                                      /\ v[k][a] < 0  => x[k][a] > MaxBal
         /\ v[0][a] >= 0
         /\ \A k \in 1 .. Transfers : v[k][a] = IF a = sp[k].from THEN v[k - 1][a] - sp[k].amt
                                                ELSE IF a = sp[k].to THEN v[k - 1][a] + sp[k].amt
                                                ELSE v[k - 1][a]
  <1>1. Follows(x, v, first)
    BY BooksFollow
  <1>2. ASSUME NEW k \in 0 .. Transfers
        PROVE  /\ v[k][a] \in Int
               /\ v[k][a] >= 0 => x[k][a] = v[k][a]
               /\ v[k][a] < 0  => x[k][a] > MaxBal
    <2>1. PICK i \in Int : i = v[k][a]
      BY DEF Truly
    <2>2. x[k][a] = i % Modulus /\ Possible(i)
      BY <1>1, <2>1 DEF Follows
    <2>3. (i >= 0 => i % Modulus = i) /\ (i < 0 => i % Modulus > MaxBal)
      BY <2>2, WordTells
    <2> QED
      BY <2>1, <2>2, <2>3
  <1>3. v[0][a] >= 0
    BY BankFacts DEF Truly
  <1>4. ASSUME NEW k \in 1 .. Transfers
        PROVE  v[k][a] = IF a = sp[k].from THEN v[k - 1][a] - sp[k].amt
                         ELSE IF a = sp[k].to THEN v[k - 1][a] + sp[k].amt
                         ELSE v[k - 1][a]
    <2>1. k \in Transfer
      BY DEF Transfer
    <2>2. Pays(v[k - 1], v[k], sp[k])
      BY <2>1, TrueStep
    <2> QED
      BY <2>2 DEF Pays
  <1> QED
    BY <1>2, <1>3, <1>4

(* Balances that look fine are the true ones. *)
LEMMA FineIsTrue ==
  ASSUME NEW first \in [Account -> 0 .. MaxBal], NEW sp \in Orders,
         NEW x, NEW v, Book(x, first, sp), Truly(v, first, sp),
         Total(first) <= MaxBal, LooksFine(x[Transfers], sp)
  PROVE  /\ x[Transfers] \in [Account -> 0 .. MaxBal]
         /\ Total(x[Transfers]) = Total(first)
  <1>1. PICK n \in Nat : n = Transfers /\ Transfer = 1 .. n /\ n \in 0 .. n
    BY BankFacts
  <1>2. ASSUME NEW a \in Account PROVE x[n][a] = v[n][a] /\ v[n][a] \in Nat
    <2>1. /\ \A k \in 0 .. n : /\ v[k][a] \in Int
                               /\ v[k][a] >= 0 => x[k][a] = v[k][a]
                               /\ v[k][a] < 0  => x[k][a] > MaxBal
          /\ v[0][a] >= 0
          /\ \A k \in 1 .. n : v[k][a] = IF a = sp[k].from THEN v[k - 1][a] - sp[k].amt
                                         ELSE IF a = sp[k].to THEN v[k - 1][a] + sp[k].amt
                                         ELSE v[k - 1][a]
      BY <1>1, AccountGoes
    <2>2. CASE \E k \in 1 .. n : sp[k].from = a
      <3>1. x[n][a] <= MaxBal
        BY <1>1, <2>2 DEF LooksFine
      <3>2. x[n][a] \in Int
        BY <1>1, ModulusFacts DEF Book, Table, Word
      <3>3. v[n][a] >= 0
        <4>1. v[n][a] \in Int /\ (v[n][a] < 0 => x[n][a] > MaxBal)
          BY <1>1, <2>1
        <4>2. MaxBal \in Int
          BY BankFacts
        <4> QED
          BY <3>1, <3>2, <4>1, <4>2
      <3> QED
        BY <1>1, <2>1, <3>3
    <2>3. CASE \A k \in 1 .. n : sp[k].from # a
      <3> DEFINE P == {k \in 0 .. n : v[k][a] >= 0}
      <3>1. 0 \in P
        BY <1>1, <2>1
      <3>2. ASSUME NEW k \in 1 .. n, k - 1 \in P PROVE k \in P
        <4>1. sp[k].amt \in Nat
          BY <1>1, BankFacts DEF Orders
        <4>2. PICK b \in 0 .. n : b = k - 1
          OBVIOUS
        <4>3. v[b][a] \in Int /\ v[b][a] >= 0
          BY <2>1, <3>2, <4>2
        <4>4. v[k][a] = v[b][a] + sp[k].amt \/ v[k][a] = v[b][a]
          BY <2>1, <2>3, <4>2
        <4>5. v[k][a] >= 0
          BY <4>1, <4>3, <4>4
        <4> QED
          BY <4>5
      <3>3. \A k \in 1 .. n : k - 1 \in P => k \in P
        BY <3>2
      <3> HIDE DEF P
      <3>4. \A k \in 0 .. n : k \in P
        BY <3>1, <3>3, UpTo
      <3>5. v[n][a] >= 0
        BY <1>1, <3>4 DEF P
      <3> QED
        BY <1>1, <2>1, <3>5
    <2> QED
      BY <2>2, <2>3
  <1>3. x[n] \in [Account -> Word] /\ v[n] \in [Account -> Int]
    BY <1>1 DEF Book, Truly, Table
  <1>4. x[n] = v[n]
    BY <1>2, <1>3
  <1>5. v[n] \in [Account -> Nat]
    BY <1>2, <1>3
  <1>6. Total(v[n]) = Total(first)
    <2>1. Follows(x, v, first)
      BY BooksFollow
    <2> QED
      BY <1>1, <2>1 DEF Follows
  <1>7. \A a \in Account : v[n][a] \in 0 .. MaxBal
    <2>1. ASSUME NEW a \in Account PROVE v[n][a] \in 0 .. MaxBal
      <3>1. v[n][a] <= Total(v[n])
        BY <1>5, SumBounds
      <3>2. PICK i \in Nat, b \in Nat : i = v[n][a] /\ b = MaxBal
        BY <1>5, BankFacts
      <3>3. PICK z \in Int : z = Total(v[n])
        <4>1. PICK z : Sums(z, v[n])
          BY <1>3, SumsExist
        <4> QED
          BY <4>1, AccountsAre DEF Sums
      <3> QED
        BY <1>6, <3>1, <3>2, <3>3
    <2> QED
      BY <2>1
  <1> QED
    BY <1>1, <1>3, <1>4, <1>6, <1>7

(* A sender that cannot pay and is not filled up again is seen at the end. *)
Refills(sp) == \E j, k \in Transfer : j < k /\ sp[j].from = sp[k].to

LEMMA BelowIsSeen ==
  ASSUME NEW first \in [Account -> 0 .. MaxBal], NEW sp \in Orders,
         NEW x, NEW v, Book(x, first, sp), Truly(v, first, sp),
         LooksFine(x[Transfers], sp),
         NEW c \in Transfer, x[c - 1][sp[c].from] < sp[c].amt
  PROVE  Refills(sp)
  <1>1. PICK n \in Nat : n = Transfers /\ Transfer = 1 .. n /\ n \in 0 .. n
    BY BankFacts
  <1>2. PICK a \in Account : a = sp[c].from
    BY <1>1 DEF Orders
  <1>3. PICK d \in 0 .. MaxBal : d = sp[c].amt
    BY <1>1 DEF Orders
  <1>4. /\ \A k \in 0 .. n : /\ v[k][a] \in Int
                             /\ v[k][a] >= 0 => x[k][a] = v[k][a]
                             /\ v[k][a] < 0  => x[k][a] > MaxBal
        /\ \A k \in 1 .. n : v[k][a] = IF a = sp[k].from THEN v[k - 1][a] - sp[k].amt
                                       ELSE IF a = sp[k].to THEN v[k - 1][a] + sp[k].amt
                                       ELSE v[k - 1][a]
    BY <1>1, AccountGoes
  <1>5. v[c][a] < 0
    <2>1. PICK b \in 0 .. n : b = c - 1
      BY <1>1
    <2>2. v[c][a] = v[b][a] - d
      BY <1>1, <1>2, <1>3, <1>4, <2>1
    <2>3. v[b][a] \in Int /\ (v[b][a] >= 0 => x[b][a] = v[b][a])
      BY <1>4
    <2>4. x[b][a] < d
      BY <1>2, <1>3, <2>1
    <2>5. d \in Nat
      BY BankFacts
    <2> QED
      BY <2>2, <2>3, <2>4, <2>5
  <1>6. SUFFICES ASSUME ~Refills(sp) PROVE FALSE
    OBVIOUS
  <1>7. \A k \in 1 .. n : c < k => sp[k].to # a
    BY <1>1, <1>2, <1>6 DEF Refills
  <1> DEFINE P == {k \in 0 .. n : k >= c => v[k][a] < 0}
  <1>8. 0 \in P
    BY <1>1
  <1>9. ASSUME NEW k \in 1 .. n, k - 1 \in P PROVE k \in P
    <2>1. sp[k].amt \in Nat
      BY <1>1, BankFacts DEF Orders
    <2>2. PICK b \in 0 .. n : b = k - 1
      OBVIOUS
    <2>3. v[b][a] \in Int /\ (b >= c => v[b][a] < 0)
      BY <1>4, <1>9, <2>2
    <2>4. c < k => v[k][a] = v[b][a] - sp[k].amt \/ v[k][a] = v[b][a]
      BY <1>4, <1>7, <2>2
    <2>5. c < k => b >= c
      BY <1>1, <2>2
    <2>6. c < k => v[k][a] < 0
      BY <2>1, <2>3, <2>4, <2>5
    <2>7. k >= c => v[k][a] < 0
      BY <1>1, <1>5, <2>6
    <2> QED
      BY <2>7
  <1>10. \A k \in 1 .. n : k - 1 \in P => k \in P
    BY <1>9
  <1> HIDE DEF P
  <1>11. n \in P
    <2>1. \A k \in 0 .. n : k \in P
      BY <1>8, <1>10, UpTo
    <2> QED
      BY <1>1, <2>1
  <1>12. v[n][a] < 0
    BY <1>1, <1>11 DEF P
  <1>13. x[n][a] > MaxBal
    BY <1>1, <1>4, <1>12
  <1>14. x[n][a] <= MaxBal
    BY <1>1, <1>2 DEF LooksFine
  <1>15. x[n][a] \in Int
    BY <1>1, ModulusFacts DEF Book, Table, Word
  <1> QED
    BY <1>13, <1>14, <1>15, BankFacts

RegFile == 0 .. 3 * Transfers + 2
Bank    == Shape(RegFile, Account)

(* The registers tell the transfers. *)
Listed(regs, sp) ==
  \A k \in Transfer : /\ regs[From(k)] = sp[k].from
                      /\ regs[To(k)] = sp[k].to
                      /\ regs[Amount(k)] = sp[k].amt

(* The leaves of transfer k. *)
Takes(k) == Leaf("msub", From(k), Amount(k))
Gives(k) == Leaf("madd", To(k), Amount(k))

LEMMA LeavesOfTransfer ==
  ASSUME NEW k \in Transfer
  PROVE  /\ From(k) \in RegFile /\ To(k) \in RegFile /\ Amount(k) \in RegFile
         /\ Takes(k) \in Inst /\ Gives(k) \in Inst
         /\ Invertible(Takes(k)) /\ Invertible(Gives(k))
         /\ Takes(k).op = "msub" /\ Takes(k).a = From(k) /\ Takes(k).b = Amount(k)
         /\ Gives(k).op = "madd" /\ Gives(k).a = To(k) /\ Gives(k).b = Amount(k)
  <1>1. PICK n \in Nat : n = Transfers /\ k \in 1 .. n
    BY BankFacts
  <1>2. PICK p \in Nat, q \in Nat, r \in Nat : p = From(k) /\ q = To(k) /\ r = Amount(k)
                                              /\ p # r /\ q # r
    BY <1>1 DEF From, To, Amount
  <1>3. p \in RegFile /\ q \in RegFile /\ r \in RegFile
    BY <1>1, <1>2 DEF From, To, Amount, RegFile
  <1>4. 0 \in Word
    BY ZeroWord
  <1>5. Leaf("msub", p, r) \in Inst /\ Leaf("madd", q, r) \in Inst
    BY <1>4 DEF Leaf, Inst, Ops, BinaryOps, MemDstOps
  <1>6. Invertible(Leaf("msub", p, r)) /\ Invertible(Leaf("madd", q, r))
    BY <1>2 DEF Leaf, Invertible, IsIrreversible, IrreversibleOps, OperandAlias, MemDstOps, MemSrcOps
  <1> QED
    BY <1>2, <1>3, <1>5, <1>6 DEF Takes, Gives, Leaf

LEMMA KernelIs ==
  /\ BatchKernel \in Seq(Inst) /\ Len(BatchKernel) = 2 * Transfers
  /\ AllInvertible(BatchKernel)
  /\ \A k \in Transfer : BatchKernel[2 * k - 1] = Takes(k) /\ BatchKernel[2 * k] = Gives(k)
  <1>1. PICK n \in Nat : n = Transfers /\ Transfer = 1 .. n
    BY BankFacts
  <1>2. PICK m \in Nat : m = 2 * n
    OBVIOUS
  <1>3. BatchKernel = [j \in 1 .. m |-> IF j % 2 = 1 THEN Takes((j + 1) \div 2) ELSE Gives((j + 1) \div 2)]
    BY <1>1, <1>2 DEF BatchKernel, Takes, Gives
  <1>4. \A j \in 1 .. m : (j + 1) \div 2 \in Transfer
    BY <1>1, <1>2
  <1>5. \A j \in 1 .. m : BatchKernel[j] \in Inst /\ Invertible(BatchKernel[j])
    BY <1>3, <1>4, LeavesOfTransfer
  <1>6. BatchKernel \in [1 .. m -> Inst]
    BY <1>3, <1>5
  <1>7. \A p \in [1 .. m -> Inst] : p \in Seq(Inst) /\ Len(p) = m
    BY <1>2
  <1>8. AllInvertible(BatchKernel)
    BY <1>5, <1>6 DEF AllInvertible
  <1>9. ASSUME NEW k \in Transfer
        PROVE  BatchKernel[2 * k - 1] = Takes(k) /\ BatchKernel[2 * k] = Gives(k)
    <2>1. /\ 2 * k - 1 \in 1 .. m /\ (2 * k - 1) % 2 = 1 /\ (2 * k - 1 + 1) \div 2 = k
          /\ 2 * k \in 1 .. m /\ (2 * k) % 2 = 0 /\ (2 * k + 1) \div 2 = k
      BY <1>1, <1>2
    <2> QED
      BY <1>3, <2>1
  <1> QED
    BY <1>1, <1>2, <1>6, <1>7, <1>8, <1>9

(* The two leaves of a transfer move its amount. *)
LEMMA TransferRuns ==
  ASSUME NEW s \in Bank, NEW sp \in Orders, Listed(s.regs, sp), NEW k \in Transfer
  PROVE  /\ CanRun(s, Takes(k)) /\ CanRun(Exec(s, Takes(k)), Gives(k))
         /\ Exec(Exec(s, Takes(k)), Gives(k)) = [s EXCEPT !.mem = Moved(s.mem, sp[k])]
  <1>1. PICK regs, mem : s = [regs |-> regs, mem |-> mem] /\ regs \in [RegFile -> Word] /\ mem \in Table
    BY DEF Bank, Shape, Table
  <1>2. PICK f \in Account, t \in Account, d \in Word :
          f = sp[k].from /\ t = sp[k].to /\ d = sp[k].amt /\ f # t
    BY <1>1, MovedTable
  <1>3. regs[From(k)] = f /\ regs[To(k)] = t /\ regs[Amount(k)] = d
    BY <1>1, <1>2 DEF Listed
  <1>4. CanRun(s, Takes(k))
    BY <1>1, <1>2, <1>3, LeavesOfTransfer
    DEF CanRun, RegOperands, MemOperands, UnaryOps, BinaryOps, TernaryOps, MemDstOps, MemSrcOps, Table
  <1>5. PICK less : less = [mem EXCEPT ![f] = WrapSub(mem[f], d)]
    OBVIOUS
  <1>6. Exec(s, Takes(k)) = [regs |-> regs, mem |-> less]
    BY <1>1, <1>2, <1>3, <1>5, LeavesOfTransfer
    DEF Exec, SetMem, Combine, UnaryOps, MemDstOps, MemSrcOps
  <1>7. PICK z : z = [regs |-> regs, mem |-> less]
    OBVIOUS
  <1>8. CanRun(z, Gives(k))
    BY <1>1, <1>2, <1>3, <1>5, <1>7, LeavesOfTransfer
    DEF CanRun, RegOperands, MemOperands, UnaryOps, BinaryOps, TernaryOps, MemDstOps, MemSrcOps, Table
  <1>9. Exec(z, Gives(k)) = [regs |-> regs, mem |-> [less EXCEPT ![t] = WrapAdd(less[t], d)]]
    BY <1>1, <1>2, <1>3, <1>5, <1>7, LeavesOfTransfer
    DEF Exec, SetMem, Combine, UnaryOps, MemDstOps, MemSrcOps
  <1>10. [less EXCEPT ![t] = WrapAdd(less[t], d)] = Moved(mem, sp[k])
    BY <1>1, <1>2, <1>5 DEF Moved, Table
  <1> QED
    BY <1>1, <1>4, <1>6, <1>7, <1>8, <1>9, <1>10

(* A batch is never out of range, and leaves what the book says. *)
LEMMA BatchRuns ==
  ASSUME NEW s \in Bank, NEW sp \in Orders, Listed(s.regs, sp),
         NEW x, Book(x, s.mem, sp)
  PROVE  /\ RunForward(s, BatchKernel).out = "ok"
         /\ RunForward(s, BatchKernel).s = [s EXCEPT !.mem = x[Transfers]]
  <1>1. PICK n \in Nat, m \in Nat : n = Transfers /\ Transfer = 1 .. n /\ m = 2 * n
    BY BankFacts
  <1>2. BatchKernel \in Seq(Inst) /\ Len(BatchKernel) = m
    BY <1>1, KernelIs
  <1>3. PICK f \in [0 .. m -> Res(RegFile, Account)] :
          Forth(f, s, BatchKernel, m) /\ RunForward(s, BatchKernel) = f[m]
    BY <1>2, RunIsForth DEF Bank
  <1>4. f[0] = Go(s) /\ \A k \in 1 .. m : f[k] = ForwardLeaf(f[k - 1], BatchKernel[k])
    BY <1>3 DEF Forth
  <1>5. /\ x \in [0 .. n -> Table] /\ x[0] = s.mem
        /\ \A k \in 1 .. n : x[k] = Moved(x[k - 1], sp[k])
    BY <1>1 DEF Book
  <1> DEFINE P == {k \in 0 .. n : f[2 * k].out = "ok" /\ f[2 * k].s = [s EXCEPT !.mem = x[k]]}
  <1>6. 0 \in P
    <2>1. [s EXCEPT !.mem = s.mem] = s
      BY DEF Bank, Shape
    <2>2. 2 * 0 = 0
      OBVIOUS
    <2> QED
      BY <1>4, <1>5, <2>1, <2>2 DEF Go
  <1>7. ASSUME NEW k \in 1 .. n, k - 1 \in P PROVE k \in P
    <2>1. PICK j \in 0 .. n, p \in 1 .. m, q \in 1 .. m :
            j = k - 1 /\ p = 2 * k - 1 /\ q = 2 * k /\ p - 1 = 2 * j /\ q - 1 = p
      BY <1>1
    <2>2. PICK r : r = f[2 * j] /\ r.out = "ok" /\ r.s = [s EXCEPT !.mem = x[j]]
      BY <1>7, <2>1
    <2>3. PICK y \in Table : y = x[j]
      BY <1>5
    <2>4. PICK z \in Bank : z = [s EXCEPT !.mem = y] /\ z.regs = s.regs /\ z.mem = y
      <3>1. s \in [regs : [RegFile -> Word], mem : Table]
        BY DEF Bank, Shape, Table
      <3>2. PICK g \in [RegFile -> Word], h \in Table : s = [regs |-> g, mem |-> h]
        BY <3>1
      <3>3. [s EXCEPT !.mem = y] = [regs |-> g, mem |-> y] /\ s.regs = g
        BY <3>2
      <3>4. [regs |-> g, mem |-> y] \in Bank
        BY DEF Bank, Shape, Table
      <3> QED
        BY <3>3, <3>4
    <2>5. k \in Transfer /\ Listed(z.regs, sp)
      BY <1>1, <2>4
    <2>6. /\ CanRun(z, Takes(k)) /\ CanRun(Exec(z, Takes(k)), Gives(k))
          /\ Exec(Exec(z, Takes(k)), Gives(k)) = [z EXCEPT !.mem = Moved(z.mem, sp[k])]
      BY <2>5, TransferRuns
    <2>7. BatchKernel[p] = Takes(k) /\ BatchKernel[q] = Gives(k)
      BY <2>1, <2>5, KernelIs
    <2>8. f[p] = ForwardLeaf(r, Takes(k))
      BY <1>4, <2>1, <2>2, <2>7
    <2>9. f[p].out = "ok" /\ f[p].s = Exec(z, Takes(k))
      BY <2>2, <2>3, <2>4, <2>6, <2>8 DEF ForwardLeaf
    <2>10. f[q] = ForwardLeaf(f[p], Gives(k))
      BY <1>4, <2>1, <2>7
    <2>11. f[q].out = "ok" /\ f[q].s = Exec(Exec(z, Takes(k)), Gives(k))
      BY <2>6, <2>9, <2>10 DEF ForwardLeaf
    <2>12. x[k] = Moved(y, sp[k])
      BY <1>5, <2>1, <2>3
    <2>13. [z EXCEPT !.mem = Moved(y, sp[k])] = [s EXCEPT !.mem = x[k]]
      BY <2>4, <2>12 DEF Bank, Shape
    <2> QED
      BY <2>1, <2>4, <2>6, <2>11, <2>13
  <1>8. \A k \in 1 .. n : k - 1 \in P => k \in P
    BY <1>7
  <1> HIDE DEF P
  <1>9. n \in P
    <2>1. \A k \in 0 .. n : k \in P
      BY <1>6, <1>8, UpTo
    <2> QED
      BY <2>1
  <1> QED
    BY <1>1, <1>3, <1>9 DEF P

(* The table of what is expected after a batch is its book. *)
LEMMA ExpectedIs ==
  ASSUME expected \in Table, specs \in Orders, NEW x, Book(x, expected, specs)
  PROVE  /\ ExpectedAfter.mem = x[Transfers]
         /\ ExpectedAfter.below =>
              \E k \in Transfer : x[k - 1][specs[k].from] < specs[k].amt
  <1>1. PICK n \in Nat : n = Transfers /\ Transfer = 1 .. n
    BY BankFacts
  <1>2. x[0] = expected /\ \A k \in 1 .. n : x[k] = Moved(x[k - 1], specs[k])
    BY <1>1 DEF Book
  <1> DEFINE Low(k) == x[k - 1][specs[k].from] < specs[k].amt
             was == [k \in 0 .. n |-> \E j \in 1 .. k : Low(j)]
             g == [k \in 0 .. n |-> [mem |-> x[k], below |-> was[k]]]
             Upto(h) == h = [k \in 0 .. n |->
                          IF k = 0 THEN [mem |-> expected, below |-> FALSE]
                          ELSE [mem   |-> Moved(h[k - 1].mem, specs[k]),
                                below |-> h[k - 1].below \/ h[k - 1].mem[specs[k].from] < specs[k].amt]]
  <1>3. Upto(g)
    <2>1. g[0] = [mem |-> expected, below |-> FALSE]
      <3>1. was[0] = \E j \in 1 .. 0 : Low(j)
        OBVIOUS
      <3>2. 1 .. 0 = {}
        OBVIOUS
      <3>3. was[0] = FALSE
        <4> HIDE DEF was, Low
        <4> QED
          BY <3>1, <3>2, Zenon
      <3> HIDE DEF was
      <3>4. g[0] = [mem |-> x[0], below |-> was[0]]
        OBVIOUS
      <3> QED
        BY <1>2, <3>3, <3>4
    <2>2. ASSUME NEW k \in 1 .. n
          PROVE  g[k] = [mem   |-> Moved(g[k - 1].mem, specs[k]),
                         below |-> g[k - 1].below \/ g[k - 1].mem[specs[k].from] < specs[k].amt]
      <3>1. k - 1 \in 0 .. n /\ k \in 0 .. n
        OBVIOUS
      <3>2. 1 .. k = (1 .. k - 1) \cup {k}
        OBVIOUS
      <3>3. was[k] = (was[k - 1] \/ Low(k))
        <4>1. was[k] = (\E j \in 1 .. k : Low(j)) /\ was[k - 1] = (\E j \in 1 .. k - 1 : Low(j))
          BY <3>1
        <4> HIDE DEF was, Low
        <4> QED
          BY <3>2, <4>1, Zenon
      <3> HIDE DEF was
      <3>4. g[k - 1].mem = x[k - 1] /\ g[k - 1].below = was[k - 1]
        BY <3>1
      <3>5. g[k] = [mem |-> x[k], below |-> was[k]]
        BY <3>1
      <3> QED
        BY <1>2, <3>3, <3>4, <3>5
    <2>3. \A k \in 0 .. n : g[k] = IF k = 0 THEN [mem |-> expected, below |-> FALSE]
                          ELSE [mem   |-> Moved(g[k - 1].mem, specs[k]),
                                below |-> g[k - 1].below \/ g[k - 1].mem[specs[k].from] < specs[k].amt]
      <3>1. \A k \in 0 .. n : k = 0 \/ k \in 1 .. n
        OBVIOUS
      <3> HIDE DEF g, was
      <3> QED
        BY <2>1, <2>2, <3>1
    <2>4. g = [k \in 0 .. n |-> g[k]]
      OBVIOUS
    <2> HIDE DEF g, was
    <2> QED
      BY <2>3, <2>4
  <1>4. PICK h : h = CHOOSE d : Upto(d)
    OBVIOUS
  <1>5. Upto(h)
    <2> HIDE DEF Upto, g, was
    <2> QED
      BY <1>3, <1>4
  <1>6. ExpectedAfter = h[n]
    BY <1>1, <1>4 DEF ExpectedAfter
  <1> HIDE DEF g, was
  <1>7. /\ h[0].mem = x[0] /\ ~h[0].below
        /\ \A k \in 1 .. n : /\ h[k].mem = Moved(h[k - 1].mem, specs[k])
                             /\ h[k].below <=> h[k - 1].below
                                              \/ h[k - 1].mem[specs[k].from] < specs[k].amt
    <2>1. h[0] = [mem |-> expected, below |-> FALSE]
      BY <1>5
    <2>2. ASSUME NEW k \in 1 .. n
          PROVE  h[k] = [mem   |-> Moved(h[k - 1].mem, specs[k]),
                         below |-> h[k - 1].below \/ h[k - 1].mem[specs[k].from] < specs[k].amt]
      <3>1. k \in 0 .. n /\ k # 0
        OBVIOUS
      <3>2. PICK new : new = [mem   |-> Moved(h[k - 1].mem, specs[k]),
                         below |-> h[k - 1].below \/ h[k - 1].mem[specs[k].from] < specs[k].amt]
        OBVIOUS
      <3>3. h[k] = IF k = 0 THEN [mem |-> expected, below |-> FALSE] ELSE new
        BY <1>5, <3>1, <3>2, Zenon
      <3> QED
        BY <3>1, <3>2, <3>3
    <2> HIDE DEF Upto
    <2>3. h[0].mem = x[0] /\ h[0].below = FALSE
      BY <1>2, <2>1
    <2>4. ASSUME NEW k \in 1 .. n
          PROVE  /\ h[k].mem = Moved(h[k - 1].mem, specs[k])
                 /\ h[k].below = (h[k - 1].below \/ h[k - 1].mem[specs[k].from] < specs[k].amt)
      <3>1. PICK mem, b : /\ mem = Moved(h[k - 1].mem, specs[k])
                         /\ b = (h[k - 1].below \/ h[k - 1].mem[specs[k].from] < specs[k].amt)
        OBVIOUS
      <3>2. h[k] = [mem |-> mem, below |-> b]
        BY <2>2, <3>1, Zenon
      <3>3. h[k].mem = mem /\ h[k].below = b
        BY <3>2
      <3> QED
        BY <3>1, <3>3, Zenon
    <2>5. \A k \in 1 .. n : h[k].below <=> h[k - 1].below
                                            \/ h[k - 1].mem[specs[k].from] < specs[k].amt
      BY <2>4, Zenon
    <2> QED
      BY <2>3, <2>4, <2>5
  <1> HIDE DEF Upto
  <1> DEFINE P == {k \in 0 .. n : h[k].mem = x[k] /\ (h[k].below => \E j \in Transfer : Low(j))}
  <1>8. 0 \in P
    BY <1>7
  <1>9. ASSUME NEW k \in 1 .. n, k - 1 \in P PROVE k \in P
    <2>1. h[k - 1].mem = x[k - 1] /\ (h[k - 1].below => \E j \in Transfer : Low(j))
      BY <1>9
    <2>2. h[k].mem = x[k]
      BY <1>2, <1>7, <2>1
    <2>3. h[k].below => h[k - 1].below \/ Low(k)
      BY <1>7, <2>1
    <2>4. h[k].below => \E j \in Transfer : Low(j)
      BY <1>1, <2>1, <2>3
    <2>5. k \in 0 .. n
      OBVIOUS
    <2> QED
      BY <2>2, <2>4, <2>5
  <1>10. \A k \in 1 .. n : k - 1 \in P => k \in P
    BY <1>9
  <1> HIDE DEF P
  <1>11. n \in P
    <2>1. \A k \in 0 .. n : k \in P
      BY <1>8, <1>10, UpTo
    <2> QED
      BY <2>1
  <1> QED
    BY <1>1, <1>6, <1>11 DEF P

(* How the state of the bank came about from the expected balances. *)
Ran(y, e, sp) ==
  \E s \in Bank : /\ s.mem = e /\ Listed(s.regs, sp)
                  /\ y = RunForward(s, BatchKernel).s

Balances(e, o) == e \in [Account -> 0 .. MaxBal] /\ Total(e) = Total(o) /\ Total(o) <= MaxBal

Stands(at, y, sp, e) ==
  \/ at = "build" /\ y.mem = e
  \/ at = "run" /\ y.mem = e /\ sp \in Orders /\ Listed(y.regs, sp)
  \/ at = "decide" /\ sp \in Orders /\ Ran(y, e, sp)
  \/ at = "panic" /\ Refills(sp)

BankInv == bank \in Bank /\ Balances(expected, opening) /\ Stands(b_at, bank, specs, expected)

LEMMA TableOf == [Account -> 0 .. MaxBal] \subseteq Table
  BY BankFacts DEF Table

LEMMA BankStarts == BankStart(TRUE) => BankInv
  <1> SUFFICES ASSUME BankStart(TRUE) PROVE BankInv
    OBVIOUS
  <1>1. opening \in Openings /\ b_at = "build" /\ expected = opening
        /\ bank = [regs |-> [q \in 0 .. 3 * Transfers + 2 |-> 0], mem |-> opening]
    BY DEF BankStart, Among
  <1>2. PICK o : o = opening /\ o \in [Account -> Nat] /\ Total(o) <= MaxBal
    BY <1>1, BankAssumption
  <1>3. \A a \in Account : o[a] \in 0 .. MaxBal
    <2>1. ASSUME NEW a \in Account PROVE o[a] \in 0 .. MaxBal
      <3>1. o[a] <= Total(o)
        BY <1>2, SumBounds
      <3>2. PICK z \in Int : z = Total(o)
        <4>1. PICK t : Sums(t, o)
          <5>1. o \in [Account -> Int]
            BY <1>2
          <5> QED
            BY <5>1, SumsExist
        <4> QED
          BY <4>1, AccountsAre DEF Sums
      <3>3. PICK i \in Nat, b \in Nat : i = o[a] /\ b = MaxBal
        BY <1>2, BankFacts
      <3> QED
        BY <1>2, <3>1, <3>2, <3>3
    <2> QED
      BY <2>1
  <1>4. o \in [Account -> 0 .. MaxBal]
    BY <1>2, <1>3
  <1>5. Balances(o, o)
    BY <1>2, <1>4 DEF Balances
  <1>6. bank \in Bank /\ bank.mem = o
    BY <1>1, <1>2, <1>4, TableOf, ZeroWord DEF Bank, Shape, Table, RegFile
  <1> QED
    BY <1>1, <1>2, <1>5, <1>6 DEF BankInv, Stands

(* A share of a balance is no more than the balance. *)
LEMMA ShareOf ==
  ASSUME NEW v \in Nat, NEW p \in 0 .. 100
  PROVE  (v * p) \div 100 \in 0 .. v
  <1>1. PICK q \in Nat, r \in Nat : q = v * p /\ r = v * (100 - p) /\ q + r = 100 * v
    <2>1. v * p \in Nat /\ v * (100 - p) \in Nat /\ v * p + v * (100 - p) = 100 * v
      BY SMT
    <2> QED
      BY <2>1
  <1>2. q <= 100 * v
    BY <1>1
  <1> QED
    BY <1>1, <1>2

LEMMA RegsOfTransfer ==
  ASSUME NEW k \in Transfer
  PROVE  /\ From(k) \in From(k) .. Amount(k) /\ From(k) \div 3 + 1 = k /\ From(k) % 3 = 0
         /\ To(k) \in From(k) .. Amount(k) /\ To(k) \div 3 + 1 = k /\ To(k) % 3 = 1
         /\ Amount(k) \in From(k) .. Amount(k) /\ Amount(k) \div 3 + 1 = k /\ Amount(k) % 3 = 2
         /\ \A q \in From(k) .. Amount(k) : q \div 3 + 1 = k
  <1>1. k \in Nat \ {0}
    BY BankFacts
  <1> QED
    BY <1>1 DEF From, To, Amount

LEMMA BuildKeeps == BankInv /\ Build => BankInv'
  <1> SUFFICES ASSUME BankInv, Build PROVE BankInv'
    OBVIOUS
  <1>1. PICK e, y, o, sp, z :
          e = expected /\ y = bank /\ o = opening /\ sp = specs' /\ z = bank'
    OBVIOUS
  <1>2. y \in Bank /\ Balances(e, o) /\ y.mem = e
    BY <1>1 DEF BankInv, Stands, Build
  <1>3. expected' = e /\ opening' = o /\ b_at' = "run"
    BY <1>1 DEF Build
  <1>4. PICK ends \in [Transfer -> {p \in Account \X Account : p[1] # p[2]}],
             share \in [Transfer -> Percents] :
          sp = [k \in Transfer |->
                  [from |-> ends[k][1], to |-> ends[k][2],
                   amt |-> (y.mem[ends[k][1]] * share[k]) \div 100]]
    <2>1. PICK ends \in [Transfer -> {p \in Account \X Account : p[1] # p[2]}],
               share \in [Transfer -> Percents] :
            specs' = [k \in Transfer |->
                        [from |-> ends[k][1], to |-> ends[k][2],
                         amt |-> (bank.mem[ends[k][1]] * share[k]) \div 100]]
      BY Zenon DEF Build
    <2>2. sp = [k \in Transfer |->
                  [from |-> ends[k][1], to |-> ends[k][2],
                   amt |-> (y.mem[ends[k][1]] * share[k]) \div 100]]
      BY <1>1, <2>1
    <2> QED
      BY <2>2
  <1>5. sp \in Orders
    <2>1. ASSUME NEW k \in Transfer
          PROVE  sp[k] \in {p \in [from : Account, to : Account, amt : 0 .. MaxBal] : p.from # p.to}
      <3>1. PICK f \in Account, t \in Account : f = ends[k][1] /\ t = ends[k][2] /\ f # t
        OBVIOUS
      <3>2. PICK v \in Nat, w \in 0 .. 100, b \in Nat : v = y.mem[f] /\ w = share[k] /\ b = MaxBal /\ v <= b
        <4>1. y.mem[f] \in 0 .. MaxBal
          BY <1>2 DEF Balances
        <4>2. share[k] \in 0 .. 100
          BY BankAssumption
        <4> QED
          BY <4>1, <4>2, BankFacts
      <3>3. (v * w) \div 100 \in 0 .. v
        BY ShareOf
      <3>4. PICK d \in 0 .. b : d = (v * w) \div 100
        BY <3>2, <3>3
      <3>5. sp[k] = [from |-> f, to |-> t, amt |-> d]
        BY <1>4, <3>1, <3>2, <3>4
      <3> QED
        BY <3>1, <3>2, <3>5
    <2> HIDE <1>4
    <2> QED
      BY <1>4, <2>1 DEF Orders
  <1>6. PICK regs \in [RegFile -> Word] : y = [regs |-> regs, mem |-> e]
    BY <1>2 DEF Bank, Shape
  <1> DEFINE Touched(q) == \E k \in Transfer : q \in From(k) .. Amount(k)
             Value(q) == IF Touched(q)
                         THEN CASE q % 3 = 0 -> sp[q \div 3 + 1].from
                                [] q % 3 = 1 -> sp[q \div 3 + 1].to
                                [] OTHER -> sp[q \div 3 + 1].amt
                         ELSE regs[q]
  <1>7. z = [regs |-> [q \in RegFile |-> Value(q)], mem |-> e]
    <2>1. bank' = [bank EXCEPT !.regs =
                [q \in DOMAIN @ |->
                   IF \E k \in Transfer : q \in From(k) .. Amount(k)
                   THEN LET p == specs'[(q \div 3) + 1]
                        IN  CASE q % 3 = 0 -> p.from [] q % 3 = 1 -> p.to [] OTHER -> p.amt
                   ELSE @[q]]]
      BY Zenon DEF Build
    <2>2. z = [y EXCEPT !.regs = [q \in DOMAIN y.regs |->
                   IF Touched(q)
                   THEN CASE q % 3 = 0 -> sp[q \div 3 + 1].from
                          [] q % 3 = 1 -> sp[q \div 3 + 1].to
                          [] OTHER -> sp[q \div 3 + 1].amt
                   ELSE y.regs[q]]]
      BY <1>1, <2>1
    <2>3. DOMAIN y.regs = RegFile /\ y.regs = regs
      BY <1>6
    <2>4. z = [y EXCEPT !.regs = [q \in RegFile |-> Value(q)]]
      BY <2>2, <2>3
    <2> HIDE DEF Value
    <2> QED
      BY <1>6, <2>4
  <1>8. \A k \in Transfer : /\ sp[k].from \in Account /\ sp[k].to \in Account
                            /\ sp[k].from \in Word /\ sp[k].to \in Word /\ sp[k].amt \in Word
    BY <1>5, AccountsAre, BankFacts DEF Orders
  <1>9. ASSUME NEW q \in RegFile PROVE Value(q) \in Word
    <2>1. CASE Touched(q)
      <3>1. q \div 3 + 1 \in Transfer
        BY <2>1, RegsOfTransfer
      <3> QED
        BY <1>8, <2>1, <3>1
    <2>2. CASE ~Touched(q)
      BY <1>6, <2>2
    <2> QED
      BY <2>1, <2>2
  <1>10. z \in Bank
    <2> HIDE DEF Value
    <2>1. e \in Table
      BY <1>2, TableOf DEF Balances
    <2> QED
      BY <1>7, <1>9, <2>1 DEF Bank, Shape, Table
  <1>11. Listed(z.regs, sp)
    <2>1. ASSUME NEW k \in Transfer
          PROVE  Value(From(k)) = sp[k].from /\ Value(To(k)) = sp[k].to /\ Value(Amount(k)) = sp[k].amt
      <3>1. Touched(From(k)) /\ Touched(To(k)) /\ Touched(Amount(k))
        BY RegsOfTransfer
      <3> HIDE DEF Touched
      <3> QED
        BY <3>1, RegsOfTransfer
    <2> HIDE DEF Value
    <2>2. \A k \in Transfer : z.regs[From(k)] = Value(From(k)) /\ z.regs[To(k)] = Value(To(k))
                              /\ z.regs[Amount(k)] = Value(Amount(k))
      BY <1>7, LeavesOfTransfer
    <2> QED
      BY <2>1, <2>2 DEF Listed
  <1>12. z.mem = e
    BY <1>7
  <1> QED
    BY <1>1, <1>2, <1>3, <1>5, <1>10, <1>11, <1>12 DEF BankInv, Stands

LEMMA RunBatchKeeps == BankInv /\ RunBatch => BankInv'
  <1> SUFFICES ASSUME BankInv, RunBatch PROVE BankInv'
    OBVIOUS
  <1>1. PICK e, y, o, sp, z :
          e = expected /\ y = bank /\ o = opening /\ sp = specs /\ z = bank'
    OBVIOUS
  <1>2. y \in Bank /\ Balances(e, o) /\ y.mem = e /\ sp \in Orders /\ Listed(y.regs, sp)
    BY <1>1 DEF BankInv, Stands, RunBatch
  <1>3. PICK r : r = RunForward(y, BatchKernel)
    OBVIOUS
  <1>4. expected' = e /\ opening' = o /\ specs' = sp /\ z = r.s
        /\ b_at' = IF r.out = "ok" THEN "decide" ELSE "panic"
    BY <1>1, <1>3 DEF RunBatch
  <1>5. e \in Table
    BY <1>2, TableOf DEF Balances
  <1>6. PICK x : Book(x, e, sp)
    BY <1>2, <1>5, BookExists DEF HasBook
  <1>7. r.out = "ok"
    BY <1>2, <1>3, <1>6, BatchRuns
  <1>8. z \in Bank
    <2>1. r \in Res(RegFile, Account)
      BY <1>2, <1>3, KernelIs, RunEnds DEF Bank
    <2> QED
      BY <1>4, <2>1 DEF Res, Bank
  <1>9. Ran(z, e, sp)
    BY <1>2, <1>3, <1>4 DEF Ran
  <1> QED
    BY <1>1, <1>2, <1>4, <1>7, <1>8, <1>9 DEF BankInv, Stands

(* What is known when the batch is looked at. *)
LEMMA AtDecide ==
  ASSUME NEW e, NEW o, NEW y, NEW sp \in Orders, Balances(e, o), Ran(y, e, sp)
  PROVE  \E x : Book(x, e, sp) /\ y.mem = x[Transfers]
  <1>1. PICK s \in Bank : /\ s.mem = e /\ Listed(s.regs, sp)
                          /\ y = RunForward(s, BatchKernel).s
    BY DEF Ran
  <1>2. e \in Table
    BY TableOf DEF Balances
  <1>3. PICK x : Book(x, e, sp)
    BY <1>2, BookExists DEF HasBook
  <1>4. y = [s EXCEPT !.mem = x[Transfers]]
    BY <1>1, <1>3, BatchRuns
  <1>5. y.mem = x[Transfers]
    BY <1>1, <1>4 DEF Bank, Shape
  <1> QED
    BY <1>3, <1>5

LEMMA CommitKeeps == BankInv /\ CommitBatch => BankInv'
  <1> SUFFICES ASSUME BankInv, CommitBatch PROVE BankInv'
    OBVIOUS
  <1>1. PICK e, y, o, sp : e = expected /\ y = bank /\ o = opening /\ sp = specs
    OBVIOUS
  <1>2. y \in Bank /\ Balances(e, o) /\ sp \in Orders /\ Ran(y, e, sp)
    BY <1>1 DEF BankInv, Stands, CommitBatch
  <1>3. PICK x : Book(x, e, sp) /\ y.mem = x[Transfers]
    BY <1>2, AtDecide
  <1>4. e \in Table /\ e \in [Account -> 0 .. MaxBal] /\ Total(e) <= MaxBal
    BY <1>2, TableOf DEF Balances
  <1>5. PICK v : Truly(v, e, sp)
    BY <1>2, <1>4, TruthExists DEF HasTruth
  <1>6. LooksFine(x[Transfers], sp)
    BY <1>1, <1>3 DEF CommitBatch, Fine, LooksFine
  <1>7. /\ ExpectedAfter.mem = x[Transfers]
        /\ ExpectedAfter.below => \E k \in Transfer : x[k - 1][sp[k].from] < sp[k].amt
    <2>1. expected \in Table /\ specs \in Orders /\ Book(x, expected, specs)
      BY <1>1, <1>2, <1>3, <1>4
    <2> QED
      BY <1>1, <2>1, ExpectedIs
  <1>8. bank' = y /\ opening' = o /\ specs' = sp
    BY <1>1 DEF CommitBatch
  <1>9. CASE checks /\ ExpectedAfter.below
    <2>1. Refills(sp)
      BY <1>2, <1>3, <1>4, <1>5, <1>6, <1>7, <1>9, BelowIsSeen
    <2>2. b_at' = "panic" /\ expected' = e
      BY <1>1, <1>9 DEF CommitBatch
    <2> QED
      BY <1>2, <1>8, <2>1, <2>2 DEF BankInv, Stands
  <1>10. CASE ~(checks /\ ExpectedAfter.below)
    <2>1. b_at' = "build" /\ expected' = x[Transfers]
      BY <1>7, <1>10 DEF CommitBatch
    <2>2. x[Transfers] \in [Account -> 0 .. MaxBal] /\ Total(x[Transfers]) = Total(e)
      BY <1>2, <1>3, <1>4, <1>5, <1>6, FineIsTrue
    <2>3. Balances(x[Transfers], o)
      BY <1>2, <2>2 DEF Balances
    <2> QED
      BY <1>2, <1>3, <1>8, <2>1, <2>3 DEF BankInv, Stands
  <1> QED
    BY <1>9, <1>10

LEMMA AbortKeeps == BankInv /\ AbortBatch => BankInv'
  <1> SUFFICES ASSUME BankInv, AbortBatch PROVE BankInv'
    OBVIOUS
  <1>1. PICK e, y, o, sp : e = expected /\ y = bank /\ o = opening /\ sp = specs
    OBVIOUS
  <1>2. y \in Bank /\ Balances(e, o) /\ sp \in Orders /\ Ran(y, e, sp)
    BY <1>1 DEF BankInv, Stands, AbortBatch
  <1>3. PICK s \in Bank : /\ s.mem = e /\ Listed(s.regs, sp)
                          /\ y = RunForward(s, BatchKernel).s
    BY <1>2 DEF Ran
  <1>4. e \in Table
    BY <1>2, TableOf DEF Balances
  <1>5. PICK x : Book(x, e, sp)
    BY <1>2, <1>4, BookExists DEF HasBook
  <1>6. RunForward(s, BatchKernel).out = "ok"
    BY <1>2, <1>3, <1>5, BatchRuns
  <1>7. ReverseAll(y, BatchKernel).s = s
    BY <1>3, <1>6, KernelIs, ReverseUndoesRun DEF Bank
  <1>8. bank' = s /\ opening' = o /\ expected' = e /\ b_at' = "build"
    BY <1>1, <1>7 DEF AbortBatch
  <1> QED
    BY <1>2, <1>3, <1>8 DEF BankInv, Stands

(* Whatever the batches are: no money appears or is lost, nobody is left       *)
(* below zero, an aborted batch leaves no trace, and the one way to stop early *)
(* is the overdraft that a later transfer fills up (batch_tx.rs 51-112).      *)
THEOREM LedgerHolds == BankSpec => []BankExact
  <1>1. BankStart(TRUE) => BankInv
    BY BankStarts
  <1>2. BankInv /\ [BankNext]_bankVars => BankInv'
    <2> SUFFICES ASSUME BankInv, [BankNext]_bankVars PROVE BankInv'
      OBVIOUS
    <2>1. CASE Build
      BY <2>1, BuildKeeps
    <2>2. CASE RunBatch
      BY <2>2, RunBatchKeeps
    <2>3. CASE CommitBatch
      BY <2>3, CommitKeeps
    <2>4. CASE AbortBatch
      BY <2>4, AbortKeeps
    <2>5. CASE UNCHANGED bankVars
      BY <2>5 DEF bankVars, BankInv
    <2> QED
      BY <2>1, <2>2, <2>3, <2>4, <2>5 DEF BankNext
  <1>3. BankInv => BankExact
    <2> SUFFICES ASSUME BankInv PROVE BankExact
      OBVIOUS
    <2>1. b_at = "build" => bank.mem = expected
      BY DEF BankInv, Stands
    <2>2. b_at = "panic" => Refills(specs)
      BY DEF BankInv, Stands
    <2>3. expected \in [Account -> 0 .. MaxBal] /\ Total(expected) = Total(opening)
      BY DEF BankInv, Balances
    <2>4. \A a \in Account : expected[a] <= MaxBal
      BY <2>3, BankFacts
    <2> QED
      BY <2>1, <2>2, <2>3, <2>4 DEF BankExact, LedgerExact, StopsOnlyRefilled, Refills
  <1> QED
    BY <1>1, <1>2, <1>3, PTL DEF BankSpec
=============================================================================
