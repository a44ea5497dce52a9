------------------------------ MODULE BatchTx ------------------------------
(***************************************************************************)
(* src/examples/batch_tx.rs: batches of transfers between accounts kept in *)
(* the memory of a machine. A batch is run without looking, then the       *)
(* senders are looked at, and a batch that overdrew one is run backwards.  *)
(* Next to it goes a table of what is expected, changed only by committed  *)
(* batches.                                                                *)
(***************************************************************************)
EXTENDS LeafRun

CONSTANTS Openings,        \* balances to start from, each [Account -> Nat]
          NAccounts,       \* N
          Transfers,       \* B
          Percents,        \* 60 .. 95
          MaxBal,          \* MAXBAL
          Batches          \* NBATCH

VARIABLES b_at, bank, specs, expected, batches, opening, checks

bankVars == <<b_at, bank, specs, expected, batches, opening, checks>>

Account  == 0 .. NAccounts - 1
Transfer == 1 .. Transfers

Total(mem) ==
  LET upto[a \in 0 .. NAccounts] == IF a = 0 THEN 0 ELSE upto[a - 1] + mem[a - 1]
  IN  upto[NAccounts]

(* All the money, and what a batch can draw beyond it, fits in a word.        *)
ASSUME BankAssumption ==
  /\ NAccounts \in Nat \ {0} /\ NAccounts <= Modulus
  /\ Transfers \in Nat /\ MaxBal \in Nat /\ (Transfers + 1) * MaxBal < Modulus
  /\ Percents \subseteq 0 .. 100 /\ Batches \in Nat
  /\ \A balances \in Openings :
       balances \in [Account -> Nat] /\ Total(balances) <= MaxBal

(* r(3k), r(3k+1), r(3k+2) of transfer k, counted from 0 *)
From(k)   == 3 * (k - 1)
To(k)     == 3 * (k - 1) + 1
Amount(k) == 3 * (k - 1) + 2

(* msub from amount; madd to amount *)
BatchKernel ==
  [j \in 1 .. 2 * Transfers |->
     LET k == (j + 1) \div 2
     IN  IF j % 2 = 1 THEN Leaf("msub", From(k), Amount(k)) ELSE Leaf("madd", To(k), Amount(k))]

BankStart(on) ==
  /\ opening \in Among(on, Openings) /\ checks \in Among(on, BOOLEAN)
  /\ b_at = "build" /\ batches = 0
  /\ bank = [regs |-> [q \in 0 .. 3 * Transfers + 2 |-> 0], mem |-> opening]
  /\ specs = <<>>
  /\ expected = opening

(* The amounts are shares of the balances before the batch. *)
Build ==
  /\ b_at = "build" /\ batches < Batches
  /\ \E ends \in [Transfer -> {p \in Account \X Account : p[1] # p[2]}],
        share \in [Transfer -> Percents] :
       specs' = [k \in Transfer |->
                   [from |-> ends[k][1], to |-> ends[k][2],
                    amt |-> (bank.mem[ends[k][1]] * share[k]) \div 100]]
  /\ bank' = [bank EXCEPT !.regs =
                [q \in DOMAIN @ |->
                   IF \E k \in Transfer : q \in From(k) .. Amount(k)
                   THEN LET p == specs'[(q \div 3) + 1]
                        IN  CASE q % 3 = 0 -> p.from [] q % 3 = 1 -> p.to [] OTHER -> p.amt
                   ELSE @[q]]]
  /\ b_at' = "run"
  /\ UNCHANGED <<expected, batches, opening, checks>>

RunBatch ==
  /\ b_at = "run"
  /\ LET r == RunForward(bank, BatchKernel)
     IN  bank' = r.s /\ b_at' = IF r.out = "ok" THEN "decide" ELSE "panic"
  /\ UNCHANGED <<specs, expected, batches, opening, checks>>

(* Mutant: only the last sender is looked at. *)
FineMutant == bank.mem[specs[Transfers].from] <= MaxBal

Fine == \A k \in Transfer : bank.mem[specs[k].from] <= MaxBal

Moved(mem, p) == [mem EXCEPT ![p.from] = WrapSub(@, p.amt), ![p.to] = WrapAdd(@, p.amt)]

(* The expected balances after the first k transfers; a subtraction that goes *)
(* below zero on the way stops a build with overflow checks.                 *)
ExpectedAfter ==
  LET upto[k \in 0 .. Transfers] ==
        IF k = 0 THEN [mem |-> expected, below |-> FALSE]
        ELSE [mem   |-> Moved(upto[k - 1].mem, specs[k]),
              below |-> upto[k - 1].below \/ upto[k - 1].mem[specs[k].from] < specs[k].amt]
  IN  upto[Transfers]

CommitBatch ==
  /\ b_at = "decide" /\ Fine
  /\ IF checks /\ ExpectedAfter.below
     THEN b_at' = "panic" /\ UNCHANGED <<expected, batches>>
     ELSE b_at' = "build" /\ expected' = ExpectedAfter.mem /\ batches' = batches + 1
  /\ UNCHANGED <<bank, specs, opening, checks>>

AbortBatch ==
  /\ b_at = "decide" /\ ~Fine
  /\ bank' = ReverseAll(bank, BatchKernel).s
  /\ b_at' = "build" /\ batches' = batches + 1
  /\ UNCHANGED <<specs, expected, opening, checks>>

BankNext == Build \/ RunBatch \/ CommitBatch \/ AbortBatch

BankSpec == BankStart(TRUE) /\ [][BankNext]_bankVars

-----------------------------------------------------------------------------
(* Between batches the balances are those of the committed batches alone: no  *)
(* money appears or is lost, nobody is below zero, and an aborted batch has   *)
(* left no trace, however its transfers met on the same accounts              *)
(* (batch_tx.rs 93-112).                                                     *)
LedgerExact ==
  b_at = "build" =>
    /\ bank.mem = expected
    /\ Total(bank.mem) = Total(opening)
    /\ \A a \in Account : bank.mem[a] <= MaxBal

(* The program stops early only where a sender was below zero on the way and  *)
(* a later transfer of the same batch filled it up again, which the check of  *)
(* the balances cannot see (batch_tx.rs 93-98).                              *)
StopsOnlyRefilled ==
  b_at = "panic" =>
    \E j, k \in Transfer : j < k /\ specs[j].from = specs[k].to

(* Committed batches count, aborted ones leave no trace, and the one way to   *)
(* stop early is the overdraft that is filled up again (batch_tx.rs 51-112).  *)
BankExact == LedgerExact /\ StopsOnlyRefilled
=============================================================================
