------------------------------ MODULE Capsule ------------------------------
(***************************************************************************)
(* The capsules of src/src/cap.rs and their way from one host to another   *)
(* in src/examples/capsule.rs: host A runs part of a program and exports   *)
(* its state; on the way the text may be damaged in one place; host B      *)
(* imports it, goes back to the boundary and forward again comparing       *)
(* hashes, and finishes the program.                                       *)
(*                                                                         *)
(* A capsule is what its text says: the headers that import looks at, the  *)
(* words of the REGS and MEM lines, and the source of the program, which   *)
(* is how often the body is repeated. The 64-bit hashes are taken to have  *)
(* no collisions: a hash is what it is computed from. State::hash mixes    *)
(* registers and memory one after the other, so their border is not in it. *)
(***************************************************************************)
EXTENDS LeafRun

CONSTANTS Body,            \* leaves of the repeated body
          Done, Rest,      \* repetitions on A, and left for B
          Boundaries       \* states to start from

VARIABLES m_at, hostA, hostB,
          capsule,         \* the text as it stands
          meant,           \* boundary-hash and state-hash B has read
          damaged

moveVars == <<m_at, hostA, hostB, capsule, meant, damaged>>

Words(f)     == [k \in {a + 1 : a \in DOMAIN f} |-> f[k - 1]]
StateHash(s) == Words(s.regs) \o Words(s.mem)
KernelHash(src) == src

(* parse of the source *)
Leaves(src) == [j \in 1 .. src * Len(Body) |-> Body[((j - 1) % Len(Body)) + 1]]

(* Mutant: the hash of the boundary goes out as that of the state. *)
ExportMutant(src, s, boundaryHash) ==
  [kernelHash |-> KernelHash(src), boundaryHash |-> boundaryHash, stateHash |-> boundaryHash,
   nregs |-> Len(Words(s.regs)), nmem |-> Len(Words(s.mem)),
   regs |-> Words(s.regs), mem |-> Words(s.mem), src |-> src]

Export(src, s, boundaryHash) ==
  [kernelHash |-> KernelHash(src), boundaryHash |-> boundaryHash, stateHash |-> StateHash(s),
   nregs |-> Len(Words(s.regs)), nmem |-> Len(Words(s.mem)),
   regs |-> Words(s.regs), mem |-> Words(s.mem), src |-> src]

(* A line with another number of words than its header says is passed over.   *)
Section(words, n) == [q \in 0 .. n - 1 |-> IF Len(words) = n THEN words[q + 1] ELSE 0]

Imported(c) == [regs |-> Section(c.regs, c.nregs), mem |-> Section(c.mem, c.nmem)]

(* Mutant: the state is not hashed. *)
AcceptsMutant(c) == KernelHash(c.src) = c.kernelHash

Accepts(c) == KernelHash(c.src) = c.kernelHash /\ StateHash(Imported(c)) = c.stateHash

-----------------------------------------------------------------------------
(* The body can be taken back, and the program runs from every boundary.      *)
ASSUME CapsuleAssumption ==
  /\ Body \in Seq(Inst) /\ Body # <<>> /\ \A k \in DOMAIN Body : Invertible(Body[k])
  /\ Done \in Nat /\ Rest \in Nat
  /\ Boundaries \subseteq State
  /\ \A s \in Boundaries : RunForward(s, Leaves(Done + Rest)).out = "ok"

MoveStart(on) ==
  /\ \E s \in Among(on, Boundaries) : hostA = s /\ hostB = s
  /\ m_at = "away"
  /\ capsule = Export(0, hostA, StateHash(hostA))
  /\ meant = [boundary |-> <<>>, state |-> <<>>]
  /\ damaged = FALSE

(* Host A, up to the export. *)
Freeze ==
  /\ m_at = "away"
  /\ LET r == RunForward(hostA, Leaves(Done))
     IN  /\ hostA' = r.s
         /\ capsule' = Export(Done, r.s, StateHash(hostA))
         /\ m_at' = IF r.out = "ok" THEN "sent" ELSE "panic"
  /\ UNCHANGED <<hostB, meant, damaged>>

Without(seq, i) == [k \in 1 .. Len(seq) - 1 |-> IF k < i THEN seq[k] ELSE seq[k + 1]]

(* One field of the text is changed, or a word of a line changed, lost or     *)
(* added.                                                                    *)
Damage ==
  /\ m_at = "sent" /\ ~damaged
  /\ damaged' = TRUE
  /\ \/ \E i \in DOMAIN capsule.regs : \E w \in Word \ {capsule.regs[i]} :
          capsule' = [capsule EXCEPT !.regs[i] = w]
     \/ \E i \in DOMAIN capsule.mem : \E w \in Word \ {capsule.mem[i]} :
          capsule' = [capsule EXCEPT !.mem[i] = w]
     \/ \E i \in DOMAIN capsule.regs : capsule' = [capsule EXCEPT !.regs = Without(@, i)]
     \/ \E w \in Word : capsule' = [capsule EXCEPT !.regs = <<w>> \o @]
     \/ \E d \in {-1, 1} : /\ capsule.nregs + d >= 0
                         /\ capsule' = [capsule EXCEPT !.nregs = @ + d]
     \/ \E d \in {-1, 1} : /\ capsule.nmem + d >= 0
                         /\ capsule' = [capsule EXCEPT !.nmem = @ + d]
     \/ \E n \in {Rest, Done + Rest} \ {Done} :
          capsule' = [capsule EXCEPT !.src = n] \/ capsule' = [capsule EXCEPT !.kernelHash = n]
     \/ capsule' = [capsule EXCEPT !.boundaryHash = Tail(@)]
     \/ capsule' = [capsule EXCEPT !.stateHash = Tail(@)]
  /\ UNCHANGED <<m_at, hostA, hostB, meant>>

(* A header or the section of the program is gone, or a number that import    *)
(* unwraps is none any more.                                                 *)
Deface ==
  /\ m_at = "sent" /\ ~damaged
  /\ damaged' = TRUE
  /\ m_at' \in {"incomplete", "unparsable"}
  /\ UNCHANGED <<hostA, hostB, capsule, meant>>

ImportFails ==
  /\ \/ m_at = "incomplete" /\ m_at' = "refused"
     \/ m_at = "unparsable" /\ m_at' = "panic"
  /\ UNCHANGED <<hostA, hostB, capsule, meant, damaged>>

Import ==
  /\ m_at = "sent"
  /\ IF Accepts(capsule)
     THEN /\ hostB' = Imported(capsule)
          /\ meant' = [boundary |-> capsule.boundaryHash, state |-> capsule.stateHash]
          /\ m_at' = "back"
     ELSE m_at' = "refused" /\ UNCHANGED <<hostB, meant>>
  /\ UNCHANGED <<hostA, capsule, damaged>>

(* reverse_all, and the comparison with the boundary *)
GoBack ==
  /\ m_at = "back"
  /\ LET r == ReverseAll(hostB, Leaves(capsule.src))
     IN  /\ hostB' = r.s
         /\ m_at' = IF r.out # "fault" /\ StateHash(r.s) = meant.boundary
                    THEN "again" ELSE "refused"
  /\ UNCHANGED <<hostA, capsule, meant, damaged>>

GoAgain ==
  /\ m_at = "again"
  /\ LET r == RunForward(hostB, Leaves(capsule.src))
     IN  /\ hostB' = r.s
         /\ m_at' = IF r.out = "ok" /\ StateHash(r.s) = meant.state /\ r.s = hostA
                    THEN "finish" ELSE "refused"
  /\ UNCHANGED <<hostA, capsule, meant, damaged>>

FinishOnB ==
  /\ m_at = "finish"
  /\ LET r == RunForward(hostB, Leaves(Rest))
     IN  hostB' = r.s /\ m_at' = IF r.out = "ok" THEN "done" ELSE "panic"
  /\ UNCHANGED <<hostA, capsule, meant, damaged>>

MoveNext ==
  \/ Freeze \/ Damage \/ Deface \/ Import \/ ImportFails
  \/ GoBack \/ GoAgain \/ FinishOnB

MoveSpec == MoveStart(TRUE) /\ [][MoveNext]_moveVars

-----------------------------------------------------------------------------
(* A state host B works on is that of host A: damage is refused, or it was of *)
(* something the state does not depend on (cap.rs 149-156, the test          *)
(* tamper_detected).                                                         *)
DamageRefused == m_at = "back" => hostB = hostA

(* A capsule that was not damaged is never refused, and the program ends on   *)
(* host B as it would have on one host (capsule.rs 55-70).                   *)
MoveLeavesNoTrace ==
  /\ m_at \in {"refused", "panic"} => damaged
  /\ m_at = "done" =>
       \E s \in Boundaries :
         /\ RunForward(s, Leaves(Done)).s = hostA
         /\ RunForward(s, Leaves(Done + Rest)).s = hostB

(* A capsule that was damaged on the way is refused, and one that was not     *)
(* goes on as if the state had never moved (cap.rs 58-165, capsule.rs 33-70).  *)
CapsuleMoves == DamageRefused /\ MoveLeavesNoTrace
=============================================================================
