------------------------------ MODULE MCPhase -------------------------------
(* Values shared by the model-checking modules: the real bit operations, and *)
(* the table of powers of two, for words of a few bits.                      *)
EXTENDS Integers
LOCAL INSTANCE Bitwise

MCXor(x, y) == x ^^ y
MCAnd(x, y) == x & y
MCPow2 == [k \in 0 .. 8 |-> 2^k]

(* An instruction with the operands it does not use set to zero. *)
I(op, a, b, c, k) == [op |-> op, a |-> a, b |-> b, c |-> c, k |-> k]

(* Nodes of program trees. *)
L(op, a, b)   == [kind |-> "inst", inst |-> I(op, a, b, 0, 1)]
Rep(n, body)  == [kind |-> "rep",  count |-> n, body |-> body]
Ifnz(r, body) == [kind |-> "ifnz", reg |-> r, body |-> body]
Wz(r, body)   == [kind |-> "wz",   reg |-> r, body |-> body]
=============================================================================
