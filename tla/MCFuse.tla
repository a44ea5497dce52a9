------------------------------- MODULE MCFuse -------------------------------
(***************************************************************************)
(* The overlay of phase_fuse.c served by two threads, over two names and   *)
(* one handle.                                                             *)
(***************************************************************************)
EXTENDS PhaseFuse, TLC

MCSymmetry ==
  Permutations(Paths) \union Permutations(Threads)
    \union {p @@ q : p \in Permutations(Paths), q \in Permutations(Threads)}

(* Nothing is claimed of a session once two handlers have been in the journal *)
(* at once.                                                                  *)
NotRaced == ~raced
=============================================================================
