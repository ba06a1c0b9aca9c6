--------------------------- MODULE MCSimpleServer ---------------------------
(***************************************************************************)
(* SimpleServer with the instances the configurations use.                 *)
(***************************************************************************)
EXTENDS SimpleServer, TLC

\* Connectors and threads are interchangeable: sound for invariants.
Symm == Permutations(Conns) \cup Permutations(Threads)
=============================================================================
