---------------------------- MODULE MCBeatTimer -----------------------------
(***************************************************************************)
(* BeatTimer with the instances the configurations use.                    *)
(***************************************************************************)
EXTENDS BeatTimer, TLC

\* async_wait() for a time that may have passed already, and for the future.
AnyDelay    == {-1, 0, 1, 2}
FutureDelay == {1, 2}

Symm == Permutations(Tasks) \cup Permutations(Threads)
=============================================================================
