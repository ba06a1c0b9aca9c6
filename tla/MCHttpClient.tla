---------------------------- MODULE MCHttpClient ----------------------------
(***************************************************************************)
(* Instances of HttpClient for TLC.                                        *)
(***************************************************************************)
EXTENDS HttpClient, TLC

CONSTANT e1

\* One host with one address.
OneHost == {<<e1>>}

Symm == Permutations(Reqs) \cup Permutations(Socks)
=============================================================================
