---------------------------- MODULE MCNodeBrowser ----------------------------
(* NodeBrowser for TLC.  Clients are interchangeable: nothing orders them. *)
EXTENDS NodeBrowser, TLC

Symmetry == Permutations(Clients)
=============================================================================
