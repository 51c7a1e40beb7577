----------------------------- MODULE MCOhlcvStore -----------------------------
(* Small instances of OhlcvStore: two processes that are alike.               *)
EXTENDS OhlcvStore, TLC

CONSTANTS refresher, evaluator

ProcessSymmetry == Permutations(Processes)
=============================================================================
