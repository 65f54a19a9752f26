------------------------------- MODULE MCLedger -------------------------------
(* Small instances of Ledger: the programs and the transactions are model  *)
(* values, interchangeable in the safety runs.                             *)
EXTENDS Ledger, TLC

Interchangeable == Permutations(Procs) \cup Permutations(Txs)
=============================================================================
