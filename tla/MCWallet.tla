------------------------------- MODULE MCWallet -------------------------------
(* Small instances of Wallet: programs, key pairs and payments are model   *)
(* values; programs and key pairs are interchangeable.                     *)
EXTENDS Wallet, TLC

Interchangeable == Permutations(Procs) \cup Permutations(Pairs)
=============================================================================
