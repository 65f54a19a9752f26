-------------------------------- MODULE Chain --------------------------------
(***************************************************************************)
(* What the wallet programs promise of the pool and the chain, stated      *)
(* without SQL statements, locks or blocks under construction: a           *)
(* transaction enters the pool in one step, and a block is made and stored *)
(* in one step.                                                            *)
(*                                                                         *)
(* LineSpec is the promise of a program that runs alone, TreeSpec that of  *)
(* several programs on the same files.  Ledger is shown to implement both. *)
(***************************************************************************)
EXTENDS Naturals, Sequences

CONSTANTS
    Txs,        \* the transactions the users may enter
    Junk,       \* a bundle text nobody wrote
    Fitting     \* the bundles that fit in a block

VARIABLES
    pool,       \* the transactions entered so far
    blocks,     \* the blocks in the order they were stored
    clock       \* the time

vars == <<pool, blocks, clock>>

Init == pool = {} /\ blocks = <<>> /\ clock = 1

Tick == clock' = clock + 1 /\ UNCHANGED <<pool, blocks>>

Submit ==
    /\ \E t \in Txs \ pool : pool' = pool \cup {t}
    /\ UNCHANGED <<blocks, clock>>

Store(i, s, b) ==
    /\ blocks' = Append(blocks, [prev |-> i, time |-> s, txs |-> b])
    /\ UNCHANGED <<pool, clock>>

\* The first block of all, dated a second before it was begun.
Genesis == blocks = <<>> /\ \E s \in 0..(clock - 1) : Store(0, s, {})

\* The whole pool goes into a block that continues the youngest one, any of them if
\* there are several, and is no older.
MineNext ==
    /\ pool \in Fitting
    /\ \E i \in DOMAIN blocks, s \in 1..clock :
        /\ \A j \in DOMAIN blocks : blocks[j].time <= blocks[i].time
        /\ blocks[i].time <= s
        /\ Store(i, s, pool)

\* The block was begun at any time until now, on what the pool held then or on
\* memory never filled in, and continues a block that once was the youngest.
MineSomewhere ==
    /\ Len(blocks') > Len(blocks)
    /\ \E i \in DOMAIN blocks, s \in 1..clock, b \in Fitting :
        /\ \A j \in 1..i : blocks[j].time <= blocks[i].time
        /\ b \subseteq pool \/ b = {Junk}
        /\ Store(i, s, b)

LineSpec == Init /\ [][Tick \/ Submit \/ Genesis \/ MineNext]_vars

TreeSpec == Init /\ [][Tick \/ Submit \/ Genesis \/ MineSomewhere]_vars
=============================================================================
