-------------------------------- MODULE Ledger --------------------------------
(***************************************************************************)
(* blockchain_cryptocurrency: the transaction pool (transactions.db), the  *)
(* chain (blockchain.db) and the wallet programs that read and write them: *)
(* create_transaction of transactions.c as far as the pool sees it, mine   *)
(* and its callees of miner.c, start_blockchain of blockchain.c, and the   *)
(* menu of wallet.c that calls them.                                       *)
(*                                                                         *)
(* Nothing keeps two wallet programs from running in one directory, and    *)
(* SQLite is opened without a busy timeout: a statement fails at once      *)
(* while another program is using the same file.  Every statement is one   *)
(* step, because SQLite runs it as one transaction.                        *)
(*                                                                         *)
(* A program that crashes is started again by its user, so the end of a    *)
(* program is a return to the menu.  The hash of a block is the position   *)
(* of its row: the table is a sequence in the order of insertion.          *)
(***************************************************************************)
EXTENDS Naturals, Sequences, FiniteSets

CONSTANTS
    Procs,      \* the wallet programs that share the DB directory
    Txs,        \* the transactions the users may enter
    Junk,       \* a bundle text nobody wrote: malloc'ed memory never filled in
    BundleMax,  \* how many transactions fit in transaction_bundle[19999]
    MaxClock,   \* bound on the clock
    MaxBlocks,  \* bound on the blocks mined when the pool holds nothing new
    MaxKills    \* bound on the programs stopped from outside

ASSUME LedgerAssumption ==
    /\ Junk \notin Txs
    /\ BundleMax \in Nat
    /\ MaxClock \in Nat /\ MaxBlocks \in Nat /\ MaxKills \in Nat

VARIABLES
    pool,     \* the rows of transactions.db
    blocks,   \* the rows of blockchain.db
    clock,    \* time(NULL)
    pc,       \* where each program stands
    job,      \* why it opened the chain: to mine or to print
    draft,    \* genesis_block of start_blockchain, then new_block of create_block
    kills     \* programs stopped from outside so far

vars == <<pool, blocks, clock, pc, job, draft, kills>>

-----------------------------------------------------------------------------
Bundles == SUBSET (Txs \cup {Junk})
Row == [prev : Nat, time : Nat, txs : Bundles]
NoRow == [prev |-> 0, time |-> 0, txs |-> {}]

States == {"menu", "submit", "count", "genesis", "pool", "stamp", "tip", "pow", "add"}

TypeOK ==
    /\ pool \in SUBSET Txs
    /\ blocks \in Seq(Row)
    /\ clock \in Nat \ {0}
    /\ pc \in [Procs -> States]
    /\ job \in [Procs -> {"mine", "print"}]
    /\ draft \in [Procs -> Row]
    /\ kills \in Nat

Init ==
    /\ pool = {}
    /\ blocks = <<>>
    /\ clock = 1
    /\ pc = [p \in Procs |-> "menu"]
    /\ job = [p \in Procs |-> "print"]
    /\ draft = [p \in Procs |-> NoRow]
    /\ kills = 0

Step(p, from, to) ==
    /\ pc[p] = from
    /\ pc' = [pc EXCEPT ![p] = to]

\* Back to the menu, by a return or by a crash: the locals are gone.
Leave(p, from) ==
    /\ Step(p, from, "menu")
    /\ job' = [job EXCEPT ![p] = "print"]
    /\ draft' = [draft EXCEPT ![p] = NoRow]

\* Another program is at a statement on the same file: SQLITE_BUSY.
UsesPool  == {"submit", "pool"}
UsesChain == {"count", "genesis", "tip", "add"}
Contended(p, states) == \E q \in Procs \ {p} : pc[q] \in states

-----------------------------------------------------------------------------
(***************************************************************************)
(* The menu, and create_transaction.                                       *)
(***************************************************************************)
Mined(t) == \E i \in DOMAIN blocks : t \in blocks[i].txs

ChooseTransaction(p) ==
    /\ Step(p, "menu", "submit")
    /\ UNCHANGED <<pool, blocks, clock, job, draft, kills>>

\* Fault: the INSERT runs on a buffer the values were never formatted into.
InsertUnformatted(p) ==
    /\ Leave(p, "submit")
    /\ pool' = pool \cup {Junk}
    /\ UNCHANGED <<blocks, clock, kills>>

\* Every transaction has a txid of its own: the hash covers the whole structure.
InsertTransaction(p) ==
    /\ Leave(p, "submit")
    /\ \E t \in Txs \ pool : pool' = pool \cup {t}
    /\ UNCHANGED <<blocks, clock, kills>>

\* The INSERT, or the CREATE TABLE before it, fails: the file is in use, or the
\* text the user entered breaks the statement.  Only a message is printed.
InsertFails(p) ==
    /\ Leave(p, "submit")
    /\ UNCHANGED <<pool, blocks, clock, kills>>

\* Beyond MaxBlocks blocks a user mines only for a transaction not yet mined, and
\* at most as many blocks as there are transactions.
ChooseMine(p) ==
    /\ \/ Len(blocks) < MaxBlocks
       \/ Len(blocks) < MaxBlocks + Cardinality(Txs) /\ \E t \in pool : ~Mined(t)
    /\ Step(p, "menu", "count")
    /\ job' = [job EXCEPT ![p] = "mine"]
    /\ UNCHANGED <<pool, blocks, clock, draft, kills>>

ChoosePrint(p) ==
    /\ Step(p, "menu", "count")
    /\ job' = [job EXCEPT ![p] = "print"]
    /\ UNCHANGED <<pool, blocks, clock, draft, kills>>

-----------------------------------------------------------------------------
(***************************************************************************)
(* start_blockchain: count the rows, and insert the genesis row if there   *)
(* seem to be none.  The row's key "EPOCH" is the table's primary key.     *)
(* The clock is read with the count: rows are never removed, so a count    *)
(* that is out of date by then only leads to an INSERT that fails.         *)
(***************************************************************************)
Opened(p, from) ==
    \/ /\ job[p] = "mine" /\ Step(p, from, "pool")
       /\ draft' = [draft EXCEPT ![p] = NoRow]
       /\ UNCHANGED job
    \/ job[p] = "print" /\ Leave(p, from)

\* The genesis block is dated one second back.
BeginGenesis(p) ==
    /\ Step(p, "count", "genesis")
    /\ draft' = [draft EXCEPT ![p].time = clock - 1]
    /\ UNCHANGED job

CountRows(p) ==
    /\ \/ blocks = <<>> /\ BeginGenesis(p)
       \/ blocks # <<>> /\ Opened(p, "count")
    /\ UNCHANGED <<pool, blocks, clock, kills>>

\* The count fails and row_count keeps its initial 0.
CountFails(p) ==
    /\ Contended(p, UsesChain)
    /\ BeginGenesis(p)
    /\ UNCHANGED <<pool, blocks, clock, kills>>

\* Its previous_hash is "EPOCH" too, the hash of no block mined before it.
GenesisRow(p) == [prev |-> 0, time |-> draft[p].time, txs |-> {}]

\* Fault: block_hash is not a primary key.
InsertGenesisAgain(p) ==
    /\ Opened(p, "genesis")
    /\ blocks' = Append(blocks, GenesisRow(p))
    /\ UNCHANGED <<pool, clock, kills>>

\* Fault: the genesis row is written with INSERT OR REPLACE.
GenesisReplaces(p) ==
    /\ Opened(p, "genesis")
    /\ blocks' = IF blocks = <<>> THEN <<GenesisRow(p)>>
                                  ELSE [blocks EXCEPT ![1] = GenesisRow(p)]
    /\ UNCHANGED <<pool, clock, kills>>

InsertGenesis(p) ==
    /\ Opened(p, "genesis")
    /\ blocks' = IF blocks = <<>> THEN <<GenesisRow(p)>> ELSE blocks
    /\ UNCHANGED <<pool, clock, kills>>

\* The result of the INSERT is not looked at.
GenesisFails(p) ==
    /\ Contended(p, UsesChain)
    /\ Opened(p, "genesis")
    /\ UNCHANGED <<pool, blocks, clock, kills>>

-----------------------------------------------------------------------------
(***************************************************************************)
(* create_block: copy the pool, stamp the block, find the newest block,    *)
(* search for a nonce.                                                     *)
(***************************************************************************)
\* Fault: the block takes only the transactions mined before.
ReadPoolStale(p) ==
    /\ Step(p, "pool", "stamp")
    /\ draft' = [draft EXCEPT ![p].txs = {t \in pool : Mined(t)}]
    /\ UNCHANGED <<pool, blocks, clock, job, kills>>

ReadPool(p) ==
    /\ Step(p, "pool", "stamp")
    /\ draft' = [draft EXCEPT ![p].txs = pool]
    /\ UNCHANGED <<pool, blocks, clock, job, kills>>

\* Fault: the SELECT fails although no other program is using the file.
PoolFailsAlone(p) ==
    /\ Step(p, "pool", "stamp")
    /\ \E b \in {{}, {Junk}} : draft' = [draft EXCEPT ![p].txs = b]
    /\ UNCHANGED <<pool, blocks, clock, job, kills>>

\* The SELECT fails, the error is printed, and the text buffer, never filled in,
\* becomes the bundle: whatever the memory held, or an empty text.  A SELECT on a
\* file without the table fails too; the installed transactions.db has the table.
PoolFails(p) ==
    /\ Contended(p, UsesPool)
    /\ Step(p, "pool", "stamp")
    /\ \E b \in {{}, {Junk}} : draft' = [draft EXCEPT ![p].txs = b]
    /\ UNCHANGED <<pool, blocks, clock, job, kills>>

\* Fault: the length of the bundle is not considered.
StampAnyway(p) ==
    /\ Step(p, "stamp", "tip")
    /\ draft' = [draft EXCEPT ![p].time = clock]
    /\ UNCHANGED <<pool, blocks, clock, job, kills>>

Stamp(p) ==
    /\ Cardinality(draft[p].txs) <= BundleMax
    /\ Step(p, "stamp", "tip")
    /\ draft' = [draft EXCEPT ![p].time = clock]
    /\ UNCHANGED <<pool, blocks, clock, job, kills>>

\* strcpy writes beyond the block and over the return address of create_block,
\* which adds nothing to the chain before it returns.
BundleOverflows(p) ==
    /\ Cardinality(draft[p].txs) > BundleMax
    /\ Leave(p, "stamp")
    /\ UNCHANGED <<pool, blocks, clock, kills>>

\* Fault: ORDER BY timestamp, without DESC.
Oldest == {i \in DOMAIN blocks : \A j \in DOMAIN blocks : blocks[i].time <= blocks[j].time}

\* ORDER BY timestamp DESC LIMIT 1: any of the rows with the largest timestamp.
Newest == {i \in DOMAIN blocks : \A j \in DOMAIN blocks : blocks[j].time <= blocks[i].time}

\* Fault: the tip is the row inserted last.
ReadLastRow(p) ==
    /\ blocks # <<>>
    /\ Step(p, "tip", "pow")
    /\ draft' = [draft EXCEPT ![p].prev = Len(blocks)]
    /\ UNCHANGED <<pool, blocks, clock, job, kills>>

ReadTip(p) ==
    /\ Step(p, "tip", "pow")
    /\ \E i \in Newest : draft' = [draft EXCEPT ![p].prev = i]
    /\ UNCHANGED <<pool, blocks, clock, job, kills>>

\* No row, and strdup gets a null pointer; or the SELECT fails, with the same end.
TipFails(p) ==
    /\ blocks = <<>> \/ Contended(p, UsesChain)
    /\ Leave(p, "tip")
    /\ UNCHANGED <<pool, blocks, clock, kills>>

\* The search ends in the second it began, or any number of ticks later.
HashBlock(p) ==
    /\ Step(p, "pow", "add")
    /\ UNCHANGED <<pool, blocks, clock, job, draft, kills>>

-----------------------------------------------------------------------------
(***************************************************************************)
(* add_block, and what happens around the programs.                        *)
(***************************************************************************)
AddBlock(p) ==
    /\ Leave(p, "add")
    /\ blocks' = Append(blocks, draft[p])
    /\ UNCHANGED <<pool, clock, kills>>

\* The INSERT fails: the file is in use, or the same block is there already (the
\* hash also covers block_index, which is never set, so equal blocks may differ).
AddFails(p) ==
    /\ Contended(p, UsesChain) \/ \E i \in DOMAIN blocks : blocks[i] = draft[p]
    /\ Leave(p, "add")
    /\ UNCHANGED <<pool, blocks, clock, kills>>

Tick ==
    /\ clock < MaxClock
    /\ clock' = clock + 1
    /\ UNCHANGED <<pool, blocks, pc, job, draft, kills>>

Kill(p) ==
    /\ kills < MaxKills
    /\ \E s \in States \ {"menu"} : Leave(p, s)
    /\ kills' = kills + 1
    /\ UNCHANGED <<pool, blocks, clock>>

Menu(p) == ChooseTransaction(p) \/ ChooseMine(p) \/ ChoosePrint(p)

Work(p) ==
    \/ InsertTransaction(p) \/ InsertFails(p)
    \/ CountRows(p) \/ CountFails(p) \/ InsertGenesis(p) \/ GenesisFails(p)
    \/ ReadPool(p) \/ PoolFails(p) \/ Stamp(p) \/ BundleOverflows(p)
    \/ ReadTip(p) \/ TipFails(p) \/ HashBlock(p)
    \/ AddBlock(p) \/ AddFails(p)

Next == Tick \/ \E p \in Procs : Menu(p) \/ Work(p) \/ Kill(p)

Spec == Init /\ [][Next]_vars

(* Time passes, a program runs on, and its user comes back to option 5     *)
(* again and again.                                                        *)
MinerFairness ==
    /\ WF_vars(Tick)
    /\ \A p \in Procs : WF_vars(Work(p)) /\ SF_vars(ChooseMine(p))

FairSpec == Spec /\ MinerFairness

-----------------------------------------------------------------------------
(* There is one genesis block, it is the first row, and every other block  *)
(* continues a block stored before it: following previous_hash always ends *)
(* in the genesis block, whatever two programs do at once (the count and   *)
(* the INSERT of start_blockchain are two statements; blockchain.c, lines  *)
(* 49-70).                                                                 *)
Rooted ==
    \A i \in DOMAIN blocks :
        IF i = 1 THEN blocks[i].prev = 0 ELSE blocks[i].prev \in 1..(i - 1)

(* A block that arrives after a younger one never gets a successor: the    *)
(* parent of every block was, when it was stored, at least as young as all *)
(* the rows before it (get_previous_hash, miner.c, line 78).               *)
LateBlocksStayBare ==
    \A i \in DOMAIN blocks :
        \A j \in 1..blocks[i].prev : blocks[j].time <= blocks[blocks[i].prev].time

(* A stored block is never changed or removed (add_block and               *)
(* start_blockchain only insert).                                          *)
NeverRewritten ==
    [][Len(blocks) <= Len(blocks') /\ \A i \in DOMAIN blocks : blocks'[i] = blocks[i]]_vars

(* Of one program the rows are in order of time, and a block passes over   *)
(* no row but such as are dated the second of its parent: the chain of a   *)
(* lone program can only fork at blocks found within one second            *)
(* (get_previous_hash, miner.c, line 78, takes any of the rows with the    *)
(* largest timestamp; nothing in hash_block, lines 100-152, makes a search *)
(* last a second).                                                         *)
OnlyTiesFork ==
    \A i \in DOMAIN blocks :
        i > 1 => /\ blocks[i - 1].time <= blocks[i].time
                 /\ blocks[i].prev \in 1..(i - 1)
                 /\ \A j \in blocks[i].prev..(i - 1) :
                        blocks[j].time = blocks[blocks[i].prev].time

(* A block holds transactions of the pool and nothing else, as long as no  *)
(* other program makes the SELECT on the pool fail (miner.c, lines 4 and   *)
(* 23-45).                                                                 *)
BlocksHoldPoolOnly == \A i \in DOMAIN blocks : blocks[i].txs \subseteq pool

\* The bundles that Stamp accepts: strcpy has room for them.
Fitting == {b \in Bundles : Cardinality(b) <= BundleMax}

C == INSTANCE Chain

(* Whatever several programs do at once, what becomes of the pool and the  *)
(* chain could have been done by storing finished blocks one after the     *)
(* other: each fits, is dated when it was begun, holds transactions of the *)
(* pool unless the SELECT failed, and continues a block that was the       *)
(* youngest once (create_block and add_block, miner.c, lines 4-61 and      *)
(* 184-233).                                                               *)
ImplementsTree == C!TreeSpec

(* Of one program even more: a block might as well be made at the moment   *)
(* it is stored.  It holds the whole pool, continues the youngest block    *)
(* and is no older, although pool, clock and tip were read before the      *)
(* proof of work (mine, miner.c, lines 236-245).                           *)
ImplementsLine == C!LineSpec

(* Every transaction of the pool is mined, if a user goes on mining        *)
(* (mine, miner.c, lines 236-245).                                         *)
PooledIsMined == \A t \in Txs : (t \in pool) ~> Mined(t)
=============================================================================
