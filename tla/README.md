# Verification of the Manhattan-Group programs

TLA+ models of the programs in this repository, the TLC runs that check them on
small instances, and TLAPS proofs of what matters most for instances of every
size. Paths are relative to the repository (`src/`).

## 1. Inventory

The repository holds four programs. They share no code; the first two share the
file `nodes.db`.

| Part | Source | State it keeps | Operations | Modelled in |
|---|---|---|---|---|
| Node discovery | `node_discovery/` | `nodes.db`, `nodes_.db`, connections, the states of three threads | dial, exchange, merge, serve, announce | `NodeDiscovery`, `Gossip` |
| Propagation | `propagation_latency/` | an array of nodes with sockets | count, read, connect, send, receive | `Propagation` |
| Wallet: pool, miner, chain | `blockchain_cryptocurrency/` | `DB/transactions.db`, `DB/blockchain.db`, the block under construction | enter a transaction, mine, print the chain | `Ledger`, `Chain` |
| Wallet: keys, signing | the same directory | `DB/wallet.db`, `DB/transactions.db`, key buffers on the stack | generate five addresses, look up keys, sign, put into the pool | `Wallet` |
| Verifications | `verifications.c` | none | test a key pair; placeholders called on uninitialised structures | the first in `Wallet`, the others not |
| Smart contract machine | `smart_contract_platform/vm.c` | stack, memory, storage, program counter | one per instruction | `VM` |
| Coinbase, base58 | `coinbase.c`, `base58.c` | none | a stand-alone demonstration; a third-party encoder | not modelled |

How the parts interact:

- A discovery process runs a client, a server and a task thread. They share
  `nodes.db` through SQLite and `nodes_.db` through the C library, without a lock of
  their own; processes meet over TCP.
- Propagation reads the `nodes.db` that discovery writes, with SQLite's locking and
  nothing else.
- Nothing keeps two wallet programs from running in one directory; they meet in
  SQLite's file locks, and no busy timeout is set, so a statement on a file in use
  fails at once.
- Signing and mining meet in `transactions.db`: `Wallet` says what enters the pool,
  `Ledger` what becomes of it.
- The machine runs alone. Its calls share one stack, one memory and one storage.

What is hard in this code, by part (`PROJECT.json`, "hazards", gives the lines):

- *Discovery*: two threads rewrite one staging file; `recv()` = 0 is taken for
  progress; every node waits as a client while others wait on its server; SQLite
  errors skip rows or abandon a merge; processes die of `SIGPIPE`, of a NULL answer,
  or from outside.
- *Chain*: read the tip, work for seconds, insert - with another program doing the
  same; "count, then insert the genesis row" in two statements; timestamps of one
  second; a pool that never shrinks copied into a buffer of fixed size.
- *Propagation*: sending before the connection exists; replies in parts; a table
  counted and read in two steps; a field nobody initialised.
- *Keys*: steps whose failure is printed and ignored; keys erased in buffers that are used
  again; a stack frame that still holds what the last call left; a lookup that another
  program's write ends early.
- *Machine*: arithmetic at the edge of the word; a second variable that hides the first and is
  half as wide; memory addressed by bits and stored by bytes; jumps into pushed bytes; one stack
  for many calls.

What makes each part correct:

- *Discovery*: what a node merges is a copy of a database of a neighbour; no row is
  lost; rows spread along known addresses only; exchanges end; what a reachable node
  knows, one comes to know.
- *Chain*: one root, every block continues a stored one, stored blocks stay, a lone
  miner's chain forks at blocks of one second only, what is pooled is mined.
- *Propagation*: what is printed as a message is complete; the program ends; all
  listeners hear.
- *Keys*: what a row holds belongs together; no key is lost; what is reported as stored is
  stored; a signature comes from a key of the wallet, and from the sender's.
- *Machine*: the stack keeps its bounds; only instructions are executed; results are those of
  the instruction table; loads give what stores left; only jumps run forever.

## 2. Modules

    Gossip               what discovery promises          GossipProofs
      ^ implemented by
    NodeDiscovery        threads, files, sockets          NodeDiscoveryProofs,
                                                          NodeDiscoveryEndsProofs
    Chain                what the programs promise of
      ^ implemented by   pool and chain
    Ledger               pool, miner, chain               LedgerProofs
    Wallet               keys, addresses, signatures      WalletProofs
    Propagation          one sender, its hosts, the table PropagationProofs
    VM                   the bytecode machine             VMProofs,
                                                          VMWordProofs

`MCGossip`, `MCNodeDiscovery`, `MCWallet`, `MCLedger`, `MCPropagation` and `MCVM` give
the constants values. Definitions marked "Fault:" are no part of a specification: each is a
plausible mistake in the definition before or after it, and replacing that definition
by it must violate a property (`PROJECT.json`, "mutants").

### Gossip

One variable, `known[n]`: the rows of n's database. A node announces a row of its own
(`AnnounceSelf`) or copies one from a neighbour (`Learn`): a node it has a row of, or
one that has a row of it. Its promise is `IslandsStayApart`: rows cross no gap between
islands of nodes that never held each other's addresses. That no row is ever lost
(`NeverForgets`) is the very form of its steps, and is therefore checked where it could fail, of
`NodeDiscovery`.

### NodeDiscovery

| State | Code |
|---|---|
| `db`, `staging` | the files `nodes.db` and `nodes_.db` of each node |
| `cpc`, `peer`, `cursor`, `reply` | the client thread: where it stands, the server it is connected to, the rows its SELECT has still to return, what arrived |
| `spc`, `serving`, `backlog`, `orphan` | the server thread: where it stands, the accepted connection, the listen queue, whether the file it has open was unlinked |
| `tpc`, `ip` | the task thread and the address it found |
| `up`, `crashes` | whether the process runs; a bound |

The client's actions are the calls between which another thread or process can act:
`get_random_node` and `connect` (`Dial`, `DialFails`), the two sends and two receives,
`fopen("wb")` (`ClientTrunc`), `fwrite` (`ClientWrite`), the open, prepare and first
step of the SELECT (`Open`, `Scan`, `ScanGivesUp`), one INSERT per row (`InsertRow`,
`SkipRow`), `unlink`. The server's are the same calls of `the_server`. A row stands
for an address, because `(ip, port)` is UNIQUE in the table. Reading `nodes.db` is one
step: a table of the size the repository installs is read at once.

The processes of the model run on different machines or in different directories,
each with files of its own, as the README of the part describes.

A process ends by `SIGPIPE` (`BrokenPipe`), by matching a pattern against NULL
(`MatchNull`), or from outside (`Crash`). Its files stay; its connections lose one
end; `Restart` starts it again, and the new process may find its port still taken, in which
case its server thread is "deaf": it ends, and the other two go on. After the death of a process, a call on the other end may fail or go on
with 0 bytes (`ClientLosesServer`, `ServerLosesClient`) - for the size this means
whatever the stack held, for the body an endless loop (`"spin"`).

### Chain

Three variables, `pool`, `blocks` and `clock`, and no programs: a transaction enters the pool in
one step, a block is made and stored in one step. `LineSpec` is the promise of a program that runs
alone: each block holds the whole pool of that moment, continues a youngest block and is no older.
`TreeSpec` is what is left of it with several programs: the block fits, is dated now or earlier,
holds transactions of the pool or memory nobody filled in, and continues a block that was the youngest
once. `Ledger` implements the second (`ImplementsTree`) and, with one program, the first
(`ImplementsLine`); its statements, its locals and its failures are stuttering steps.

### Ledger

| State | Code |
|---|---|
| `pool`, `blocks` | the rows of `transactions.db` and `blockchain.db`, the second in the order of insertion |
| `pc`, `job`, `draft` | each wallet program: where it stands, whether it opened the chain to mine or to print, `new_block` |
| `clock` | `time(NULL)` |
| `kills` | a bound |

Each SQLite statement is an action, with a second action for its failure when another
program is at a statement on the same file (`Contended`). A block's hash is its row's
position: SHA-384 is taken as collision-free. The genesis row, whose `previous_hash`
`EPOCH` is no mined block's hash, has `prev` 0; the clock it is dated by is read with the
count, since a later reading belongs to a later count or to an INSERT that fails. A
proof of work takes no time or any (`HashBlock` and `Tick`): with three bytes of zeros to find,
it may end in the second it began. A program that crashes goes back to the menu, because its
user starts it again. `PoolFails` needs another program at the file: the other reason
for which the SELECT may fail, a `transactions.db` without the table, is not a state
the repository installs.

Two things the code does and this model leaves out: the clock never goes back, and
`previous_hash[96]` is one byte short for the terminator of 96 hex digits. (The
terminator falls on `block_hash[0]`, which the proof of work leaves 0.)

### Wallet

| State | Code |
|---|---|
| `wallet`, `pool` | the rows of `wallet.db` and `transactions.db` |
| `made` | the key pairs the signature scheme has come up with |
| `pc`, `draft`, `shown` | each wallet program: where it stands, `b_wallet` and `h_wallet` of `generate_address`, the addresses it printed |
| `entry`, `keys`, `sig` | `new_transaction` and `wallet_keys` of `create_transaction`, with the signature |

A key pair is one value: its private key, its public key and its address are that value, so
that "they belong together" is an equation. `Generate` is one turn of the loop up to its
INSERT, every step of which may fail with a message only: the pair stays zero, the test erases
the private key, the hash stays zero. `Store` and `StoreFails` are the INSERT. `create_transaction` is
`EnterTransaction`, the lookup with its three ends, the signature with its three and
`InsertTransaction`. `keys` and `sig` outlive the call: the next one's frame lies in the same
place, and finds either what they held or something else (`Garbage`), whichever the calls
between left there.

### VM

| State | Code |
|---|---|
| `script` | the calls of `execute_bytecode` and `stack_clear` that `main` has still to make |
| `code`, `pc` | the bytecode and the offset of the pointer of that name |
| `top`, `data` | the stack |
| `memory`, `storage` | the static arrays, which outlive a call |
| `status`, `result` | whether a call runs, and what the last returned |

One action stands for one kind of instruction; `Pops`, `Needs`, `Grows` and `Compute` are its table,
as the code has it. `Fetches` holds the checks every case of the switch begins with. C's
integer arithmetic is written out: wrapping, division that rounds to zero, the one quotient
that traps, shifts modulo the width, pointers that LOG computes past the end of the address space
(`Base`). `Half` is the `uint32_t` variable of the name `b` that hides
the `int64_t` one from SIGNEXTEND on. `Exits` is `exit(1)` or SIGFPE. Where `SSTORE` or `SLOAD`
leaves the array or the word it points to (`Strays`), the model stops: what is found
there is not the machine's.

### Propagation

The array is the set `nodes`; `status`, `sock` and what has arrived are functions on
hosts. `Connect` ends with an open connection or one in progress, `SendMessage` reaches
the host only in the first case (of a refused connection it takes the error away, and `recv` then
finds the end of the stream: "spent"), `Select` and `SelectTimesOut` are the two ways of
`select`, and `RecvData`, `RecvEnd` and `RecvError` those of one `recv`. A reply of 1024 bytes
arrives in two parts. `Discover` is node discovery inserting a row meanwhile. The README of
this part speaks of a server thread (line 23); the source has none, and the model
follows the source.

## 3. What the runs check

"Fails" marks a run that TLC must refute: it states what a comment or README of the
repository says and the code does not do (`PROJECT.json`, "findings", quotes both).

| Run | Property | Shows |
|---|---|---|
| gossip | `IslandsStayApart` | the promise holds of the abstract protocol |
| discovery_safety | `TypeOK`, `SingleSource`, `NoMissingFile`, `EndsAgree`, `NobodyWaitsInVain` | two processes dial each other and themselves: the threads sharing `nodes_.db` never mix databases, the client always finds the file, no server answers the client of another connection, and no exchange comes to a point where both ends wait |
| discovery_offline | `SingleSource`, `EndsAgree`, `NeverForgets`, `ImplementsGossip` | the same with processes that die for want of an answer, of `SIGPIPE`, or killed anywhere, and come back; addresses are not found and `(null)` spreads; every step is one of Gossip |
| discovery_live | `RoundEnds`, `ServerReturns`, `PullConverges` | no cycle of nodes waits on each other; a node that nobody dials comes to know what its servers know |
| discovery_pull_merged | `PullMerged` | *fails*: the server thread overwrites the reply the client saved |
| ledger_shared | `TypeOK`, `Rooted`, `LateBlocksStayBare`, `NeverRewritten`, `ImplementsTree` | two programs at once: one root, every block continues a stored one, a block overtaken before it was stored is never built upon, stored blocks stay; every step is one of Chain |
| ledger_single | `OnlyTiesFork`, `BlocksHoldPoolOnly`, `PooledIsMined`, `ImplementsLine` | one program, stopped up to twice: the chain forks only at blocks found within one second, its blocks hold pooled transactions only, and all pooled transactions get mined while the bundle has room; each block might as well have been made when it was stored |
| propagation | `TypeOK`, `WholeMessages`, `Finishes` | partial replies are never printed as messages; the program ends whatever the hosts do |
| propagation_hears | `EveryListenerHears` | *fails*: the send comes before the handshake |
| wallet | `TypeOK`, `KeysBelong`, `SaidStored`, `SignaturesFromWallet`, `KeysAreKept` | two programs on one wallet, every step failing where it can: rows are whole, none is lost, success is not reported too early, and no signature comes from elsewhere than the wallet |
| wallet_signer | `SignedByOwner` | *fails*: after a lookup that found nothing, a transaction is signed with the keys of the call before |
| vm | `TypeOK`, `OnInstruction`, `FollowsTable`, `LoadsWhatWasStored`, `OnlyJumpsLoop` | some 5,000 pieces of bytecode, alone and one after another on the same stack: bounds, pushed bytes, results on plain operands, memory, and the way to an end |

The model shows more that a comment or README denies, or nobody may expect, without a run
of its own.

Discovery and chain:

- `node_discovery.c`, lines 11-12, says that the server updates its database with what a
  client pushes. It saves the rows as `nodes_.db` (`ServerWrite`) and never merges them; only
  a later round of its own client may (`Scan`), unless that round overwrites them first.
- Where no address is found, `(null)` becomes a row (`LearnIp`, `TaskInsert`) and
  spreads, though line 17 of the same file speaks of addresses only.
- A client that is killed after its connection was accepted leaves the server in a loop on
  `recv()` = 0 (`ServerLosesClient`, functions.h line 314), so that it accepts nobody any more;
  line 25 of the README of this part says that it accepts connections. `ServerReturns` is therefore
  checked without crashes.
- Two programs that mine at once may both continue the same block, because the tip is read before
  the work (`ReadTip`, miner.c line 56). `validate_blockchain` (verifications.c, lines 197-205) asks that
  each row continues the one before, and rejects such a table.
- `ORDER BY timestamp DESC LIMIT 1` has no second key (`Newest`), and nothing makes a proof of work last
  a second: two blocks of one second tie, the next may continue either, and one program alone may fork its
  chain. `OnlyTiesFork` says that this is the only way in which it does.
- Nothing takes a mined transaction out of the pool (`ReadPool`): each later block
  holds it again. Once the pool outgrows the bundle (`BundleOverflows`; four signed transactions
  do, by the length of a hex signature) no block is added any more, so `PooledIsMined`
  needs a bundle with room for all.
- When another program makes the SELECT on the pool fail, a buffer nobody filled in becomes
  the bundle (`PoolFails`): `BlocksHoldPoolOnly` holds for a lone program only.
- `status` of an entry whose `connect` failed is what `malloc` left (`Fill`, `ConnectFails`), and
  a row inserted between the COUNT and the SELECT is written behind the array
  (`GetNodesOverruns`).

Keys and signatures:

- A pair that fails `validate_key_pair` is stored with its private key erased, and only a message
  tells (`Validated`, `Generate`). Nothing can be signed for that address.
- A lookup that meets another program's write ends like one that found nothing (`LookupMisses`): a
  known sender's transaction may then be signed by other keys, or enter the pool with a
  signature nobody wrote.
- Addresses are printed before they are stored (`Generate`), so that a user may keep one whose keys are
  lost (`StoreFails`).
- `getchar` takes the first character of the recipient's line (transactions.c), and `hex_to_bin`
  writes a terminator one byte behind its array; the model's `Payments` are what is left of the
  line, and it has no such byte.

Machine, against `reference_to_implement.txt`:

- `EQ` cuts one operand to 32 bits: -1 equals 4294967295 (the table says `a == b`). `LT`, `GT`, `SLT`,
  `SGT`, `AND`, `OR`, `XOR` and the stored values are cut in the same way.
- Words are signed where the table has a uint (lines 5, 7, 11, 14, 15 and 26): on operands with the sign bit
  `DIV` and `MOD` do what `SDIV` and `SMOD` do, `LT` and `GT` compare as `SLT` and `SGT`, `SHR` shifts the
  sign in like `SAR`, and `EXP` takes a negative exponent for 0.
- Shifts of 64 to 255 bits are left to C's operators, which leave them undefined; the processor shifts modulo
  64, where the table would have 0.
- `MSTORE` and `MLOAD` are about words, and `MSTORE8` about a whole byte, each at an offset in bytes, in the
  table (lines 58-60). In the code all three take an offset in bits and touch one byte of memory from
  that bit to its end: `MSTORE` does what `MSTORE8` does, what does not fit is dropped, and what `MLOAD`
  gives has eight bits at most. `LoadsWhatWasStored` says what is left of them, and is the
  table's `MSTORE8` only where the offset is the start of a byte.
- `LOG`'s range check compares pointers that may wrap around (`InBounds`): some ranges that do are accepted,
  and print nothing.
- `DUPx` pushes x items instead of one (`Dup`), `SWAPx` reverses the x + 1 top items (`Swap`), and `PUSHx`
  pushes its bytes one by one (`PushBytes`), also those behind the end of the code.
- `SUB`, `DIV`, `MOD` and their kin, `MSTORE`, `SSTORE` and `JUMPI` take their operands in the other order.
- `BYTE` counts from the right. `SIGNEXTEND` never extends, and asks for three items. `EXP` gives up
  where there is no overflow, as for 0^1 (`Power`).
- Keys with the same first byte share a slot, so that all keys below 2^56 share the first; once it holds
  a word, a key with other bytes than zero reads or writes behind that word (`Lands`, `Strays`).
- Any byte 0x5b is a destination (`IsDest`), also a pushed one; `OnInstruction` is therefore about code
  without such bytes.

`Plain` is the set of operands for which the first three of these do not show, and `FollowsTable` is about
them alone; `Follows` is what the table asks, of a uint where the table says so.

`PullConverges` is about a node nobody dials, and the seed of discovery_live says so: when others
dial it too, their pushes may overwrite every reply it saves, which is what
`discovery_pull_merged` shows.

### Bounds

- *Discovery*: two processes; one address where nobody listens where it matters;
  `Backlog` 1 (5 in the code: with two clients a longer queue is never full,
  with 1 it can be), and 0 in discovery_offline, where one connection may wait. Two nodes that dial each other and themselves already make every
  pair of threads meet on every file. `MaxCrashes` 1 puts the crash at every point of
  every exchange; the theorems have no such bound. No one run has every way of asking for
  the address: their product with crashes is too large, so the runs divide them.
- *Ledger*: two programs make every pair of statements meet; `MaxClock` and
  `MaxBlocks` leave room for the genesis row and two or three more, enough for a fork
  and for a block on it. Beyond `MaxBlocks` a user mines only for a transaction not yet
  mined. `BundleMax` stands for the number of rows that fit in 19999 bytes: 1 of 2 in
  ledger_shared, so that bundles overflow, and 2 of 2 in ledger_single. The databases start
  empty; the repository installs a `blockchain.db` with the genesis row and a
  `transactions.db` with one row, states that are reached from there.
- *Propagation*: four hosts, one of each kind; a reply in two parts.
- *Wallet*: two programs; one key pair and the pair of zero keys that a failing generator
  leaves, so that two rows, a row with an erased key and a clash of addresses occur; `Batch` 2 for
  the 5 of the code, for a first, a last and a failing INSERT; a pool of one transaction. wallet_signer
  has one program, two pairs and two transactions, as its counterexample needs a second call.
- *VM*: words of 16 bits for 64, with 8 for 32, and the thresholds 255, 63 and 32 scaled with the word;
  a stack of 8, two bytes of memory at address 300, four slots. Operands are the least and the largest word, small
  numbers of both signs and the numbers around 2^8; every instruction of two operands meets every pair of
  them, every opcode is fetched from an empty stack, every DUP, SWAP and LOG from a short one.

Deadlock is checked where the system must not stop. The runs of programs that end turn it off
(propagation, vm), and discovery_offline, where a process may spin with all its threads stuck.

### Fairness

- `FairSpec` of discovery: the scheduler runs each thread that can run, and a
  process that ended is started again. TCP delivers what was sent while both ends
  live. No fairness is assumed of a crash.
- `RandomSpec` adds that no reachable server is left out for ever by `ORDER BY
  RANDOM()`: strong fairness of each `Dial`.
- `FairSpec` of the ledger: time passes, a program runs on, and its user chooses option 5 again
  and again. The failure actions are part of `Work`, so fairness does not rule them out;
  with one program they are not enabled except where the code fails by itself.
- `FairSpec` of propagation and of VM: the program runs on. Hosts owe it nothing, and
  bytecode may loop.

The liveness results hold for a discovery process below its limit of open files: it
leaks sockets and database handles.

## 4. What is proved

For all values of the constants that satisfy each module's assumption.

| Theorem | Statement |
|---|---|
| `GossipProofs!GossipIslands` | the promise of Gossip |
| `NodeDiscoveryProofs!TypeCorrect` | the type invariant |
| `NodeDiscoveryProofs!CopiesHaveOneSource` | `Spec => []SingleSource` |
| `NodeDiscoveryProofs!DiscoveryImplementsGossip` | `Spec` implements `Gossip!Spec` |
| `NodeDiscoveryProofs!DiscoveryIslands`, `DiscoveryNeverForgets` | hence the promise holds of the processes, and no exchange and no crash takes a row away |
| `NodeDiscoveryEndsProofs!ServersAnswerTheirClients` | `Spec => []EndsAgree` |
| `NodeDiscoveryEndsProofs!TheFileIsThere` | `Spec => []NoMissingFile` |
| `NodeDiscoveryEndsProofs!WaitingEnds` | `Spec => []NobodyWaitsInVain`: no two ends wait for each other, whatever processes end |
| `LedgerProofs!TypeCorrect` | the type invariant |
| `LedgerProofs!ChainIsRooted` | one root, every block continues a stored one, for any number of programs |
| `LedgerProofs!OvertakenBlocksStayBare`, `StoredBlocksStay` | the other two properties of ledger_shared |
| `LedgerProofs!LoneChainForksOnTies` | `OnlyTiesFork`, if there is one program |
| `LedgerProofs!LoneBlocksHoldPool` | `BlocksHoldPoolOnly`, if there is one program |
| `LedgerProofs!LedgerImplementsChain` | `Spec` implements `Chain!TreeSpec`, for any number of programs |
| `LedgerProofs!LoneMiningIsAtomic` | `Spec` implements `Chain!LineSpec`, if there is one program |
| `PropagationProofs!TypeCorrect`, `MessagesAreWhole` | the type invariant; `WholeMessages` |
| `WalletProofs!TypeCorrect` | the type invariant |
| `WalletProofs!StoredKeysStay`, `StoredKeysBelong` | `KeysAreKept`, `KeysBelong` |
| `WalletProofs!SignaturesAreTraced` | `SignaturesFromWallet` |
| `WalletProofs!ReportedIsStored` | `SaidStored` |
| `WalletProofs!LoneOwnersSign` | if there is one program, what is signed for a sender in the wallet is signed with the keys of that row |
| `VMProofs!TypeCorrect` | the type invariant: all the machine holds are words, whatever the instructions compute |
| `VMProofs!FollowsTheTable` | `Spec => FollowsTable`, for words of every size |
| `VMProofs!LoadsFollowStores` | `Spec => LoadsWhatWasStored` |
| `VMProofs!OnlyJumpsGoBack` | while a call runs, every step takes `pc` forward or to a JUMPDEST |
| `VMProofs!StackBounded` | the stack stays in its array, for every code and every sequence of calls |
| `VMProofs!StaysOnInstructions` | `OnInstruction` |

Arguments:

- *Discovery*. `SingleSource` says where the copies in flight come from, but not why
  the next copy will come from there. `Sourced` adds two facts: a connected client
  has its server's row (`PeerKnown`: it dialled it, and rows are never lost), and the task
  thread inserts only what the node announces (`IpAnnounced`). It is inductive because
  databases only grow, so that a source stays one (`SourcesStay`). Each INSERT of a
  merge then is a `Learn` of Gossip: the cursor is contained in a neighbour's database.
- *Chain*. `Rooted` and `LateBlocksStayBare` are conclusions about stored rows; the
  programs matter only through what they hold between reading the tip and storing.
  `Drafts` says that the row a program mines on is stored and was the youngest when it
  was read (`Pursued`), and rows before it never change (`BlocksGrow`, `RowsStay`). `Tree`
  is the same of the stored rows.
- *One program*. `Single`: rows are in order of time and none is ahead of the clock, a stamped draft is
  no older than any of them, and its parent is a youngest row (`Progress`), so that the rows it passes over
  are dated like the parent (`TiesFork`). The order of rows is stated for every pair of rows, not
  for neighbours.
- *Ends of an exchange*. `EndsAgree` speaks of connections servers hold; what keeps it true are the
  places where a client lets go. `Agree` says that a client outside an exchange has no server
  (`Idle`), that one with a complete reply is held by no server (`Finished`), and that of an accepted
  connection and those that wait no two are the same client's. Most steps keep all clients of
  connections (`ConnectionsKept`); the others are `Dial`, `ClientWrite`, `Accept`, the server's two
  sends and `Die`, each proved by itself. `Stopped` adds that the server thread of a process that does not run
  holds no connection, so that a restart which leaves it deaf disturbs none. `NoMissingFile` needs no strengthening but types.
- *Waiting*. `Agree` says who holds whose connection, but not how far the two ends have come. `Meet` adds
  it: how much a connected client has sent is where its thread stands (`ServedInStep`, and
  `QueuedInStep` for one not yet accepted), and a client without a complete answer is still held by its
  server (`Awaited`). Where it could break is where one end goes on or lets go: the client's sends, `Dial`,
  the server's last send, and `Die`.
- *Chain as a whole*. `Carries` says of each program what its block will be when it is stored: the bundle
  is a set of the pool that only grows, the stamp is not ahead of the clock, the tip was the youngest
  (`Pursued`). `AddBlock` then is `MineSomewhere`; every other statement leaves pool and chain alone or
  is `Submit` or `Genesis`. For a lone program `Whole` says more: from the SELECT to the INSERT nothing
  else moves pool or chain, so that what was read is still the whole pool and a youngest block.
- *Bundles*. A lone program's SELECT on the pool cannot fail, so its draft is of the pool
  (`Pooled`), and the pool grows.
- *Replies*. `Parts` counts what has arrived, what is read and what is to come of a reply:
  together never more than its two parts, so what is complete is complete once.
- *Keys*. `Traced`: whatever lies in the frame of `create_transaction` is either no key or came from a row
  with its public key, since the lookup alone writes keys there; rows stay, and a key that was
  erased signs nothing. `Belong`: a row that is about to be stored is whole, and its pair is
  in no row and in no other program's hands. `AllReported`: what was printed is stored, up to the
  address whose INSERT is pending.
- *Owners*. `SignedByOwner` is false (run wallet_signer), because of senders that are not in the wallet.
  `LoneOwnersSign` says that they are the only ones, if no other program ends a lookup early. It needs
  `Signers`: an address that is signed for and not in the wallet was printed and lost, or is nobody's, so
  that no row stored later makes an old signature a wrong one.
- *Machine*. `Bounded` is inductive once every instruction is known to pop no more than it checked
  for (`Counts`). For `OnInstruction`, `Starts` is any set that contains 0 and the place behind each
  of its instructions; every instruction leads from one start to the next or to a byte 0x5b, which by
  hypothesis is a start.
- *Words* (`VMWordProofs`). The arithmetic is proved from the axioms of the naturals up, since the
  provers know neither `^` nor recursive functions: `Induction` and `Recursion` are stated with sets and
  functions in place of predicates, and give the powers of two, division with a rest, and the functions
  `Power`, `Raised` and `low`. Results are compared by `Congruent`, which wrapping respects
  (`WrapCongruent`) and in which two words are equal only if they are the same (`WordsDiffer`). `ComputeTyped`
  and `ComputeFollows` then take the instructions one by one: quotients with their four signs, rests,
  bits (`BitsOfWord`: a word made from bits has these bits), shifts, and powers by squaring (`PowerRaises`;
  `RaisedIsPower` ties the squares of the specification's own `Raised` to repeated multiplication). Of the
  table's uints `UnsignedOf` says that they are the code's numbers where these are not negative, which `Plain`
  asks of the operands and `QuotientPositive` gives of the results.
- *Memory*. `StoredThenLoaded` takes a store at one bit of a byte and a load at another: above the store
  the old byte falls to the division (`QuotientAbove`), below it what is stored falls to the rest (`RestBelow`),
  both proved for all powers of two. `StoredByte` says that the result is a byte.

Assumptions: what the modules' `ASSUME`s say; `Lone` (one program) in the four theorems whose
names begin with it: two programs may fork the chain, fail each other's SELECTs and end each other's lookups.
`SizesAssumption` of `VM` asks that a byte fits
the second `b`, that this is narrower than the word, and that it can count the bits of a word, the items of the
stack and the bits of memory: in the code these are 8, 32 and 64 bits, 1024 items and 32 bytes. And memory
does not lie across the end of the address space.

Only model-checked: liveness, which TLAPS does not reach (`RoundEnds`, `ServerReturns`, `PullConverges`,
`PooledIsMined`, `Finishes`, `OnlyJumpsLoop`). Two theorems are the safety half of such properties:
`WaitingEnds` of `RoundEnds` and `ServerReturns`, `OnlyJumpsGoBack` of `OnlyJumpsLoop`. Every other
property of a passing run is a theorem.

## 5. Not modelled

- The placeholders `validate_transaction`, `validate_block` and `validate_blockchain`: the menu runs them
  on structures nobody filled in, one block taken for an array of 100, so there is no behaviour to
  state. What `validate_blockchain` asks, that each row continues the one before, the chain does not
  keep (section 3).
- Descriptors and shutdown of discovery: error paths leak sockets and statements leak handles, and
  SIGINT sets a flag that a server waiting in `accept()` never sees. Neither touches the state of the
  model, where a process that is ended is a `Crash`.
- The file size that is sent before the file is read: `nodes.db` grows by a page only after hundreds of
  rows. A page that is added in between would not be announced, and the receiver would save a file without it.
- Propagation's message arriving at a discovery server, which would read its first four bytes as a size:
  the two programs use one table, and so one port.
- SQLite, TCP, OpenSSL and liboqs themselves, which are modelled by what the code can observe of
  them; the HTTP exchange of `get_public_ip`, of which only the outcome is kept; printing.
- base58, which is third-party code; the coinbase demonstration, which is in no build target.
