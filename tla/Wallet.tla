-------------------------------- MODULE Wallet --------------------------------
(***************************************************************************)
(* blockchain_cryptocurrency: the keys in wallet.db and the signatures in  *)
(* transactions.db.  generate_address of wallet.c makes key pairs, tests   *)
(* and stores them; create_transaction of transactions.c looks up the keys *)
(* of a sender, signs and puts the transaction into the pool, whatever the *)
(* steps before reported.  Several wallet programs may run in a directory. *)
(*                                                                         *)
(* A key pair is one value, which stands for its private key, its public   *)
(* key and the hash of its public key; keys and addresses are the same     *)
(* value exactly if they belong together.  A signature names the key it    *)
(* was made with and what it covers: sender, recipient and amount.         *)
(***************************************************************************)
EXTENDS Naturals, Sequences, FiniteSets

CONSTANTS
    Procs,     \* the wallet programs that share the DB directory
    Pairs,     \* the key pairs the signature scheme may come up with
    Payments,  \* the recipients and amounts the users may enter
    Overlong,  \* those whose recipient has more than 69 characters
    Batch,     \* the addresses one call generates: 5
    MaxPool,   \* bound on the transactions in the pool when one is entered
    Zero,      \* a key of zero bytes, and the hash of a public key of zero bytes
    NoHash,    \* 48 zero bytes: the address when hashing fails
    Stranger,  \* a sender's address that is no key's
    Unusable,  \* a sender that is empty, or longer than 69 characters
    Garbage    \* a buffer nobody filled in, or one that was erased

Secrets == Pairs \cup {Zero}
Addresses == Pairs \cup {Zero, NoHash}
Senders == Addresses \cup {Stranger, Unusable}
Signature == [by : Secrets, sender : Senders, payment : Payments]

ASSUME WalletAssumption ==
    /\ Payments # {} /\ Overlong \subseteq Payments
    /\ Batch \in Nat \ {0} /\ MaxPool \in Nat
    /\ Zero \notin Pairs
    /\ NoHash \notin Secrets
    /\ Garbage \notin Secrets \cup Signature
    /\ {Stranger, Unusable} \cap Addresses = {}

VARIABLES
    wallet,  \* the rows of wallet.db
    pool,    \* the rows of transactions.db
    made,    \* the key pairs generated so far
    pc,      \* where each program stands
    draft,   \* b_wallet and h_wallet of generate_address
    shown,   \* the addresses this call of generate_address has printed
    entry,   \* new_transaction of create_transaction
    keys,    \* its wallet_keys, which the next call finds on the stack
    sig      \* its new_transaction.signature, likewise

locals == <<draft, shown, entry>>
frame == <<keys, sig>>
vars == <<wallet, pool, made, pc, draft, shown, entry, keys, sig>>

-----------------------------------------------------------------------------
KeyRow == [address : Addresses, private : Secrets, public : Secrets]
Entry == [sender : Senders, payment : Payments]
PoolRow == [sender : Senders, payment : Payments, sig : Signature \cup {Garbage}]
KeyTexts == [private : Secrets \cup {Garbage}, public : Secrets \cup {Garbage}]

NoDraft == [address |-> Zero, private |-> Zero, public |-> Zero]
NoEntry == [sender |-> Unusable, payment |-> CHOOSE y \in Payments : TRUE]
NoKeys == [private |-> Garbage, public |-> Garbage]

States == {"menu", "create", "generate", "store", "test", "open", "lookup", "sign", "insert"}

TypeOK ==
    /\ wallet \in SUBSET KeyRow
    /\ pool \in SUBSET PoolRow
    /\ made \in SUBSET Pairs
    /\ pc \in [Procs -> States]
    /\ draft \in [Procs -> KeyRow]
    /\ shown \in [Procs -> Seq(Addresses)]
    /\ \A p \in Procs : Len(shown[p]) <= Batch
    /\ entry \in [Procs -> Entry]
    /\ keys \in [Procs -> KeyTexts]
    /\ sig \in [Procs -> Signature \cup {Garbage}]

Init ==
    /\ wallet = {} /\ pool = {} /\ made = {}
    /\ pc = [p \in Procs |-> "menu"]
    /\ draft = [p \in Procs |-> NoDraft]
    /\ shown = [p \in Procs |-> <<>>]
    /\ entry = [p \in Procs |-> NoEntry]
    /\ keys = [p \in Procs |-> NoKeys]
    /\ sig = [p \in Procs |-> Garbage]

Step(p, from, to) ==
    /\ pc[p] = from
    /\ pc' = [pc EXCEPT ![p] = to]

\* The function returns: its variables are gone, its stack frame is not.
Forget(p) ==
    /\ draft' = [draft EXCEPT ![p] = NoDraft]
    /\ shown' = [shown EXCEPT ![p] = <<>>]
    /\ entry' = [entry EXCEPT ![p] = NoEntry]

Leave(p, from) ==
    /\ Step(p, from, "menu")
    /\ Forget(p)
    /\ UNCHANGED frame

\* SQLITE_BUSY: another program is at one of these statements on the same file.
WritesWallet == {"create", "store"}
UsesWallet == WritesWallet \cup {"test", "lookup"}
UsesPool == {"open", "insert"}
Contended(p, states) == \E q \in Procs \ {p} : pc[q] \in states

-----------------------------------------------------------------------------
(***************************************************************************)
(* generate_address                                                        *)
(***************************************************************************)
ChooseGenerate(p) ==
    /\ Step(p, "menu", "create")
    /\ UNCHANGED <<wallet, pool, made, locals, frame>>

CreateTable(p) ==
    /\ Step(p, "create", "generate")
    /\ UNCHANGED <<wallet, pool, made, locals, frame>>

CreateFails(p) ==
    /\ Contended(p, UsesWallet)
    /\ Leave(p, "create")
    /\ UNCHANGED <<wallet, pool, made>>

\* generate_key_pair zeroes the keys first, and zero they stay if it fails; a pair
\* that was generated is new.
KeyPairs == (Pairs \ made) \cup {Zero}

\* What generate_new_address makes of a public key.
Hashes(k) == {k, NoHash}

\* What validate_key_pair leaves of a private key: a pair that fails the test loses
\* it, a pair of zero keys always does, and only a message says so.
Validated(k) == {k, Zero}

\* Fault: the address is made before the key pair, of the last public key.
GenerateHashFirst(p) ==
    /\ Step(p, "generate", "store")
    /\ \E k \in KeyPairs : \E a \in Hashes(draft[p].public), s \in Validated(k) :
        /\ made' = made \cup ({k} \ {Zero})
        /\ draft' = [draft EXCEPT ![p] = [address |-> a, private |-> s, public |-> k]]
        /\ shown' = [shown EXCEPT ![p] = Append(@, a)]
    /\ UNCHANGED <<wallet, pool, entry, frame>>

\* One turn of the loop, up to its INSERT; the keys and the address are printed.
Generate(p) ==
    /\ Step(p, "generate", "store")
    /\ \E k \in KeyPairs : \E a \in Hashes(k), s \in Validated(k) :
        /\ made' = made \cup ({k} \ {Zero})
        /\ draft' = [draft EXCEPT ![p] = [address |-> a, private |-> s, public |-> k]]
        /\ shown' = [shown EXCEPT ![p] = Append(@, a)]
    /\ UNCHANGED <<wallet, pool, entry, frame>>

Stored(a) == \E w \in wallet : w.address = a

\* Fault: the loop runs once more (i <= 5).
AfterStoringOneMore(p) == IF Len(shown[p]) <= Batch THEN "generate" ELSE "test"

AfterStoring(p) == IF Len(shown[p]) < Batch THEN "generate" ELSE "test"

\* Fault: the row is written with INSERT OR REPLACE.
StoreReplaces(p) ==
    /\ Step(p, "store", AfterStoring(p))
    /\ wallet' = {w \in wallet : w.address # draft[p].address} \cup {draft[p]}
    /\ UNCHANGED <<pool, made, locals, frame>>

\* The address is the primary key.
Store(p) ==
    /\ ~Stored(draft[p].address)
    /\ Step(p, "store", AfterStoring(p))
    /\ wallet' = wallet \cup {draft[p]}
    /\ UNCHANGED <<pool, made, locals, frame>>

\* Fault: the loop goes on after an INSERT that failed.
StoreFailsGoesOn(p) ==
    /\ Stored(draft[p].address) \/ Contended(p, UsesWallet)
    /\ Step(p, "store", AfterStoring(p))
    /\ UNCHANGED <<wallet, pool, made, locals, frame>>

\* The INSERT fails: generate_address returns, the earlier rows stay.
StoreFails(p) ==
    /\ Stored(draft[p].address) \/ Contended(p, UsesWallet)
    /\ Leave(p, "store")
    /\ UNCHANGED <<wallet, pool, made>>

\* "Successfully stored addresses in the wallet", and test_keys_in_wallet, which
\* erases keys that fail in copies of its own and prints what it finds.
TestKeys(p) ==
    /\ Leave(p, "test")
    /\ UNCHANGED <<wallet, pool, made>>

-----------------------------------------------------------------------------
(***************************************************************************)
(* create_transaction                                                      *)
(***************************************************************************)
ChooseTransaction(p) ==
    /\ Cardinality(pool) < MaxPool
    /\ Step(p, "menu", "open")
    /\ UNCHANGED <<wallet, pool, made, locals, frame>>

\* The addresses a user has seen: in the wallet, or printed before they were stored.
Familiar == made \cup {w.address : w \in wallet}

\* The user's input.  (getchar takes the first character of the recipient's line,
\* and the line's end stays: a payment is what is left of it.)  The frame lies where
\* that of the last call lay; other functions may have written over it since.
EnterTransaction(p) ==
    /\ Step(p, "open", "lookup")
    /\ \E s \in Familiar \cup {Stranger, Unusable}, y \in Payments :
        entry' = [entry EXCEPT ![p] = [sender |-> s, payment |-> y]]
    /\ \E k \in {keys[p], NoKeys} : keys' = [keys EXCEPT ![p] = k]
    /\ \E g \in {sig[p], Garbage} : sig' = [sig EXCEPT ![p] = g]
    /\ UNCHANGED <<wallet, pool, made, draft, shown>>

OpenFails(p) ==
    /\ Contended(p, UsesPool)
    /\ Leave(p, "open")
    /\ UNCHANGED <<wallet, pool, made>>

LookupFinds(p) ==
    /\ Step(p, "lookup", "sign")
    /\ \E w \in wallet :
        /\ w.address = entry[p].sender
        /\ keys' = [keys EXCEPT ![p] = [private |-> w.private, public |-> w.public]]
    /\ UNCHANGED <<wallet, pool, made, locals, sig>>

\* No such row, or a SELECT that ends early because another program writes: "Address
\* does not exist" is printed, and the transaction goes on with the keys in the frame.
LookupMisses(p) ==
    /\ ~Stored(entry[p].sender) \/ Contended(p, WritesWallet)
    /\ Step(p, "lookup", "sign")
    /\ UNCHANGED <<wallet, pool, made, locals, frame>>

\* The SELECT cannot be prepared.
LookupFails(p) ==
    /\ Contended(p, WritesWallet)
    /\ Leave(p, "lookup")
    /\ UNCHANGED <<wallet, pool, made>>

\* The arguments that sign_transaction accepts.
Signable(p) ==
    /\ entry[p].sender # Unusable
    /\ entry[p].payment \notin Overlong
    /\ keys[p].private # Garbage
    /\ keys[p].public # Garbage

\* Its result is ignored; what the frame held stays the signature.
SignRefuses(p) ==
    /\ ~Signable(p)
    /\ Step(p, "sign", "insert")
    /\ UNCHANGED <<wallet, pool, made, locals, frame>>

Signed(p) == [by |-> keys[p].private, sender |-> entry[p].sender, payment |-> entry[p].payment]

\* Fault: the signature is not verified before it is written.
SignUnverified(p) ==
    /\ Signable(p)
    /\ Step(p, "sign", "insert")
    /\ sig' = [sig EXCEPT ![p] = Signed(p)]
    /\ UNCHANGED <<wallet, pool, made, locals, keys>>

Sign(p) ==
    /\ Signable(p)
    /\ keys[p].private = keys[p].public /\ keys[p].private # Zero
    /\ Step(p, "sign", "insert")
    /\ sig' = [sig EXCEPT ![p] = Signed(p)]
    /\ UNCHANGED <<wallet, pool, made, locals, keys>>

\* Signing or verifying fails, always so with an erased key: the key in the frame is
\* erased too, and no signature is written.
SignFails(p) ==
    /\ Signable(p)
    /\ Step(p, "sign", "insert")
    /\ keys' = [keys EXCEPT ![p].private = Garbage]
    /\ UNCHANGED <<wallet, pool, made, locals, sig>>

InsertTransaction(p) ==
    /\ Leave(p, "insert")
    /\ pool' = pool \cup
           {[sender |-> entry[p].sender, payment |-> entry[p].payment, sig |-> sig[p]]}
    /\ UNCHANGED <<wallet, made>>

\* The file is in use, or the text of the user or of a garbled signature breaks the
\* statement: only a message is printed.
InsertFails(p) ==
    /\ Leave(p, "insert")
    /\ UNCHANGED <<wallet, pool, made>>

-----------------------------------------------------------------------------
\* The program ends, at the user's wish or killed anywhere, and is started again.
Restart(p) ==
    /\ pc' = [pc EXCEPT ![p] = "menu"]
    /\ Forget(p)
    /\ keys' = [keys EXCEPT ![p] = NoKeys]
    /\ sig' = [sig EXCEPT ![p] = Garbage]
    /\ UNCHANGED <<wallet, pool, made>>

GenerateAddress(p) ==
    \/ ChooseGenerate(p) \/ CreateTable(p) \/ CreateFails(p)
    \/ Generate(p) \/ Store(p) \/ StoreFails(p) \/ TestKeys(p)

CreateTransaction(p) ==
    \/ ChooseTransaction(p) \/ EnterTransaction(p) \/ OpenFails(p)
    \/ LookupFinds(p) \/ LookupMisses(p) \/ LookupFails(p)
    \/ SignRefuses(p) \/ Sign(p) \/ SignFails(p)
    \/ InsertTransaction(p) \/ InsertFails(p)

Next == \E p \in Procs : GenerateAddress(p) \/ CreateTransaction(p) \/ Restart(p)

Spec == Init /\ [][Next]_vars

-----------------------------------------------------------------------------
(* The columns of a stored row belong together, though its steps may fail  *)
(* one by one and the buffers are used five times (wallet.c, lines         *)
(* 120-167): the private key is the public key's or erased, the address is *)
(* the public key's or was not computed; and no key pair is stored twice.  *)
KeysBelong ==
    /\ \A w \in wallet : w.private \in {w.public, Zero} /\ w.address \in {w.public, NoHash}
    /\ \A v, w \in wallet : v.public = w.public /\ v.public # Zero => v = w

(* When the program says that it stored its addresses, all the addresses   *)
(* it printed are in the wallet, each with keys of its own (wallet.c,      *)
(* lines 173-183).                                                         *)
SaidStored ==
    \A p \in Procs : pc[p] = "test" =>
        /\ Len(shown[p]) = Batch
        /\ \A i \in 1..Batch : Stored(shown[p][i])
        /\ \A i, j \in 1..Batch : shown[p][i] = shown[p][j] => i = j

(* No key is lost or exchanged once it is in the wallet: neither by an     *)
(* address that comes up twice, nor by a program that stops (wallet.c,     *)
(* line 108).                                                              *)
KeysAreKept == [][wallet \subseteq wallet']_wallet

(* Whatever the buffers of create_transaction held before, a signature     *)
(* that reaches the pool was made with a private key that is in the wallet *)
(* unerased, with its public key (transactions.c, lines 148-195).          *)
SignaturesFromWallet ==
    \A r \in pool : r.sig # Garbage =>
        \E w \in wallet : w.private = r.sig.by /\ w.public = r.sig.by /\ r.sig.by # Zero

(* A signature that fits its transaction was made with the keys of the     *)
(* sender, "something only the owner of the address can do"                *)
(* (verifications.c, lines 156-157).                                       *)
Fits(r) == r.sig # Garbage /\ r.sig.sender = r.sender /\ r.sig.payment = r.payment

SignedByOwner ==
    \A r \in pool : Fits(r) =>
        \E w \in wallet : w.address = r.sender /\ w.public = r.sig.by
=============================================================================
