----------------------------- MODULE WalletProofs -----------------------------
(***************************************************************************)
(* What holds of wallet.db and of the signatures in transactions.db for    *)
(* any number of wallet programs, and however their steps fail.            *)
(***************************************************************************)
EXTENDS Wallet, SequenceTheorems, TLAPS

(* The records a program begins with are of their types.                   *)
LEMMA Defaults == NoDraft \in KeyRow /\ NoEntry \in Entry /\ NoKeys \in KeyTexts
  BY WalletAssumption
     DEF NoDraft, NoEntry, NoKeys, KeyRow, Entry, KeyTexts, Addresses, Secrets, Senders

(* Leaving a function keeps the types, and so does every other step of one *)
(* program from a state to a state.                                        *)
LEMMA LeaveTypes ==
  ASSUME TypeOK, NEW p \in Procs, Forget(p)
  PROVE  /\ draft' \in [Procs -> KeyRow] /\ entry' \in [Procs -> Entry]
         /\ shown' \in [Procs -> Seq(Addresses)]
         /\ \A q \in Procs : Len(shown'[q]) <= Batch
<1>1. <<>> \in Seq(Addresses) /\ Len(<<>>) = 0
  OBVIOUS
<1>2. shown' \in [Procs -> Seq(Addresses)]
  BY <1>1 DEF Forget, TypeOK
<1>3. \A q \in Procs : Len(shown'[q]) <= Batch
  BY <1>1, WalletAssumption DEF Forget, TypeOK
<1>. QED
  BY <1>2, <1>3, Defaults DEF Forget, TypeOK

LEMMA StepTypes ==
  ASSUME TypeOK, NEW p \in Procs, NEW s, NEW t \in States, Step(p, s, t)
  PROVE  pc' \in [Procs -> States]
BY DEF TypeOK, Step

(* The loop of generate_address: nothing is printed before it, there is    *)
(* room for one address more at its head, and it ends with all of them.    *)
Room(p) ==
    /\ pc[p] \notin {"generate", "store", "test"} => shown[p] = <<>>
    /\ pc[p] = "generate" => Len(shown[p]) < Batch
    /\ pc[p] = "store" => Len(shown[p]) >= 1
    /\ pc[p] = "test" => Len(shown[p]) = Batch

Typed == TypeOK /\ \A p \in Procs : Room(p)

LEMMA TypedLeave ==
  ASSUME Typed, NEW p \in Procs, Forget(p), pc' = [pc EXCEPT ![p] = "menu"],
         wallet' \in SUBSET KeyRow, pool' \in SUBSET PoolRow, made' \in SUBSET Pairs,
         keys' \in [Procs -> KeyTexts], sig' \in [Procs -> Signature \cup {Garbage}]
  PROVE  Typed'
<1>1. TypeOK'
  BY LeaveTypes DEF Typed, TypeOK, States
<1>2. \A q \in Procs : Room(q)'
  BY DEF Typed, TypeOK, Room, Forget
<1>. QED
  BY <1>1, <1>2 DEF Typed

LEMMA TypedGo ==
  ASSUME Typed, NEW p \in Procs, NEW s \in States, NEW t \in States, Step(p, s, t),
         UNCHANGED <<shown>>, draft' = draft,
         s \notin {"generate", "store", "test"}, t \notin {"store", "test"},
         wallet' \in SUBSET KeyRow, pool' \in SUBSET PoolRow, made' \in SUBSET Pairs,
         entry' \in [Procs -> Entry],
         keys' \in [Procs -> KeyTexts], sig' \in [Procs -> Signature \cup {Garbage}]
  PROVE  Typed'
<1>1. TypeOK'
  BY StepTypes DEF Typed, TypeOK
<1>2. Len(<<>>) < Batch
  BY WalletAssumption
<1>3. ASSUME NEW q \in Procs PROVE Room(q)'
  BY <1>2 DEF Typed, TypeOK, Room, Step
<1>. QED
  BY <1>1, <1>3 DEF Typed

(* generate_address keeps the types and stays within its loop.             *)
LEMMA TypedGenerate ==
  ASSUME Typed, NEW p \in Procs, GenerateAddress(p)
  PROVE  Typed'
<1>1. CASE ChooseGenerate(p) \/ CreateTable(p)
  BY <1>1, TypedGo DEF ChooseGenerate, CreateTable, Typed, TypeOK, States, locals, frame
<1>2. CASE CreateFails(p) \/ StoreFails(p) \/ TestKeys(p)
  BY <1>2, TypedLeave
     DEF CreateFails, StoreFails, TestKeys, Leave, Step, Typed, TypeOK, frame
<1>3. CASE Generate(p)
  <2>1. PICK k \in KeyPairs : \E a \in Hashes(k), s \in Validated(k) :
               /\ made' = made \cup ({k} \ {Zero})
               /\ draft' = [draft EXCEPT ![p] = [address |-> a, private |-> s, public |-> k]]
               /\ shown' = [shown EXCEPT ![p] = Append(@, a)]
    BY <1>3 DEF Generate
  <2>2. PICK a \in Hashes(k), s \in Validated(k) :
               /\ made' = made \cup ({k} \ {Zero})
               /\ draft' = [draft EXCEPT ![p] = [address |-> a, private |-> s, public |-> k]]
               /\ shown' = [shown EXCEPT ![p] = Append(@, a)]
    BY <2>1
  <2>3. k \in Secrets /\ s \in Secrets /\ a \in Addresses /\ made' \in SUBSET Pairs
    BY <2>2 DEF KeyPairs, Hashes, Validated, Secrets, Addresses, Typed, TypeOK
  <2>4. draft' \in [Procs -> KeyRow]
    BY <2>2, <2>3 DEF Typed, TypeOK, KeyRow
  <2>5. /\ pc[p] = "generate" /\ pc' = [pc EXCEPT ![p] = "store"]
        /\ UNCHANGED <<wallet, pool, entry, keys, sig>>
    BY <1>3 DEF Generate, Step, frame
  <2>6. /\ shown[p] \in Seq(Addresses) /\ Len(shown[p]) < Batch
        /\ \A q \in Procs : shown[q] \in Seq(Addresses) /\ Len(shown[q]) \in Nat
        /\ Batch \in Nat
    BY <2>5, WalletAssumption, LenProperties DEF Typed, TypeOK, Room
  <2>7. /\ Append(shown[p], a) \in Seq(Addresses)
        /\ Len(Append(shown[p], a)) = Len(shown[p]) + 1
    BY <2>3, <2>6
  <2>8. shown' \in [Procs -> Seq(Addresses)] /\ \A q \in Procs : Len(shown'[q]) <= Batch
    BY <2>2, <2>6, <2>7 DEF Typed, TypeOK
  <2>9. ASSUME NEW q \in Procs PROVE Room(q)'
    BY <2>2, <2>5, <2>6, <2>7 DEF Typed, TypeOK, Room
  <2>. QED
    BY <2>3, <2>4, <2>5, <2>8, <2>9 DEF Typed, TypeOK, States
<1>4. CASE Store(p)
  <2>1. /\ pc[p] = "store" /\ pc' = [pc EXCEPT ![p] = AfterStoring(p)]
        /\ UNCHANGED <<pool, made, draft, shown, entry, keys, sig>>
        /\ wallet' = wallet \cup {draft[p]}
    BY <1>4 DEF Store, Step, locals, frame
  <2>2. /\ AfterStoring(p) \in {"generate", "test"}
        /\ AfterStoring(p) = "generate" => Len(shown[p]) < Batch
        /\ AfterStoring(p) = "test" => Len(shown[p]) = Batch
    BY WalletAssumption, LenProperties DEF AfterStoring, Typed, TypeOK
  <2>3. ASSUME NEW q \in Procs PROVE Room(q)'
    BY <2>1, <2>2 DEF Typed, TypeOK, Room
  <2>. QED
    BY <2>1, <2>2, <2>3 DEF Typed, TypeOK, States
<1>. QED
  BY <1>1, <1>2, <1>3, <1>4 DEF GenerateAddress

(* create_transaction keeps the types.                                     *)
LEMMA TypedTransaction ==
  ASSUME Typed, NEW p \in Procs, CreateTransaction(p)
  PROVE  Typed'
<1>1. CASE ChooseTransaction(p) \/ LookupMisses(p) \/ SignRefuses(p)
  BY <1>1, TypedGo
     DEF ChooseTransaction, LookupMisses, SignRefuses, Typed, TypeOK, States, locals, frame
<1>2. CASE EnterTransaction(p)
  <2>1. Familiar \subseteq Addresses
    BY DEF Familiar, Typed, TypeOK, KeyRow, Addresses
  <2>2. entry' \in [Procs -> Entry]
    BY <1>2, <2>1 DEF EnterTransaction, Entry, Senders, Typed, TypeOK
  <2>3. keys' \in [Procs -> KeyTexts] /\ sig' \in [Procs -> Signature \cup {Garbage}]
    BY <1>2, Defaults DEF EnterTransaction, Typed, TypeOK
  <2>. QED
    BY <1>2, <2>2, <2>3, TypedGo DEF EnterTransaction, Typed, TypeOK, States
<1>3. CASE LookupFinds(p)
  <2>1. keys' \in [Procs -> KeyTexts]
    BY <1>3 DEF LookupFinds, KeyTexts, KeyRow, Typed, TypeOK
  <2>. QED
    BY <1>3, <2>1, TypedGo DEF LookupFinds, Typed, TypeOK, States, locals
<1>4. CASE Sign(p)
  <2>1. Signed(p) \in Signature
    BY <1>4 DEF Sign, Signed, Signable, Signature, KeyTexts, Entry, Typed, TypeOK
  <2>. QED
    BY <1>4, <2>1, TypedGo DEF Sign, Typed, TypeOK, States, locals
<1>5. CASE SignFails(p)
  <2>1. keys' \in [Procs -> KeyTexts]
    BY <1>5 DEF SignFails, KeyTexts, Typed, TypeOK
  <2>. QED
    BY <1>5, <2>1, TypedGo DEF SignFails, Typed, TypeOK, States, locals
<1>6. CASE OpenFails(p) \/ LookupFails(p) \/ InsertFails(p)
  BY <1>6, TypedLeave
     DEF OpenFails, LookupFails, InsertFails, Leave, Step, Typed, TypeOK, frame
<1>7. CASE InsertTransaction(p)
  <2>1. pool' \in SUBSET PoolRow
    BY <1>7 DEF InsertTransaction, PoolRow, Entry, Typed, TypeOK
  <2>. QED
    BY <1>7, <2>1, TypedLeave DEF InsertTransaction, Leave, Step, Typed, TypeOK, frame
<1>. QED
  BY <1>1, <1>2, <1>3, <1>4, <1>5, <1>6, <1>7 DEF CreateTransaction

LEMMA TypedStep == Typed /\ [Next]_vars => Typed'
<1> SUFFICES ASSUME Typed, [Next]_vars PROVE Typed'
  OBVIOUS
<1>1. ASSUME NEW p \in Procs, Restart(p) PROVE Typed'
  BY <1>1, TypedLeave, Defaults DEF Restart, Typed, TypeOK
<1>2. CASE UNCHANGED vars
  BY <1>2 DEF vars, Typed, TypeOK, Room
<1>. QED
  BY <1>1, <1>2, TypedGenerate, TypedTransaction DEF Next

LEMMA TypedInit == Init => Typed
<1> SUFFICES ASSUME Init PROVE Typed
  OBVIOUS
<1>1. <<>> \in Seq(Addresses) /\ Len(<<>>) = 0
  OBVIOUS
<1>. QED
  BY <1>1, Defaults, WalletAssumption DEF Init, Typed, TypeOK, Room, States

(* Every buffer, row and position has the type the code gives it, and a    *)
(* call never makes more addresses than it has turns.                      *)
THEOREM TypeCorrect == Spec => []TypeOK
<1>1. Typed => TypeOK
  BY DEF Typed
<1>. QED
  BY <1>1, TypedInit, TypedStep, PTL DEF Spec

-----------------------------------------------------------------------------
(* Rows are only ever added to the wallet, by one statement.               *)
LEMMA WalletGrows ==
  [Next]_vars =>
    \/ UNCHANGED wallet
    \/ \E p \in Procs : Store(p)
<1> SUFFICES ASSUME [Next]_vars PROVE UNCHANGED wallet \/ \E p \in Procs : Store(p)
  OBVIOUS
<1>1. ASSUME NEW p \in Procs, GenerateAddress(p) PROVE UNCHANGED wallet \/ Store(p)
  BY <1>1 DEF GenerateAddress, ChooseGenerate, CreateTable, CreateFails, Generate,
              StoreFails, TestKeys
<1>2. ASSUME NEW p \in Procs, CreateTransaction(p) PROVE UNCHANGED wallet
  BY <1>2 DEF CreateTransaction, ChooseTransaction, EnterTransaction, OpenFails, LookupFinds,
              LookupMisses, LookupFails, SignRefuses, Sign, SignFails, InsertTransaction,
              InsertFails
<1>3. ASSUME NEW p \in Procs, Restart(p) PROVE UNCHANGED wallet
  BY <1>3 DEF Restart
<1>. QED
  BY <1>1, <1>2, <1>3 DEF Next, vars

LEMMA WalletKeepsRows == [Next]_vars => wallet \subseteq wallet'
  BY WalletGrows DEF Store

(* No row of the wallet is ever removed or replaced.                       *)
THEOREM StoredKeysStay == Spec => KeysAreKept
<1>1. [Next]_vars => [wallet \subseteq wallet']_wallet
  BY WalletKeepsRows
<1>. QED
  BY <1>1, PTL DEF Spec, KeysAreKept

(* A key that can sign, and why a key in a stack frame is one: whatever    *)
(* its program did before, the private key there is erased or came from a  *)
(* row of the wallet with its public key, and the signature was made with  *)
(* such a key.                                                             *)
Sound(k) == \E w \in wallet : w.private = k /\ w.public = k /\ k # Zero

FrameTraced(p) ==
    /\ keys[p].private # Garbage =>
          \E w \in wallet : keys[p].private = w.private /\ keys[p].public = w.public
    /\ sig[p] # Garbage => Sound(sig[p].by)

Traced == (\A p \in Procs : FrameTraced(p)) /\ \A r \in pool : r.sig # Garbage => Sound(r.sig.by)

LEMMA TracedStep == TypeOK /\ Traced /\ [Next]_vars => Traced'
<1> SUFFICES ASSUME TypeOK, Traced, [Next]_vars PROVE Traced'
  OBVIOUS
<1>0. wallet \subseteq wallet'
  BY WalletKeepsRows
<1>1. \A k : Sound(k) => Sound(k)'
  BY <1>0 DEF Sound
<1>2. ASSUME NEW p \in Procs, keys'[p] = keys[p], sig'[p] = sig[p] PROVE FrameTraced(p)'
  BY <1>0, <1>1, <1>2 DEF Traced, FrameTraced
<1>3. ASSUME pool' = pool PROVE \A r \in pool' : r.sig # Garbage => Sound(r.sig.by)'
  BY <1>1, <1>3 DEF Traced
<1>4. ASSUME NEW p \in Procs, \A q \in Procs \ {p} : keys'[q] = keys[q] /\ sig'[q] = sig[q],
             FrameTraced(p)', pool' = pool
      PROVE  Traced'
  BY <1>2, <1>3, <1>4 DEF Traced
<1>5. ASSUME UNCHANGED <<keys, sig, pool>> PROVE Traced'
  BY <1>2, <1>3, <1>5 DEF Traced
<1>6. ASSUME NEW p \in Procs, GenerateAddress(p) PROVE Traced'
  BY <1>5, <1>6 DEF GenerateAddress, ChooseGenerate, CreateTable, CreateFails, Generate, Store,
                    StoreFails, TestKeys, Leave, locals, frame
<1>7. ASSUME NEW p \in Procs, CreateTransaction(p) PROVE Traced'
  <2>1. CASE \/ ChooseTransaction(p) \/ OpenFails(p) \/ LookupMisses(p) \/ LookupFails(p)
             \/ SignRefuses(p) \/ InsertFails(p)
    BY <1>5, <2>1 DEF ChooseTransaction, OpenFails, LookupMisses, LookupFails, SignRefuses,
                      InsertFails, Leave, locals, frame
  <2>2. CASE EnterTransaction(p)
    <3>1. keys'[p] = keys[p] \/ keys'[p] = NoKeys
      BY <2>2 DEF EnterTransaction, TypeOK
    <3>2. sig'[p] = sig[p] \/ sig'[p] = Garbage
      BY <2>2 DEF EnterTransaction, TypeOK
    <3>3. NoKeys.private = Garbage
      BY DEF NoKeys
    <3>4. FrameTraced(p)'
      BY <3>1, <3>2, <3>3, <1>0, <1>1 DEF Traced, FrameTraced
    <3>. QED
      BY <2>2, <3>4, <1>4 DEF EnterTransaction, TypeOK
  <2>3. CASE LookupFinds(p)
    <3>1. FrameTraced(p)'
      BY <2>3, <1>0, <1>1 DEF LookupFinds, Traced, FrameTraced, TypeOK
    <3>. QED
      BY <2>3, <3>1, <1>4 DEF LookupFinds, TypeOK, locals
  <2>4. CASE Sign(p)
    <3>1. sig'[p] = Signed(p) /\ keys' = keys
      BY <2>4 DEF Sign, TypeOK
    <3>2. Sound(keys[p].private)
      BY <2>4 DEF Sign, Signable, Traced, FrameTraced, Sound
    <3>3. FrameTraced(p)'
      BY <3>1, <3>2, <1>0, <1>1 DEF Traced, FrameTraced, Signed
    <3>. QED
      BY <2>4, <3>3, <1>4 DEF Sign, TypeOK, locals
  <2>5. CASE SignFails(p)
    <3>1. keys'[p].private = Garbage /\ sig' = sig
      BY <2>5 DEF SignFails, TypeOK, KeyTexts
    <3>2. FrameTraced(p)'
      BY <3>1, <1>1 DEF Traced, FrameTraced
    <3>. QED
      BY <2>5, <3>2, <1>4 DEF SignFails, TypeOK, locals
  <2>6. CASE InsertTransaction(p)
    <3>1. \A r \in pool' : r.sig # Garbage => Sound(r.sig.by)'
      BY <2>6, <1>1 DEF InsertTransaction, Traced, FrameTraced
    <3>. QED
      BY <2>6, <3>1, <1>2 DEF InsertTransaction, Leave, frame, Traced
  <2>. QED
    BY <1>7, <2>1, <2>2, <2>3, <2>4, <2>5, <2>6 DEF CreateTransaction
<1>8. ASSUME NEW p \in Procs, Restart(p) PROVE Traced'
  <2>1. FrameTraced(p)'
    BY <1>8 DEF Restart, FrameTraced, NoKeys, TypeOK
  <2>. QED
    BY <1>4, <1>8, <2>1 DEF Restart, TypeOK
<1>9. CASE UNCHANGED vars
  BY <1>5, <1>9 DEF vars
<1>. QED
  BY <1>6, <1>7, <1>8, <1>9 DEF Next

(* A signature that reaches the pool was made with a sound key pair of the *)
(* wallet, whatever the buffers held, whichever calls failed and whatever  *)
(* the other programs did.                                                 *)
THEOREM SignaturesAreTraced == Spec => []SignaturesFromWallet
<1>1. Init => Traced
  BY DEF Init, Traced, FrameTraced, NoKeys
<1>2. Traced => SignaturesFromWallet
  BY DEF Traced, Sound, SignaturesFromWallet
<1>. QED
  BY <1>1, <1>2, TracedStep, TypeCorrect, PTL DEF Spec

-----------------------------------------------------------------------------
(* A row on its way to the wallet is as a stored row must be, and its key  *)
(* pair is new: neither in the wallet nor in the hands of another program. *)
Whole(row) == row.private \in {row.public, Zero} /\ row.address \in {row.public, NoHash}

DraftBelongs(p) ==
    /\ Whole(draft[p])
    /\ draft[p].public # Zero =>
          /\ draft[p].public \in made
          /\ \A w \in wallet : w.public # draft[p].public
          /\ \A q \in Procs \ {p} : pc[q] = "store" => draft[q].public # draft[p].public

Belong ==
    /\ KeysBelong
    /\ \A w \in wallet : w.public \in made \cup {Zero}
    /\ \A p \in Procs : pc[p] = "store" => DraftBelongs(p)

LEMMA BelongStep == TypeOK /\ Belong /\ [Next]_vars => Belong'
<1> SUFFICES ASSUME TypeOK, Belong, [Next]_vars PROVE Belong'
  OBVIOUS
<1>1. ASSUME NEW p \in Procs, wallet' = wallet, made' = made,
             \A q \in Procs \ {p} : pc'[q] = pc[q], pc'[p] # "store",
             \A q \in Procs \ {p} : draft'[q] = draft[q]
      PROVE  Belong'
  <2>1. \A q \in Procs : pc'[q] = "store" => pc[q] = "store" /\ q # p /\ draft'[q] = draft[q]
    BY <1>1
  <2>2. ASSUME NEW q \in Procs, pc'[q] = "store" PROVE DraftBelongs(q)'
    BY <1>1, <2>1, <2>2 DEF Belong, DraftBelongs, Whole
  <2>. QED
    BY <1>1, <2>2 DEF Belong, KeysBelong
<1>2. ASSUME UNCHANGED <<wallet, made, pc, draft>> PROVE Belong'
  BY <1>2 DEF Belong, KeysBelong, DraftBelongs, Whole
<1>3. ASSUME NEW p \in Procs, NEW s \in States, NEW t \in States \ {"store"}, Step(p, s, t),
             UNCHANGED <<wallet, made>>, draft' = draft \/ Forget(p)
      PROVE  Belong'
  BY <1>1, <1>3 DEF Step, Forget, TypeOK
<1>4. ASSUME NEW p \in Procs, Generate(p) PROVE Belong'
  <2>1. PICK k \in KeyPairs : \E a \in Hashes(k), s \in Validated(k) :
               /\ made' = made \cup ({k} \ {Zero})
               /\ draft' = [draft EXCEPT ![p] = [address |-> a, private |-> s, public |-> k]]
    BY <1>4 DEF Generate
  <2>2. PICK a \in Hashes(k), s \in Validated(k) :
               /\ made' = made \cup ({k} \ {Zero})
               /\ draft' = [draft EXCEPT ![p] = [address |-> a, private |-> s, public |-> k]]
    BY <2>1
  <2>3. /\ pc[p] = "generate" /\ pc' = [pc EXCEPT ![p] = "store"] /\ wallet' = wallet
        /\ draft'[p] = [address |-> a, private |-> s, public |-> k]
        /\ \A q \in Procs \ {p} : pc'[q] = pc[q] /\ draft'[q] = draft[q]
    BY <1>4, <2>2 DEF Generate, Step, TypeOK
  <2>4. Whole(draft'[p])
    BY <2>3 DEF Whole, Hashes, Validated
  <2>5. k # Zero => k \notin made /\ k \in made'
    BY <2>2 DEF KeyPairs
  <2>6. \A q \in Procs \ {p} : pc[q] = "store" => draft[q].public \in made \cup {Zero}
    BY DEF Belong, DraftBelongs
  <2>7. DraftBelongs(p)'
    BY <2>3, <2>4, <2>5, <2>6 DEF DraftBelongs, Belong, Whole
  <2>8. ASSUME NEW q \in Procs \ {p}, pc'[q] = "store" PROVE DraftBelongs(q)'
    <3>1. DraftBelongs(q) /\ pc[q] = "store"
      BY <2>3, <2>8 DEF Belong
    <3>2. made \subseteq made' /\ (draft[q].public # Zero => draft[q].public # k)
      BY <2>2, <2>5, <3>1 DEF DraftBelongs
    <3>. QED
      BY <2>3, <3>1, <3>2 DEF DraftBelongs, Whole
  <2>. QED
    BY <2>2, <2>3, <2>7, <2>8 DEF Belong, KeysBelong
<1>5. ASSUME NEW p \in Procs, Store(p) PROVE Belong'
  <2>1. /\ pc[p] = "store" /\ pc' = [pc EXCEPT ![p] = AfterStoring(p)]
        /\ wallet' = wallet \cup {draft[p]} /\ UNCHANGED <<made, draft>>
        /\ AfterStoring(p) # "store"
    BY <1>5 DEF Store, Step, AfterStoring, locals
  <2>2. DraftBelongs(p)
    BY <2>1 DEF Belong
  <2>3. ASSUME NEW q \in Procs, pc'[q] = "store" PROVE DraftBelongs(q)'
    <3>1. q # p /\ pc[q] = "store" /\ DraftBelongs(q)
      BY <2>1, <2>3 DEF TypeOK, Belong
    <3>2. draft[q].public # Zero => draft[q].public # draft[p].public
      BY <2>1, <3>1 DEF DraftBelongs
    <3>3. \A r \in Procs : pc'[r] = "store" => pc[r] = "store"
      BY <2>1 DEF TypeOK
    <3>. QED
      BY <2>1, <3>1, <3>2, <3>3 DEF DraftBelongs, Whole
  <2>4. KeysBelong'
    BY <2>1, <2>2 DEF Belong, KeysBelong, DraftBelongs, Whole
  <2>5. \A w \in wallet' : w.public \in made' \cup {Zero}
    BY <2>1, <2>2 DEF Belong, DraftBelongs
  <2>. QED
    BY <2>3, <2>4, <2>5 DEF Belong
<1>6. ASSUME NEW p \in Procs, GenerateAddress(p) PROVE Belong'
  <2>1. CASE ChooseGenerate(p) \/ CreateTable(p)
    BY <1>3, <2>1 DEF ChooseGenerate, CreateTable, States, locals
  <2>2. CASE CreateFails(p) \/ StoreFails(p) \/ TestKeys(p)
    BY <1>3, <2>2 DEF CreateFails, StoreFails, TestKeys, Leave, States
  <2>. QED
    BY <1>4, <1>5, <1>6, <2>1, <2>2 DEF GenerateAddress
<1>7. ASSUME NEW p \in Procs, CreateTransaction(p) PROVE Belong'
  <2>1. CASE ChooseTransaction(p) \/ EnterTransaction(p) \/ LookupFinds(p) \/ LookupMisses(p)
    BY <1>3, <2>1
       DEF ChooseTransaction, EnterTransaction, LookupFinds, LookupMisses, States, locals
  <2>2. CASE OpenFails(p) \/ LookupFails(p) \/ InsertFails(p) \/ InsertTransaction(p)
    BY <1>3, <2>2 DEF OpenFails, LookupFails, InsertFails, InsertTransaction, Leave, States
  <2>3. CASE SignRefuses(p) \/ Sign(p) \/ SignFails(p)
    BY <1>3, <2>3 DEF SignRefuses, Sign, SignFails, States, locals
  <2>. QED
    BY <1>7, <2>1, <2>2, <2>3 DEF CreateTransaction
<1>8. ASSUME NEW p \in Procs, Restart(p) PROVE Belong'
  BY <1>1, <1>8 DEF Restart, Forget, TypeOK
<1>. QED
  BY <1>2, <1>6, <1>7, <1>8 DEF Next, vars

(* The columns of every stored row belong together and no key pair is      *)
(* stored twice, for any number of programs that generate addresses at     *)
(* once and whichever of their steps fail.                                 *)
THEOREM StoredKeysBelong == Spec => []KeysBelong
<1>1. Init => Belong
  BY DEF Init, Belong, KeysBelong
<1>2. Belong => KeysBelong
  BY DEF Belong
<1>. QED
  BY <1>1, <1>2, BelongStep, TypeCorrect, PTL DEF Spec

-----------------------------------------------------------------------------
(* All that was printed is stored, up to the address whose INSERT is       *)
(* pending; and since an address is stored once, no two are the same.      *)
Done(p) == IF pc[p] = "store" THEN Len(shown[p]) - 1 ELSE Len(shown[p])

Reported(p) ==
    /\ \A i \in 1..Done(p) : Stored(shown[p][i])
    /\ \A i, j \in 1..Done(p) : shown[p][i] = shown[p][j] => i = j
    /\ pc[p] = "store" => shown[p][Len(shown[p])] = draft[p].address

AllReported == \A p \in Procs : Reported(p)

LEMMA ReportedStep == Typed /\ AllReported /\ [Next]_vars => AllReported'
<1> SUFFICES ASSUME Typed, \A p \in Procs : Reported(p), [Next]_vars
             PROVE  \A p \in Procs : Reported(p)'
  BY DEF AllReported
<1>0. \A a : Stored(a) => Stored(a)'
  BY WalletKeepsRows DEF Stored
<1>1. ASSUME NEW q \in Procs, shown'[q] = shown[q], draft'[q] = draft[q], pc'[q] = pc[q]
      PROVE  Reported(q)'
  BY <1>0, <1>1 DEF Reported, Done
<1>2. ASSUME NEW q \in Procs, shown'[q] = <<>>, pc'[q] # "store" PROVE Reported(q)'
  <2>1. 1..Done(q)' = {}
    BY <1>2 DEF Done
  <2>. QED
    BY <1>2, <2>1 DEF Reported
<1>3. ASSUME NEW p \in Procs, Forget(p), pc' = [pc EXCEPT ![p] = "menu"]
      PROVE  \A q \in Procs : Reported(q)'
  BY <1>1, <1>2, <1>3 DEF Forget, Typed, TypeOK
<1>4. ASSUME NEW p \in Procs, NEW s, NEW t, Step(p, s, t), UNCHANGED <<shown, draft>>,
             s \notin {"generate", "store", "test"}, t # "store"
      PROVE  \A q \in Procs : Reported(q)'
  BY <1>1, <1>2, <1>4 DEF Step, Typed, TypeOK, Room
<1>5. ASSUME NEW p \in Procs, Generate(p) PROVE \A q \in Procs : Reported(q)'
  <2>1. PICK k \in KeyPairs : \E a \in Hashes(k), s \in Validated(k) :
               /\ draft' = [draft EXCEPT ![p] = [address |-> a, private |-> s, public |-> k]]
               /\ shown' = [shown EXCEPT ![p] = Append(@, a)]
    BY <1>5 DEF Generate
  <2>2. PICK a \in Hashes(k), s \in Validated(k) :
               /\ draft' = [draft EXCEPT ![p] = [address |-> a, private |-> s, public |-> k]]
               /\ shown' = [shown EXCEPT ![p] = Append(@, a)]
    BY <2>1
  <2>3. /\ pc[p] = "generate" /\ pc'[p] = "store" /\ wallet' = wallet
        /\ draft'[p].address = a
        /\ shown'[p] = Append(shown[p], a)
        /\ \A q \in Procs \ {p} : shown'[q] = shown[q] /\ draft'[q] = draft[q] /\ pc'[q] = pc[q]
    BY <1>5, <2>2 DEF Generate, Step, Typed, TypeOK
  <2>4. shown[p] \in Seq(Addresses) /\ Len(shown[p]) \in Nat
    BY DEF Typed, TypeOK
  <2>5. /\ Len(shown'[p]) = Len(shown[p]) + 1
        /\ shown'[p][Len(shown[p]) + 1] = a
        /\ \A i \in 1..Len(shown[p]) : shown'[p][i] = shown[p][i]
    BY <2>3, <2>4
  <2>6. Done(p) = Len(shown[p]) /\ Done(p)' = Len(shown[p])
    BY <2>3, <2>4, <2>5 DEF Done
  <2>7. Reported(p)'
    BY <2>3, <2>5, <2>6, <1>0 DEF Reported
  <2>. QED
    BY <2>3, <2>7, <1>1
<1>6. ASSUME NEW p \in Procs, Store(p) PROVE \A q \in Procs : Reported(q)'
  <2>1. /\ pc[p] = "store" /\ pc'[p] # "store" /\ UNCHANGED <<draft, shown>>
        /\ wallet' = wallet \cup {draft[p]}
        /\ \A q \in Procs \ {p} : pc'[q] = pc[q]
        /\ ~Stored(draft[p].address)
    BY <1>6 DEF Store, Step, AfterStoring, locals, Typed, TypeOK
  <2>2. Len(shown[p]) \in Nat \ {0}
    BY <2>1 DEF Typed, TypeOK, Room
  <2>3. Done(p) = Len(shown[p]) - 1 /\ Done(p)' = Len(shown[p])
    BY <2>1 DEF Done
  <2>4. shown[p][Len(shown[p])] = draft[p].address
    BY <2>1 DEF Reported
  <2>5. \A i \in 1..Len(shown[p]) : \E w \in wallet' : w.address = shown[p][i]
    <3>1. \A i \in 1..(Len(shown[p]) - 1) : \E w \in wallet : w.address = shown[p][i]
      BY <2>3 DEF Reported, Stored
    <3>. QED
      BY <2>1, <2>2, <2>4, <3>1
  <2>6. \A i, j \in 1..Len(shown[p]) : shown[p][i] = shown[p][j] => i = j
    <3>1. \A i, j \in 1..(Len(shown[p]) - 1) : shown[p][i] = shown[p][j] => i = j
      BY <2>3 DEF Reported
    <3>2. \A i \in 1..(Len(shown[p]) - 1) : shown[p][i] # shown[p][Len(shown[p])]
      BY <2>1, <2>3, <2>4 DEF Reported, Stored
    <3>. QED
      BY <2>2, <3>1, <3>2
  <2>7. Reported(p)'
    BY <2>1, <2>3, <2>5, <2>6 DEF Reported, Stored
  <2>. QED
    BY <2>1, <2>7, <1>1
<1>7. ASSUME NEW p \in Procs, GenerateAddress(p) PROVE \A q \in Procs : Reported(q)'
  <2>1. CASE ChooseGenerate(p) \/ CreateTable(p)
    BY <1>4, <2>1 DEF ChooseGenerate, CreateTable, locals
  <2>2. CASE CreateFails(p) \/ StoreFails(p) \/ TestKeys(p)
    BY <1>3, <2>2 DEF CreateFails, StoreFails, TestKeys, Leave, Step
  <2>. QED
    BY <1>5, <1>6, <1>7, <2>1, <2>2 DEF GenerateAddress
<1>8. ASSUME NEW p \in Procs, CreateTransaction(p) PROVE \A q \in Procs : Reported(q)'
  <2>1. CASE ChooseTransaction(p) \/ EnterTransaction(p) \/ LookupFinds(p) \/ LookupMisses(p)
    BY <1>4, <2>1
       DEF ChooseTransaction, EnterTransaction, LookupFinds, LookupMisses, locals
  <2>2. CASE OpenFails(p) \/ LookupFails(p) \/ InsertFails(p) \/ InsertTransaction(p)
    BY <1>3, <2>2 DEF OpenFails, LookupFails, InsertFails, InsertTransaction, Leave, Step
  <2>3. CASE SignRefuses(p) \/ Sign(p) \/ SignFails(p)
    BY <1>4, <2>3 DEF SignRefuses, Sign, SignFails, locals
  <2>. QED
    BY <1>8, <2>1, <2>2, <2>3 DEF CreateTransaction
<1>9. ASSUME NEW p \in Procs, Restart(p) PROVE \A q \in Procs : Reported(q)'
  BY <1>3, <1>9 DEF Restart
<1>10. CASE UNCHANGED vars
  BY <1>1, <1>10 DEF vars
<1>. QED
  BY <1>7, <1>8, <1>9, <1>10 DEF Next

(* A call that reports success has stored every address it printed, each   *)
(* once, whatever other programs do to the wallet meanwhile.               *)
THEOREM ReportedIsStored == Spec => []SaidStored
<1>1. Init => AllReported
  BY DEF Init, AllReported, Reported, Done
<1>2. Typed /\ AllReported => SaidStored
  BY DEF Typed, Room, AllReported, Reported, Done, SaidStored
<1>. QED
  BY <1>1, <1>2, ReportedStep, TypedInit, TypedStep, PTL DEF Spec

-----------------------------------------------------------------------------
(***************************************************************************)
(* The owner's signature.  The code has two ways to a signature that is    *)
(* not the sender's: a lookup that ends early because another program      *)
(* writes, and a sender whose keys are not in the wallet, for whom it      *)
(* signs with what the frame holds.  A lone program has the second only:   *)
(* what it signs for a sender in the wallet it signs with that sender's    *)
(* keys, and no address stored later turns a signature into a wrong one.   *)
(***************************************************************************)
Lone == \A p, q \in Procs : p = q

OwnersSign ==
    \A r \in pool, w \in wallet : Fits(r) /\ w.address = r.sender => r.sig.by = w.public

(* A key that is stored later must not make an earlier signature a wrong   *)
(* one: what was signed for an address not in the wallet was signed for    *)
(* one that was made before, and that is lost, or for one nobody makes.    *)
Written == ({sig[p] : p \in Procs} \cup {r.sig : r \in pool}) \ {Garbage}

Seen(s) == s \in made \/ Stored(s) \/ s \in {Stranger, Unusable}

ByOwner(g) == \A w \in wallet : w.address = g.sender => g.by = w.public

Unique == \A v, w \in wallet : v.address = w.address => v = w

Owned == \A g \in Written : Seen(g.sender) /\ ByOwner(g)

SignerKnown(p) ==
    /\ pc[p] \in {"lookup", "sign"} => Seen(entry[p].sender)
    /\ pc[p] = "sign" =>
          \A w \in wallet : w.address = entry[p].sender =>
              keys[p].private = w.private /\ keys[p].public = w.public
    /\ pc[p] = "store" =>
          \A g \in Written : g.sender = draft[p].address => Stored(draft[p].address)

Signers == Unique /\ Owned /\ \A p \in Procs : SignerKnown(p)

(* As long as nothing is generated, stored or signed, only the program's   *)
(* place has to be looked at.                                              *)
LEMMA NothingSigned ==
  ASSUME Signers, UNCHANGED <<wallet, made>>, Written' \subseteq Written,
         \A p \in Procs : SignerKnown(p)'
  PROVE  Signers'
<1>1. Unique'
  BY DEF Signers, Unique
<1>2. \A s : Seen(s) => Seen(s)'
  BY DEF Seen, Stored
<1>3. Owned'
  BY <1>2 DEF Signers, Owned, ByOwner
<1>. QED
  BY <1>1, <1>3 DEF Signers

LEMMA GenerateSigners ==
  ASSUME Lone, Typed, Signers, NEW p \in Procs, GenerateAddress(p)
  PROVE  Signers'
<1>0. \A q \in Procs : q = p
  BY DEF Lone
<1>1. Written' = Written
  BY DEF GenerateAddress, ChooseGenerate, CreateTable, CreateFails, Generate, Store, StoreFails,
         TestKeys, Leave, frame, Written
<1>2. CASE ChooseGenerate(p) \/ CreateTable(p) \/ CreateFails(p) \/ StoreFails(p) \/ TestKeys(p)
  <2>1. pc'[p] \in {"create", "generate", "menu"} /\ UNCHANGED <<wallet, made>>
    BY <1>2 DEF ChooseGenerate, CreateTable, CreateFails, StoreFails, TestKeys, Leave, Step,
                Typed, TypeOK
  <2>2. SignerKnown(p)'
    BY <2>1 DEF SignerKnown
  <2>. QED
    BY <1>0, <1>1, <2>1, <2>2, NothingSigned
<1>3. CASE Generate(p)
  <2>1. PICK k \in KeyPairs : \E a \in Hashes(k), s \in Validated(k) :
               /\ made' = made \cup ({k} \ {Zero})
               /\ draft' = [draft EXCEPT ![p] = [address |-> a, private |-> s, public |-> k]]
    BY <1>3 DEF Generate
  <2>2. PICK a \in Hashes(k), s \in Validated(k) :
               /\ made' = made \cup ({k} \ {Zero})
               /\ draft' = [draft EXCEPT ![p] = [address |-> a, private |-> s, public |-> k]]
    BY <2>1
  <2>3. pc'[p] = "store" /\ draft'[p].address = a /\ wallet' = wallet
    BY <1>3, <2>2 DEF Generate, Step, Typed, TypeOK
  \* The address is new, or that of zero keys or of no hash.
  <2>4. a \notin made /\ a \notin {Stranger, Unusable}
    BY WalletAssumption DEF KeyPairs, Hashes, Typed, TypeOK, Secrets, Addresses
  <2>5. ASSUME NEW g \in Written, g.sender = a PROVE Stored(a)
    BY <2>4, <2>5 DEF Signers, Owned, Seen
  <2>6. SignerKnown(p)'
    BY <1>1, <2>3, <2>5 DEF SignerKnown, Stored
  <2>7. \A t : Seen(t) => Seen(t)'
    BY <2>2, <2>3 DEF Seen, Stored
  <2>8. Unique' /\ Owned'
    BY <1>1, <2>3, <2>7 DEF Signers, Unique, Owned, ByOwner
  <2>. QED
    BY <1>0, <2>6, <2>8 DEF Signers
<1>4. CASE Store(p)
  <2>1. /\ ~Stored(draft[p].address) /\ wallet' = wallet \cup {draft[p]}
        /\ pc[p] = "store" /\ pc' = [pc EXCEPT ![p] = AfterStoring(p)] /\ made' = made
    BY <1>4 DEF Store, Step
  <2>2. Unique'
    BY <2>1 DEF Signers, Unique, Stored
  <2>3. \A t : Seen(t) => Seen(t)'
    BY <2>1 DEF Seen, Stored
  <2>4. \A g \in Written : g.sender # draft[p].address
    BY <2>1 DEF Signers, SignerKnown
  <2>5. Owned'
    BY <1>1, <2>1, <2>3, <2>4 DEF Signers, Owned, ByOwner
  <2>6. pc'[p] \in {"generate", "test"}
    BY <2>1 DEF AfterStoring, Typed, TypeOK
  <2>7. SignerKnown(p)'
    BY <2>6 DEF SignerKnown
  <2>. QED
    BY <1>0, <2>2, <2>5, <2>7 DEF Signers
<1>. QED
  BY <1>2, <1>3, <1>4 DEF GenerateAddress

LEMMA TransactionSigners ==
  ASSUME Lone, Typed, Signers, NEW p \in Procs, CreateTransaction(p)
  PROVE  Signers'
<1>0. \A q \in Procs : q = p
  BY DEF Lone
<1>1. UNCHANGED <<wallet, made>>
  BY DEF CreateTransaction, ChooseTransaction, EnterTransaction, OpenFails, LookupFinds,
         LookupMisses, LookupFails, SignRefuses, Sign, SignFails, InsertTransaction, InsertFails
<1>2. \A states : ~Contended(p, states)
  BY <1>0 DEF Contended
<1>3. ASSUME Written' \subseteq Written, SignerKnown(p)' PROVE Signers'
  BY <1>0, <1>1, <1>3, NothingSigned
<1>4. CASE \/ ChooseTransaction(p) \/ OpenFails(p) \/ LookupFails(p) \/ SignRefuses(p)
           \/ InsertFails(p) \/ SignFails(p)
  <2>1. pc'[p] \in {"open", "menu", "insert"} /\ UNCHANGED <<sig, pool>>
    BY <1>4 DEF ChooseTransaction, OpenFails, LookupFails, SignRefuses, InsertFails, SignFails,
                Leave, Step, frame, locals, Typed, TypeOK
  <2>2. Written' = Written /\ SignerKnown(p)'
    BY <2>1 DEF Written, SignerKnown
  <2>. QED
    BY <1>3, <2>2
<1>5. CASE EnterTransaction(p)
  <2>1. /\ pc'[p] = "lookup" /\ pool' = pool /\ entry'[p].sender \in Familiar \cup {Stranger, Unusable}
        /\ sig'[p] \in {sig[p], Garbage}
    BY <1>5 DEF EnterTransaction, Step, Typed, TypeOK
  <2>2. Written' \subseteq Written
    BY <1>0, <2>1 DEF Written
  <2>3. Seen(entry'[p].sender)
    BY <2>1 DEF Familiar, Seen, Stored
  <2>4. SignerKnown(p)'
    BY <1>1, <2>1, <2>3 DEF SignerKnown, Seen, Stored
  <2>. QED
    BY <1>3, <2>2, <2>4
<1>6. CASE LookupFinds(p) \/ LookupMisses(p)
  <2>1. /\ pc[p] = "lookup" /\ pc'[p] = "sign" /\ UNCHANGED <<entry, sig, pool>>
    BY <1>6 DEF LookupFinds, LookupMisses, Step, locals, frame, Typed, TypeOK
  <2>2. Written' = Written
    BY <2>1 DEF Written
  <2>3. Seen(entry[p].sender)
    BY <2>1 DEF Signers, SignerKnown
  <2>4. ASSUME NEW w \in wallet, w.address = entry[p].sender
        PROVE  keys'[p].private = w.private /\ keys'[p].public = w.public
    <3>1. LookupFinds(p)
      BY <1>2, <1>6, <2>4 DEF LookupMisses, Stored
    <3>2. PICK v \in wallet : /\ v.address = entry[p].sender
                              /\ keys'[p] = [private |-> v.private, public |-> v.public]
      BY <3>1 DEF LookupFinds, Typed, TypeOK
    <3>3. v = w
      BY <2>4, <3>2 DEF Signers, Unique
    <3>. QED
      BY <3>2, <3>3
  <2>5. SignerKnown(p)'
    BY <1>1, <2>1, <2>3, <2>4 DEF SignerKnown, Seen, Stored
  <2>. QED
    BY <1>3, <2>2, <2>5
<1>7. CASE Sign(p)
  <2>1. /\ pc[p] = "sign" /\ pc'[p] = "insert" /\ sig' = [sig EXCEPT ![p] = Signed(p)]
        /\ keys[p].private = keys[p].public /\ pool' = pool
    BY <1>7 DEF Sign, Step, Typed, TypeOK
  <2>2. Signed(p).sender = entry[p].sender /\ Signed(p).by = keys[p].private
    BY DEF Signed
  <2>3. Seen(Signed(p).sender) /\ ByOwner(Signed(p))
    BY <2>1, <2>2 DEF Signers, SignerKnown, ByOwner
  <2>4. Written' \subseteq Written \cup {Signed(p)}
    BY <2>1 DEF Written, Typed, TypeOK
  <2>5. Unique' /\ Owned'
    BY <1>1, <2>3, <2>4 DEF Signers, Unique, Owned, ByOwner, Seen, Stored
  <2>6. SignerKnown(p)'
    BY <2>1 DEF SignerKnown
  <2>. QED
    BY <1>0, <2>5, <2>6 DEF Signers
<1>8. CASE InsertTransaction(p)
  <2>1. pc'[p] = "menu" /\ sig' = sig
    BY <1>8 DEF InsertTransaction, Leave, Step, frame, Typed, TypeOK
  <2>2. \A r \in pool' : r \in pool \/ r.sig = sig[p]
    BY <1>8 DEF InsertTransaction
  <2>3. Written' \subseteq Written
    BY <2>1, <2>2 DEF Written
  <2>4. SignerKnown(p)'
    BY <2>1 DEF SignerKnown
  <2>. QED
    BY <1>3, <2>3, <2>4
<1>. QED
  BY <1>4, <1>5, <1>6, <1>7, <1>8 DEF CreateTransaction

LEMMA SignersStep ==
  ASSUME Lone
  PROVE  Typed /\ Signers /\ [Next]_vars => Signers'
<1> SUFFICES ASSUME Typed, Signers, [Next]_vars PROVE Signers'
  OBVIOUS
<1>1. ASSUME NEW p \in Procs, Restart(p) PROVE Signers'
  <2>1. /\ UNCHANGED <<wallet, made, pool>> /\ pc'[p] = "menu"
        /\ sig' = [sig EXCEPT ![p] = Garbage]
    BY <1>1 DEF Restart, Typed, TypeOK
  <2>2. Written' \subseteq Written
    BY <2>1 DEF Written, Typed, TypeOK
  <2>3. SignerKnown(p)' /\ \A q \in Procs : q = p
    BY <2>1 DEF SignerKnown, Lone
  <2>. QED
    BY <2>1, <2>2, <2>3, NothingSigned
<1>2. CASE UNCHANGED vars
  <2>1. Written' = Written /\ UNCHANGED <<wallet, made>>
    BY <1>2 DEF Written, vars
  <2>2. \A p \in Procs : SignerKnown(p)'
    BY <1>2, <2>1 DEF Signers, SignerKnown, Seen, Stored, vars
  <2>. QED
    BY <2>1, <2>2, NothingSigned
<1>. QED
  BY <1>1, <1>2, GenerateSigners, TransactionSigners DEF Next

(* What one program signs for a sender whose address is in the wallet it   *)
(* signs with the keys of that row, although the frame may hold the keys   *)
(* and the signature of other calls; and no address stored later belongs   *)
(* to a sender that was signed for with other keys (transactions.c, lines  *)
(* 139-178).                                                               *)
THEOREM LoneOwnersSign ==
  ASSUME Lone
  PROVE  Spec => []OwnersSign
<1>1. Init => Signers
  <2> SUFFICES ASSUME Init PROVE Signers
    OBVIOUS
  <2>1. Written = {}
    BY DEF Init, Written
  <2>. QED
    BY <2>1 DEF Init, Signers, Unique, Owned, SignerKnown
<1>2. Signers => OwnersSign
  BY DEF Signers, Owned, ByOwner, Written, OwnersSign, Fits
<1>. QED
  BY <1>1, <1>2, SignersStep, TypedInit, TypedStep, PTL DEF Spec
===============================================================================
