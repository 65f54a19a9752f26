----------------------------- MODULE LedgerProofs -----------------------------
(***************************************************************************)
(* What holds of the chain for any number of wallet programs, and what     *)
(* holds only while one program mines.                                     *)
(***************************************************************************)
EXTENDS Ledger, SequenceTheorems, TLAPS

(* The type invariant is preserved: every field of a row comes from the    *)
(* clock, the pool, an existing position, or memory never filled in.       *)
LEMMA TypeStep == TypeOK /\ [Next]_vars => TypeOK'
<1> SUFFICES ASSUME TypeOK, [Next]_vars PROVE TypeOK'
  OBVIOUS
<1> USE LedgerAssumption DEF TypeOK, Row, Bundles
<1>n. NoRow \in Row
  BY DEF NoRow
<1>l. ASSUME NEW p \in Procs, NEW s \in States, Leave(p, s)
      PROVE  /\ pc' \in [Procs -> States]
             /\ job' \in [Procs -> {"mine", "print"}]
             /\ draft' \in [Procs -> Row]
  BY <1>n, <1>l DEF Leave, Step, States
<1>o. ASSUME NEW p \in Procs, NEW s \in States, Opened(p, s)
      PROVE  /\ pc' \in [Procs -> States]
             /\ job' \in [Procs -> {"mine", "print"}]
             /\ draft' \in [Procs -> Row]
  <2>1. CASE Leave(p, s)
    BY <1>l, <2>1
  <2>2. CASE Step(p, s, "pool") /\ draft' = [draft EXCEPT ![p] = NoRow] /\ UNCHANGED job
    <3>1. draft' \in [Procs -> Row]
      BY <1>n, <2>2
    <3>2. pc' \in [Procs -> States]
      BY <2>2 DEF Step, States
    <3>. QED
      BY <2>2, <3>1, <3>2
  <2>. QED
    BY <1>o, <2>1, <2>2 DEF Opened
<1>s. ASSUME NEW p \in Procs, NEW s, NEW u \in States, Step(p, s, u)
      PROVE  pc' \in [Procs -> States]
  BY <1>s DEF Step
<1>1. CASE Tick
  BY <1>1 DEF Tick
<1>2. ASSUME NEW p \in Procs, Menu(p) PROVE TypeOK'
  BY <1>2, <1>s DEF Menu, ChooseTransaction, ChooseMine, ChoosePrint, States
<1>3. ASSUME NEW p \in Procs, Work(p) PROVE TypeOK'
  <2>1. CASE InsertTransaction(p)
    BY <2>1, <1>l DEF InsertTransaction, States
  <2>2. CASE InsertFails(p)
    BY <2>2, <1>l DEF InsertFails, States
  <2>0. ASSUME BeginGenesis(p)
        PROVE  /\ pc' \in [Procs -> States]
               /\ job' \in [Procs -> {"mine", "print"}]
               /\ draft' \in [Procs -> Row]
    <3>1. clock - 1 \in Nat /\ draft' = [draft EXCEPT ![p].time = clock - 1]
      BY <2>0 DEF BeginGenesis
    <3>2. draft' \in [Procs -> Row]
      BY <3>1
    <3>. QED
      BY <2>0, <3>2, <1>s DEF BeginGenesis, States
  <2>3. CASE CountRows(p)
    BY <2>3, <1>o, <2>0 DEF CountRows, States
  <2>4. CASE CountFails(p)
    BY <2>4, <2>0 DEF CountFails
  <2>5. CASE InsertGenesis(p)
    <3>1. GenesisRow(p) \in Row
      BY DEF GenesisRow
    <3>2. <<GenesisRow(p)>> \in Seq(Row)
      <4>1. GenesisRow(p) \in Row => <<GenesisRow(p)>> \in Seq(Row)
        OBVIOUS
      <4>. QED
        BY <3>1, <4>1
    <3>3. blocks' \in Seq(Row)
      BY <2>5, <3>2 DEF InsertGenesis
    <3>. QED
      BY <2>5, <3>3, <1>o DEF InsertGenesis, States
  <2>6. CASE GenesisFails(p)
    BY <2>6, <1>o DEF GenesisFails, States
  <2>7. CASE ReadPool(p)
    BY <2>7, <1>s DEF ReadPool, States
  <2>8. CASE PoolFails(p)
    <3>1. PICK b \in {{}, {Junk}} : draft' = [draft EXCEPT ![p].txs = b]
      BY <2>8 DEF PoolFails
    <3>2. draft' \in [Procs -> Row]
      BY <3>1
    <3>. QED
      BY <2>8, <3>2, <1>s DEF PoolFails, States
  <2>9. CASE Stamp(p)
    BY <2>9, <1>s DEF Stamp, States
  <2>10. CASE BundleOverflows(p)
    BY <2>10, <1>l DEF BundleOverflows, States
  <2>11. CASE ReadTip(p)
    <3>1. PICK i \in Newest : draft' = [draft EXCEPT ![p].prev = i]
      BY <2>11 DEF ReadTip
    <3>2. i \in Nat
      BY <3>1 DEF Newest
    <3>3. draft' \in [Procs -> Row]
      BY <3>1, <3>2
    <3>. QED
      BY <2>11, <3>3, <1>s DEF ReadTip, States
  <2>12. CASE TipFails(p)
    BY <2>12, <1>l DEF TipFails, States
  <2>13. CASE HashBlock(p)
    BY <2>13, <1>s DEF HashBlock, States
  <2>14. CASE AddBlock(p)
    BY <2>14, <1>l DEF AddBlock, States
  <2>15. CASE AddFails(p)
    BY <2>15, <1>l DEF AddFails, States
  <2>. QED
    BY <1>3, <2>1, <2>2, <2>3, <2>4, <2>5, <2>6, <2>7, <2>8, <2>9, <2>10, <2>11,
       <2>12, <2>13, <2>14, <2>15 DEF Work
<1>4. ASSUME NEW p \in Procs, Kill(p) PROVE TypeOK'
  BY <1>4, <1>l DEF Kill
<1>5. CASE UNCHANGED vars
  BY <1>5 DEF vars
<1>. QED
  BY <1>1, <1>2, <1>3, <1>4, <1>5 DEF Next

(* TypeOK is an invariant of the wallet programs.                          *)
THEOREM TypeCorrect == Spec => []TypeOK
<1>1. Init => TypeOK
  BY LedgerAssumption DEF Init, TypeOK, States, Row, NoRow, Bundles
<1>. QED
  BY <1>1, TypeStep, PTL DEF Spec

-----------------------------------------------------------------------------
(***************************************************************************)
(* Any number of programs.  The strengthening says what a program knows    *)
(* between get_previous_hash and the INSERT: the row it mines on is stored *)
(* and was the youngest when it was read, and rows never change.           *)
(***************************************************************************)
Pursued(rows, i) ==
    /\ i \in 1..Len(rows)
    /\ \A j \in 1..i : rows[j].time <= rows[i].time

Tree ==
    \A i \in 1..Len(blocks) :
        IF i = 1 THEN blocks[i].prev = 0
                 ELSE blocks[i].prev \in 1..(i - 1) /\ Pursued(blocks, blocks[i].prev)

Drafts == \A p \in Procs : pc[p] \in {"pow", "add"} => Pursued(blocks, draft[p].prev)

(* How the table can change in one step: not at all, by the genesis row    *)
(* when it is empty, or by the row of a program that stands at add_block.  *)
LEMMA BlocksGrow ==
    ASSUME [Next]_vars
    PROVE  \/ blocks' = blocks
           \/ /\ blocks = <<>>
              /\ \E p \in Procs : pc[p] = "genesis" /\ blocks' = <<GenesisRow(p)>>
           \/ \E p \in Procs : pc[p] = "add" /\ blocks' = Append(blocks, draft[p])
<1>1. CASE UNCHANGED vars
  BY <1>1 DEF vars
<1>2. CASE Tick
  BY <1>2 DEF Tick
<1>3. ASSUME NEW p \in Procs, Menu(p) PROVE blocks' = blocks
  BY <1>3 DEF Menu, ChooseTransaction, ChooseMine, ChoosePrint
<1>4. ASSUME NEW p \in Procs, Kill(p) PROVE blocks' = blocks
  BY <1>4 DEF Kill
<1>5. ASSUME NEW p \in Procs, Work(p), ~InsertGenesis(p), ~AddBlock(p) PROVE blocks' = blocks
  BY <1>5 DEF Work, InsertTransaction, InsertFails, CountRows, CountFails, GenesisFails,
     ReadPool, PoolFails, Stamp, BundleOverflows, ReadTip, TipFails, HashBlock, AddFails
<1>6. ASSUME NEW p \in Procs, InsertGenesis(p)
      PROVE  \/ blocks' = blocks
             \/ blocks = <<>> /\ pc[p] = "genesis" /\ blocks' = <<GenesisRow(p)>>
  BY <1>6 DEF InsertGenesis, Opened, Leave, Step
<1>7. ASSUME NEW p \in Procs, AddBlock(p)
      PROVE  pc[p] = "add" /\ blocks' = Append(blocks, draft[p])
  BY <1>7 DEF AddBlock, Leave, Step
<1>. QED
  BY <1>1, <1>2, <1>3, <1>4, <1>5, <1>6, <1>7 DEF Next

(* So rows keep their places and their contents.                           *)
LEMMA RowsStay ==
    ASSUME TypeOK, [Next]_vars
    PROVE  /\ Len(blocks) <= Len(blocks')
           /\ \A i \in 1..Len(blocks) : blocks'[i] = blocks[i]
<1>1. CASE blocks' = blocks
  BY <1>1 DEF TypeOK
<1>2. CASE blocks = <<>>
  BY <1>2, TypeStep DEF TypeOK
<1>3. ASSUME NEW p \in Procs, blocks' = Append(blocks, draft[p])
      PROVE  /\ Len(blocks) <= Len(blocks')
             /\ \A i \in 1..Len(blocks) : blocks'[i] = blocks[i]
  BY <1>3 DEF TypeOK
<1>. QED
  BY BlocksGrow, <1>1, <1>2, <1>3

(* A row that may be mined on stays one.                                   *)
LEMMA PursuedStays ==
    ASSUME TypeOK, [Next]_vars, NEW i, Pursued(blocks, i)
    PROVE  Pursued(blocks', i)
BY RowsStay, TypeStep DEF Pursued, TypeOK

(* What a program brings to hash_block: it has just read the tip, or it    *)
(* was there before and its block is as it was.                            *)
LEMMA DraftsFrom ==
    ASSUME TypeOK, [Next]_vars, NEW p \in Procs, pc'[p] \in {"pow", "add"}
    PROVE  \/ pc[p] \in {"pow", "add"} /\ draft'[p] = draft[p]
           \/ pc[p] = "tip" /\ blocks' = blocks /\ clock' = clock
              /\ \E i \in Newest : draft'[p] = [draft[p] EXCEPT !.prev = i]
<1> USE DEF TypeOK
<1>1. CASE UNCHANGED vars
  BY <1>1 DEF vars
<1>2. CASE Tick
  BY <1>2 DEF Tick
<1>l. ASSUME NEW q \in Procs, NEW s, Leave(q, s)
      PROVE  q # p /\ pc'[p] = pc[p] /\ draft'[p] = draft[p]
  BY <1>l DEF Leave, Step
<1>o. ASSUME NEW q \in Procs, NEW s, Opened(q, s)
      PROVE  q # p /\ pc'[p] = pc[p] /\ draft'[p] = draft[p]
  BY <1>o, <1>l DEF Opened, Step
<1>3. ASSUME NEW q \in Procs, Menu(q) PROVE pc'[p] = pc[p] /\ draft'[p] = draft[p]
  BY <1>3 DEF Menu, ChooseTransaction, ChooseMine, ChoosePrint, Step
<1>4. ASSUME NEW q \in Procs, Kill(q) PROVE pc'[p] = pc[p] /\ draft'[p] = draft[p]
  BY <1>4, <1>l DEF Kill
<1>5. ASSUME NEW q \in Procs, InsertTransaction(q) \/ InsertFails(q) \/ BundleOverflows(q)
                               \/ TipFails(q) \/ AddBlock(q) \/ AddFails(q)
      PROVE  pc'[p] = pc[p] /\ draft'[p] = draft[p]
  BY <1>5, <1>l DEF InsertTransaction, InsertFails, BundleOverflows, TipFails, AddBlock, AddFails
<1>6. ASSUME NEW q \in Procs, CountRows(q) \/ CountFails(q) \/ InsertGenesis(q) \/ GenesisFails(q)
      PROVE  pc'[p] = pc[p] /\ draft'[p] = draft[p]
  BY <1>6, <1>o DEF CountRows, CountFails, BeginGenesis, InsertGenesis, GenesisFails, Step
<1>7. ASSUME NEW q \in Procs, ReadPool(q) \/ PoolFails(q) \/ Stamp(q)
      PROVE  pc'[p] = pc[p] /\ draft'[p] = draft[p]
  BY <1>7 DEF ReadPool, PoolFails, Stamp, Step
<1>8. ASSUME NEW q \in Procs, HashBlock(q)
      PROVE  pc[p] \in {"pow", "add"} /\ draft'[p] = draft[p]
  BY <1>8 DEF HashBlock, Step
<1>9. ASSUME NEW q \in Procs, ReadTip(q)
      PROVE  \/ pc[p] \in {"pow", "add"} /\ draft'[p] = draft[p]
             \/ pc[p] = "tip" /\ blocks' = blocks /\ clock' = clock
                /\ \E i \in Newest : draft'[p] = [draft[p] EXCEPT !.prev = i]
  BY <1>9 DEF ReadTip, Step
<1>. QED
  BY <1>1, <1>2, <1>3, <1>4, <1>5, <1>6, <1>7, <1>8, <1>9 DEF Next, Work

(* The strengthening is inductive.                                         *)
LEMMA TreeStep == TypeOK /\ Tree /\ Drafts /\ [Next]_vars => Tree' /\ Drafts'
<1> SUFFICES ASSUME TypeOK, Tree, Drafts, [Next]_vars PROVE Tree' /\ Drafts'
  OBVIOUS
<1>1. Drafts'
  <2> SUFFICES ASSUME NEW p \in Procs, pc'[p] \in {"pow", "add"}
               PROVE  Pursued(blocks', draft'[p].prev)
    BY DEF Drafts
  <2>1. CASE pc[p] \in {"pow", "add"} /\ draft'[p] = draft[p]
    <3>1. Pursued(blocks, draft[p].prev)
      BY <2>1 DEF Drafts
    <3>. QED
      BY <2>1, <3>1, PursuedStays
  <2>2. ASSUME blocks' = blocks, NEW i \in Newest, draft'[p] = [draft[p] EXCEPT !.prev = i]
        PROVE  Pursued(blocks', draft'[p].prev)
    BY <2>2 DEF Newest, Pursued, TypeOK, Row
  <2>. QED
    BY <2>1, <2>2, DraftsFrom
<1>2. Tree'
  <2>1. CASE blocks' = blocks
    BY <2>1 DEF Tree, Pursued
  <2>2. ASSUME NEW p \in Procs, blocks' = <<GenesisRow(p)>> PROVE Tree'
    BY <2>2 DEF Tree, GenesisRow
  <2>3. ASSUME NEW p \in Procs, pc[p] = "add", blocks' = Append(blocks, draft[p])
        PROVE  Tree'
    <3> SUFFICES ASSUME NEW i \in 1..Len(blocks')
                 PROVE  IF i = 1 THEN blocks'[i].prev = 0
                        ELSE /\ blocks'[i].prev \in 1..(i - 1)
                             /\ Pursued(blocks', blocks'[i].prev)
      BY DEF Tree
    <3>1. Pursued(blocks, draft[p].prev)
      BY <2>3 DEF Drafts
    <3>2. CASE i \in 1..Len(blocks)
      <4>1. blocks'[i] = blocks[i]
        BY <2>3, <3>2 DEF TypeOK
      <4>. QED
        BY <3>2, <4>1, PursuedStays DEF Tree
    <3>3. CASE i = Len(blocks) + 1
      <4>1. blocks'[i] = draft[p]
        BY <2>3, <3>3 DEF TypeOK
      <4>2. draft[p].prev \in 1..(i - 1) /\ i # 1
        BY <3>1, <3>3 DEF Pursued, TypeOK
      <4>. QED
        BY <3>1, <4>1, <4>2, PursuedStays
    <3>. QED
      BY <2>3, <3>2, <3>3 DEF TypeOK
  <2>. QED
    BY <2>1, <2>2, <2>3, BlocksGrow
<1>. QED
  BY <1>1, <1>2

(* At the start the table is empty and nobody mines.                       *)
LEMMA TreeInit == Init => TypeOK /\ Tree /\ Drafts
BY LedgerAssumption DEF Init, TypeOK, States, Row, NoRow, Bundles, Tree, Drafts

(* The tree invariant holds in every reachable state.                      *)
LEMMA TreeInvariant == Spec => [](TypeOK /\ Tree /\ Drafts)
BY TreeInit, TreeStep, TypeStep, PTL DEF Spec

(* Every block leads back to the one genesis block, which is the first     *)
(* row, for any number of programs counting, inserting and mining at once. *)
THEOREM ChainIsRooted == Spec => []Rooted
<1>1. TypeOK /\ Tree => Rooted
  BY DEF TypeOK, Tree, Rooted
<1>. QED
  BY <1>1, TreeInvariant, PTL

(* No block continues one that was already overtaken when it was stored.   *)
THEOREM OvertakenBlocksStayBare == Spec => []LateBlocksStayBare
<1>1. TypeOK /\ Tree => LateBlocksStayBare
  BY DEF TypeOK, Tree, Pursued, LateBlocksStayBare
<1>. QED
  BY <1>1, TreeInvariant, PTL

(* The table only grows: a stored block keeps its place and its content.   *)
THEOREM StoredBlocksStay == Spec => NeverRewritten
<1>1. TypeOK /\ [Next]_vars =>
        [Len(blocks) <= Len(blocks') /\ \A i \in DOMAIN blocks : blocks'[i] = blocks[i]]_vars
  BY RowsStay DEF TypeOK
<1>. QED
  BY <1>1, TypeCorrect, PTL DEF Spec, NeverRewritten

-----------------------------------------------------------------------------
(***************************************************************************)
(* One program: the rows are in order of time, and only rows of one second *)
(* fork.  The strengthening orders the timestamps of all pairs of rows,    *)
(* dates them before the clock and before the stamp of the block in        *)
(* progress, and says that its parent is still one of the youngest rows.   *)
(***************************************************************************)
Lone == \A p, q \in Procs : p = q

Ordered == \A i, j \in 1..Len(blocks) : i <= j => blocks[i].time <= blocks[j].time

TiesFork ==
    \A i \in 1..Len(blocks) :
        i > 1 => /\ blocks[i].prev \in 1..(i - 1)
                 /\ \A j \in blocks[i].prev..(i - 1) :
                        blocks[j].time = blocks[blocks[i].prev].time

Past(t) == \A i \in 1..Len(blocks) : blocks[i].time <= t

Progress(p) ==
    /\ pc[p] = "genesis" => draft[p].time <= clock
    /\ pc[p] \in {"tip", "pow", "add"} => draft[p].time <= clock /\ Past(draft[p].time)
    /\ pc[p] \in {"pow", "add"} => draft[p].prev \in Newest

Single == Ordered /\ TiesFork /\ Past(clock) /\ \A p \in Procs : Progress(p)

(* The strengthening is inductive.                                         *)
LEMMA SingleStep == ASSUME Lone PROVE TypeOK /\ Single /\ [Next]_vars => Single'
<1> SUFFICES ASSUME TypeOK, Single, [Next]_vars PROVE Single'
  OBVIOUS
<1>r. /\ \A i \in 1..Len(blocks) : blocks[i].time \in Nat
      /\ \A p \in Procs : draft[p].time \in Nat
  <2>1. \A i \in 1..Len(blocks) : blocks[i] \in Row
    BY DEF TypeOK
  <2>. QED
    BY <2>1 DEF Row, TypeOK
<1> USE DEF TypeOK, Single, Ordered, TiesFork, Past, Progress
<1>1. CASE UNCHANGED vars
  BY <1>1 DEF vars, Newest
<1>2. CASE Tick
  <2>1. /\ blocks' = blocks /\ draft' = draft /\ pc' = pc /\ clock' = clock + 1
    BY <1>2 DEF Tick
  <2>2. Ordered' /\ TiesFork'
    <3>1. Ordered /\ TiesFork
      OBVIOUS
    <3> HIDE DEF TypeOK, Single, Past, Progress
    <3>2. Ordered'
      BY <2>1, <3>1
    <3>3. TiesFork'
      <4> HIDE DEF Ordered
      <4>. QED
        BY <2>1, <3>1
    <3>. QED
      BY <3>2, <3>3
  <2>3. Past(clock)'
    <3>1. Past(clock) /\ clock \in Nat
      OBVIOUS
    <3> HIDE DEF TypeOK, Single, Ordered, TiesFork, Progress
    <3>. QED
      BY <2>1, <3>1, <1>r
  <2>4. Ordered' /\ TiesFork' /\ Past(clock)'
    BY <2>2, <2>3
  <2>5. \A p \in Procs : Progress(p)'
    BY <2>1, <1>r DEF Newest
  <2>. QED
    BY <2>4, <2>5
<1>3. ASSUME NEW p \in Procs, blocks' = blocks, clock' = clock,
             pc'[p] \notin {"genesis", "tip", "pow", "add"}
      PROVE  Single'
  BY <1>3, Zenon DEF Lone
<1>4. ASSUME NEW p \in Procs, NEW s, Leave(p, s)
      PROVE  pc'[p] \notin {"genesis", "tip", "pow", "add"}
  BY <1>4 DEF Leave, Step
<1>5. ASSUME NEW p \in Procs, NEW s, Opened(p, s)
      PROVE  pc'[p] \notin {"genesis", "tip", "pow", "add"}
  BY <1>5, <1>4 DEF Opened, Step
<1>b. ASSUME NEW p \in Procs, BeginGenesis(p), blocks' = blocks, clock' = clock PROVE Single'
  <2>1. pc'[p] = "genesis" /\ draft'[p].time = clock - 1
    BY <1>b DEF BeginGenesis, Step, Row
  <2>. QED
    BY <1>b, <2>1 DEF Lone
<1>6. ASSUME NEW p \in Procs, Menu(p) PROVE Single'
  BY <1>6, <1>3 DEF Menu, ChooseTransaction, ChooseMine, ChoosePrint, Step
<1>7. ASSUME NEW p \in Procs, Kill(p) PROVE Single'
  BY <1>7, <1>3, <1>4 DEF Kill
<1>8. ASSUME NEW p \in Procs, InsertTransaction(p) \/ InsertFails(p) \/ CountRows(p) \/ CountFails(p)
                 \/ GenesisFails(p) \/ ReadPool(p) \/ PoolFails(p) \/ BundleOverflows(p)
                 \/ TipFails(p) \/ AddFails(p)
      PROVE  Single'
  BY <1>8, <1>3, <1>4, <1>5, <1>b DEF InsertTransaction, InsertFails, CountRows, CountFails,
     GenesisFails, ReadPool, PoolFails, BundleOverflows, TipFails, AddFails, Step
<1>9. ASSUME NEW p \in Procs, InsertGenesis(p) PROVE Single'
  <2>1. CASE blocks # <<>>
    BY <1>9, <2>1, <1>3, <1>5 DEF InsertGenesis
  <2>2. CASE blocks = <<>>
    <3>1. blocks' = <<GenesisRow(p)>> /\ clock' = clock /\ draft[p].time <= clock
      BY <1>9, <2>2 DEF InsertGenesis, Opened, Leave, Step
    <3>2. pc'[p] \notin {"genesis", "tip", "pow", "add"}
      BY <1>9, <1>5 DEF InsertGenesis
    <3>3. Ordered' /\ TiesFork' /\ Past(clock)'
      BY <3>1, <1>r DEF GenesisRow
    <3>4. \A q \in Procs : Progress(q)'
      BY <3>2 DEF Lone
    <3>. QED
      BY <3>3, <3>4
  <2>. QED
    BY <2>1, <2>2
<1>10. ASSUME NEW p \in Procs, Stamp(p) PROVE Single'
  <2>1. pc'[p] = "tip" /\ draft'[p].time = clock /\ blocks' = blocks /\ clock' = clock
    BY <1>10 DEF Stamp, Step, Row
  <2>. QED
    BY <2>1 DEF Lone
<1>11. ASSUME NEW p \in Procs, ReadTip(p) PROVE Single'
  <2>1. PICK i \in Newest : draft' = [draft EXCEPT ![p].prev = i]
    BY <1>11 DEF ReadTip
  <2>2. Newest' = Newest
    BY <1>11 DEF ReadTip, Newest
  <2>3. /\ pc[p] = "tip" /\ pc'[p] = "pow" /\ blocks' = blocks /\ clock' = clock
        /\ draft'[p].time = draft[p].time /\ draft'[p].prev = i
    BY <1>11, <2>1 DEF ReadTip, Step, Row
  <2>. QED
    BY <2>2, <2>3 DEF Lone
<1>12. ASSUME NEW p \in Procs, HashBlock(p) PROVE Single'
  <2>1. /\ pc[p] = "pow" /\ pc'[p] = "add" /\ blocks' = blocks /\ clock' = clock
        /\ draft' = draft
    BY <1>12 DEF HashBlock, Step
  <2>2. Newest' = Newest
    BY <2>1 DEF Newest
  <2>. QED
    BY <2>1, <2>2 DEF Lone
<1>13. ASSUME NEW p \in Procs, AddBlock(p) PROVE Single'
  <2>1. /\ pc[p] = "add" /\ pc'[p] = "menu" /\ clock' = clock
        /\ blocks' = Append(blocks, draft[p])
    BY <1>13 DEF AddBlock, Leave, Step
  <2>2. /\ Past(draft[p].time) /\ draft[p].prev \in Newest /\ draft[p].time <= clock
    BY <2>1
  <2>3. Ordered' /\ TiesFork' /\ Past(clock)'
    <3> DEFINE n == Len(blocks)
    <3>1. /\ Len(blocks') = n + 1 /\ n \in Nat
          /\ blocks'[n + 1] = draft[p]
          /\ \A i \in 1..n : blocks'[i] = blocks[i]
      BY <2>1
    <3>2. Ordered'
      <4> SUFFICES ASSUME NEW i \in 1..(n + 1), NEW j \in 1..(n + 1), i <= j
                   PROVE  blocks'[i].time <= blocks'[j].time
        BY <3>1
      <4>1. CASE j = n + 1 /\ i # n + 1
        BY <2>2, <3>1, <4>1
      <4>2. CASE j # n + 1
        BY <3>1, <4>2
      <4>3. CASE i = n + 1
        BY <1>r, <3>1, <4>3
      <4>. QED
        BY <4>1, <4>2, <4>3
    <3>3. TiesFork'
      <4> SUFFICES ASSUME NEW i \in 1..(n + 1), i > 1
                   PROVE  /\ blocks'[i].prev \in 1..(i - 1)
                          /\ \A j \in blocks'[i].prev..(i - 1) :
                                blocks'[j].time = blocks'[blocks'[i].prev].time
        BY <3>1
      <4>1. CASE i # n + 1
        <5>1. /\ i \in 1..n /\ blocks'[i] = blocks[i]
              /\ blocks[i].prev \in 1..(i - 1)
              /\ \A j \in blocks[i].prev..(i - 1) :
                    blocks[j].time = blocks[blocks[i].prev].time
          BY <3>1, <4>1
        <5> DEFINE k == blocks[i].prev
        <5>2. k \in k..(i - 1) /\ \A j \in k..(i - 1) : blocks'[j] = blocks[j]
          BY <3>1, <5>1
        <5>3. blocks'[i].prev = k /\ k \in 1..(i - 1)
          BY <5>1
        <5>4. \A j \in k..(i - 1) : blocks[j].time = blocks[k].time
          BY <5>1
        <5> HIDE DEF k
        <5>. QED
          BY <5>2, <5>3, <5>4
      <4>2. CASE i = n + 1
        <5> DEFINE k == draft[p].prev
        <5>1. k \in 1..n /\ \A j \in 1..n : blocks[j].time <= blocks[k].time
          BY <2>2 DEF Newest
        <5>2. \A j \in k..n : blocks[j].time = blocks[k].time
          BY <1>r, <3>1, <5>1
        <5>3. blocks'[i].prev = k
          BY <3>1, <4>2
        <5>4. \A j \in k..n : blocks'[j] = blocks[j]
          BY <3>1, <5>1
        <5>5. i - 1 = n /\ k \in k..n
          BY <3>1, <4>2, <5>1
        <5> HIDE DEF k
        <5>. QED
          BY <5>1, <5>2, <5>3, <5>4, <5>5
      <4>. QED
        BY <4>1, <4>2
    <3>4. Past(clock)'
      BY <2>1, <2>2, <3>1
    <3>. QED
      BY <3>2, <3>3, <3>4
  <2>4. \A q \in Procs : Progress(q)'
    BY <2>1 DEF Lone
  <2>. QED
    BY <2>3, <2>4
<1>. QED
  BY <1>1, <1>2, <1>6, <1>7, <1>8, <1>9, <1>10, <1>11, <1>12, <1>13 DEF Next, Work

(* A single wallet program stores its blocks in order of time, and forks   *)
(* its chain at blocks of one second only.                                 *)
THEOREM LoneChainForksOnTies == ASSUME Lone PROVE Spec => []OnlyTiesFork
<1>1. Init => Single
  BY DEF Init, Single, Ordered, TiesFork, Past, Progress
<1>2. TypeOK /\ Single => OnlyTiesFork
  <2> SUFFICES ASSUME TypeOK, Single, NEW i \in DOMAIN blocks, i > 1
               PROVE  /\ blocks[i - 1].time <= blocks[i].time
                      /\ blocks[i].prev \in 1..(i - 1)
                      /\ \A j \in blocks[i].prev..(i - 1) :
                            blocks[j].time = blocks[blocks[i].prev].time
    BY DEF OnlyTiesFork
  <2>1. i \in 1..Len(blocks) /\ i - 1 \in 1..Len(blocks) /\ i - 1 <= i
    BY DEF TypeOK
  <2>. QED
    BY <2>1 DEF Single, Ordered, TiesFork
<1>. QED
  BY <1>1, <1>2, SingleStep, TypeCorrect, PTL DEF Spec
-----------------------------------------------------------------------------
(***************************************************************************)
(* One program: nobody makes its SELECT on the pool fail, so the block it  *)
(* prepares holds transactions of the pool, which only grows.              *)
(***************************************************************************)
Pooled == BlocksHoldPoolOnly /\ \A p \in Procs : draft[p].txs \subseteq pool

(* The pool grows, and the bundle of a draft is kept, taken from the pool, *)
(* or given up.                                                            *)
LEMMA BundleFrom ==
    ASSUME Lone, TypeOK, [Next]_vars, NEW p \in Procs
    PROVE  /\ pool \subseteq pool'
           /\ draft'[p].txs \in {draft[p].txs, pool, {}}
<1> USE DEF TypeOK, Row
<1>l. ASSUME NEW q \in Procs, NEW s, Leave(q, s)
      PROVE  draft'[p].txs \in {draft[p].txs, {}}
  BY <1>l DEF Leave, NoRow
<1>o. ASSUME NEW q \in Procs, NEW s, Opened(q, s)
      PROVE  draft'[p].txs \in {draft[p].txs, {}}
  <2>1. CASE Leave(q, s)
    BY <1>l, <2>1
  <2>2. CASE draft' = [draft EXCEPT ![q] = NoRow]
    BY <2>2 DEF NoRow
  <2>. QED
    BY <1>o, <2>1, <2>2 DEF Opened
<1>b. ASSUME NEW q \in Procs, BeginGenesis(q)
      PROVE  draft'[p].txs = draft[p].txs
  <2>1. draft' = [draft EXCEPT ![q].time = clock - 1]
    BY <1>b DEF BeginGenesis
  <2>. QED
    BY <2>1, Zenon
<1>1. CASE UNCHANGED vars \/ Tick
  BY <1>1 DEF vars, Tick
<1>2. ASSUME NEW q \in Procs, Menu(q) PROVE pool' = pool /\ draft' = draft
  BY <1>2 DEF Menu, ChooseTransaction, ChooseMine, ChoosePrint
<1>3. ASSUME NEW q \in Procs, Kill(q)
      PROVE  pool' = pool /\ draft'[p].txs \in {draft[p].txs, {}}
  BY <1>3, <1>l DEF Kill
<1>4. ASSUME NEW q \in Procs, InsertTransaction(q) \/ InsertFails(q) \/ BundleOverflows(q)
                               \/ TipFails(q) \/ AddBlock(q) \/ AddFails(q)
      PROVE  pool \subseteq pool' /\ draft'[p].txs \in {draft[p].txs, {}}
  BY <1>4, <1>l DEF InsertTransaction, InsertFails, BundleOverflows, TipFails, AddBlock, AddFails
<1>5. ASSUME NEW q \in Procs, CountRows(q) \/ CountFails(q) \/ InsertGenesis(q) \/ GenesisFails(q)
      PROVE  pool' = pool /\ draft'[p].txs \in {draft[p].txs, {}}
  BY <1>5, <1>o, <1>b DEF CountRows, CountFails, InsertGenesis, GenesisFails
<1>6. ASSUME NEW q \in Procs, ReadPool(q)
      PROVE  pool' = pool /\ draft'[p].txs \in {draft[p].txs, pool}
  BY <1>6 DEF ReadPool
<1>7. ASSUME NEW q \in Procs, Stamp(q) \/ ReadTip(q) \/ HashBlock(q)
      PROVE  pool' = pool /\ draft'[p].txs = draft[p].txs
  <2>1. CASE HashBlock(q)
    BY <2>1 DEF HashBlock
  <2>3. CASE Stamp(q)
    <3>1. draft'[p].txs = draft[p].txs
      BY <2>3, Zenon DEF Stamp
    <3>. QED
      BY <2>3, <3>1 DEF Stamp
  <2>2. CASE ReadTip(q)
    <3>1. PICK i : draft' = [draft EXCEPT ![q].prev = i]
      BY <2>2 DEF ReadTip
    <3>2. draft'[p].txs = draft[p].txs
      BY <3>1
    <3>. QED
      BY <2>2, <3>2 DEF ReadTip
  <2>. QED
    BY <1>7, <2>1, <2>2, <2>3
<1>8. ASSUME NEW q \in Procs PROVE ~PoolFails(q)
  BY DEF Lone, PoolFails, Contended
<1>. QED
  BY <1>1, <1>2, <1>3, <1>4, <1>5, <1>6, <1>7, <1>8 DEF Next, Work

(* The strengthening is inductive.                                         *)
LEMMA PooledStep == ASSUME Lone PROVE TypeOK /\ Pooled /\ [Next]_vars => Pooled'
<1> SUFFICES ASSUME TypeOK, Pooled, [Next]_vars PROVE Pooled'
  OBVIOUS
<1>1. \A p \in Procs : pool \subseteq pool' /\ draft'[p].txs \subseteq pool'
  BY BundleFrom DEF Pooled
<1>2. BlocksHoldPoolOnly'
  <2>1. CASE blocks' = blocks
    <3>1. pool \subseteq pool'
      <4>1. CASE UNCHANGED vars \/ Tick
        BY <4>1 DEF vars, Tick
      <4>2. CASE \E p \in Procs : TRUE
        BY <1>1, <4>2
      <4>. QED
        BY <4>1, <4>2 DEF Next
    <3>. QED
      BY <2>1, <3>1 DEF Pooled, BlocksHoldPoolOnly
  <2>2. ASSUME NEW p \in Procs, blocks' = <<GenesisRow(p)>> PROVE BlocksHoldPoolOnly'
    BY <2>2 DEF BlocksHoldPoolOnly, GenesisRow
  <2>3. ASSUME NEW p \in Procs, blocks' = Append(blocks, draft[p])
        PROVE  BlocksHoldPoolOnly'
    <3> SUFFICES ASSUME NEW i \in 1..Len(blocks') PROVE blocks'[i].txs \subseteq pool'
      BY <2>3 DEF BlocksHoldPoolOnly, TypeOK
    <3>1. CASE i \in 1..Len(blocks)
      <4>1. blocks'[i] = blocks[i]
        BY <2>3, <3>1 DEF TypeOK
      <4>. QED
        BY <1>1, <3>1, <4>1 DEF Pooled, BlocksHoldPoolOnly, TypeOK
    <3>2. CASE i = Len(blocks) + 1
      <4>1. blocks'[i] = draft[p]
        BY <2>3, <3>2 DEF TypeOK
      <4>. QED
        BY <1>1, <4>1 DEF Pooled
    <3>. QED
      BY <2>3, <3>1, <3>2 DEF TypeOK
  <2>. QED
    BY <2>1, <2>2, <2>3, BlocksGrow
<1>. QED
  BY <1>1, <1>2 DEF Pooled

(* While one program runs alone, nothing but transactions of the pool gets *)
(* into a block.                                                           *)
THEOREM LoneBlocksHoldPool == ASSUME Lone PROVE Spec => []BlocksHoldPoolOnly
<1>1. Init => Pooled
  BY DEF Init, Pooled, BlocksHoldPoolOnly, NoRow
<1>2. Pooled => BlocksHoldPoolOnly
  BY DEF Pooled
<1>. QED
  BY <1>1, <1>2, PooledStep, TypeCorrect, PTL DEF Spec
-----------------------------------------------------------------------------
(***************************************************************************)
(* Refinement.  Half of what a block needs to be one of Chain is known     *)
(* from the tree; the other half is what a program carries from the SELECT *)
(* on the pool to the INSERT: its bundle, checked for length by then, and  *)
(* the time it was begun.                                                  *)
(***************************************************************************)
Bundled  == {"stamp", "tip", "pow", "add"}
Stamped  == {"tip", "pow", "add"}

Offered(b, rows) == b \subseteq rows \/ b = {Junk}

Carried(p) ==
    /\ pc[p] = "genesis" => draft[p].time \in 0..(clock - 1)
    /\ pc[p] \in Bundled => Offered(draft[p].txs, pool)
    /\ pc[p] \in Stamped => draft[p].time \in 1..clock /\ draft[p].txs \in Fitting

(* How a block under construction comes to hold what it holds: by a SELECT *)
(* on the pool, then by the stamp, and neither is touched later.           *)
LEMMA DraftMoves ==
    ASSUME TypeOK, [Next]_vars, NEW p \in Procs, pc'[p] \in Bundled
    PROVE  \/ pc'[p] = pc[p] /\ draft'[p] = draft[p]
           \/ /\ pc[p] = "pool" /\ pc'[p] = "stamp" /\ UNCHANGED <<pool, clock>>
              /\ draft'[p].txs \in {pool, {}, {Junk}}
              /\ Lone => draft'[p].txs = pool
           \/ /\ pc[p] = "stamp" /\ pc'[p] = "tip" /\ UNCHANGED <<pool, clock>>
              /\ draft'[p].txs = draft[p].txs /\ draft'[p].time = clock
              /\ draft[p].txs \in Fitting
           \/ /\ pc[p] \in Stamped /\ pc'[p] \in Stamped /\ UNCHANGED <<pool, clock>>
              /\ draft'[p].txs = draft[p].txs /\ draft'[p].time = draft[p].time
<1> USE DEF TypeOK, Bundled
<1>l. ASSUME NEW q \in Procs, NEW s, Leave(q, s)
      PROVE  pc'[p] = pc[p] /\ draft'[p] = draft[p]
  BY <1>l DEF Leave, Step
<1>1. CASE UNCHANGED vars
  BY <1>1 DEF vars
<1>2. CASE Tick
  BY <1>2 DEF Tick
<1>3. ASSUME NEW q \in Procs, Menu(q) PROVE pc'[p] = pc[p] /\ draft'[p] = draft[p]
  BY <1>3 DEF Menu, ChooseTransaction, ChooseMine, ChoosePrint, Step
<1>4. ASSUME NEW q \in Procs, Kill(q) PROVE pc'[p] = pc[p] /\ draft'[p] = draft[p]
  BY <1>4, <1>l DEF Kill
<1>5. ASSUME NEW q \in Procs, InsertTransaction(q) \/ InsertFails(q) \/ BundleOverflows(q)
                               \/ TipFails(q) \/ AddBlock(q) \/ AddFails(q)
      PROVE  pc'[p] = pc[p] /\ draft'[p] = draft[p]
  BY <1>5, <1>l DEF InsertTransaction, InsertFails, BundleOverflows, TipFails, AddBlock, AddFails
<1>o. ASSUME NEW q \in Procs, NEW s, Opened(q, s)
      PROVE  pc'[p] = pc[p] /\ draft'[p] = draft[p]
  BY <1>o, <1>l DEF Opened, Step
<1>6. ASSUME NEW q \in Procs, CountRows(q) \/ CountFails(q) \/ InsertGenesis(q) \/ GenesisFails(q)
      PROVE  pc'[p] = pc[p] /\ draft'[p] = draft[p]
  BY <1>6, <1>o DEF CountRows, CountFails, BeginGenesis, InsertGenesis, GenesisFails, Step
<1>7. ASSUME NEW q \in Procs, q # p,
             ReadPool(q) \/ PoolFails(q) \/ Stamp(q) \/ ReadTip(q) \/ HashBlock(q)
      PROVE  pc'[p] = pc[p] /\ draft'[p] = draft[p]
  BY <1>7 DEF ReadPool, PoolFails, Stamp, ReadTip, HashBlock, Step
<1>8. ASSUME ReadPool(p)
      PROVE  /\ pc[p] = "pool" /\ pc'[p] = "stamp" /\ UNCHANGED <<pool, clock>>
             /\ draft'[p].txs = pool
  BY <1>8 DEF ReadPool, Step, Row
<1>9. ASSUME PoolFails(p)
      PROVE  /\ pc[p] = "pool" /\ pc'[p] = "stamp" /\ UNCHANGED <<pool, clock>>
             /\ draft'[p].txs \in {{}, {Junk}} /\ ~Lone
  <2>1. PICK b \in {{}, {Junk}} : draft' = [draft EXCEPT ![p].txs = b]
    BY <1>9 DEF PoolFails
  <2>2. draft'[p].txs = b
    BY <2>1 DEF Row
  <2>3. ~Lone
    BY <1>9 DEF PoolFails, Contended, Lone
  <2>. QED
    BY <1>9, <2>2, <2>3 DEF PoolFails, Step
<1>10. ASSUME Stamp(p)
       PROVE  /\ pc[p] = "stamp" /\ pc'[p] = "tip" /\ UNCHANGED <<pool, clock>>
              /\ draft'[p].txs = draft[p].txs /\ draft'[p].time = clock
              /\ draft[p].txs \in Fitting
  <2>1. draft'[p].txs = draft[p].txs /\ draft'[p].time = clock
    BY <1>10 DEF Stamp, Row
  <2>2. draft[p].txs \in Fitting
    BY <1>10 DEF Stamp, Fitting, Row
  <2>3. pc[p] = "stamp" /\ pc'[p] = "tip" /\ UNCHANGED <<pool, clock>>
    BY <1>10 DEF Stamp, Step
  <2>. QED
    BY <2>1, <2>2, <2>3
<1>11. ASSUME ReadTip(p)
       PROVE  /\ pc[p] \in Stamped /\ pc'[p] \in Stamped /\ UNCHANGED <<pool, clock>>
              /\ draft'[p].txs = draft[p].txs /\ draft'[p].time = draft[p].time
  <2>1. PICK i : draft' = [draft EXCEPT ![p].prev = i]
    BY <1>11 DEF ReadTip
  <2>2. draft'[p].txs = draft[p].txs /\ draft'[p].time = draft[p].time
    BY <2>1 DEF Row
  <2>. QED
    BY <1>11, <2>2 DEF ReadTip, Step, Stamped
<1>12. ASSUME HashBlock(p)
       PROVE  /\ pc[p] \in Stamped /\ pc'[p] \in Stamped /\ UNCHANGED <<pool, clock>>
              /\ draft'[p] = draft[p]
  BY <1>12 DEF HashBlock, Step, Stamped
<1> HIDE DEF TypeOK, Bundled
<1>13. ASSUME NEW q \in Procs, Work(q)
       PROVE  \/ pc'[p] = pc[p] /\ draft'[p] = draft[p]
              \/ q = p /\ (ReadPool(p) \/ PoolFails(p) \/ Stamp(p) \/ ReadTip(p) \/ HashBlock(p))
  BY <1>13, <1>5, <1>6, <1>7 DEF Work
<1>. QED
  BY <1>1, <1>2, <1>3, <1>4, <1>8, <1>9, <1>10, <1>11, <1>12, <1>13 DEF Next

(* The pool and the clock grow, and only by a user's entry and a tick.     *)
LEMMA PoolAndClockMove ==
    ASSUME TypeOK, [Next]_vars
    PROVE  \/ UNCHANGED <<pool, clock>>
           \/ clock' = clock + 1 /\ UNCHANGED <<pool, blocks>>
           \/ /\ \E t \in Txs \ pool : pool' = pool \cup {t}
              /\ UNCHANGED <<blocks, clock>>
              /\ \E p \in Procs : pc[p] = "submit" /\ pc'[p] = "menu"
<1>1. CASE UNCHANGED vars
  BY <1>1 DEF vars
<1>2. CASE Tick
  BY <1>2 DEF Tick
<1>3. ASSUME NEW p \in Procs, Menu(p) PROVE UNCHANGED <<pool, clock>>
  BY <1>3 DEF Menu, ChooseTransaction, ChooseMine, ChoosePrint
<1>4. ASSUME NEW p \in Procs, Kill(p) PROVE UNCHANGED <<pool, clock>>
  BY <1>4 DEF Kill
<1>5. ASSUME NEW p \in Procs, Work(p), ~InsertTransaction(p) PROVE UNCHANGED <<pool, clock>>
  BY <1>5 DEF Work, InsertFails, CountRows, CountFails, InsertGenesis, GenesisFails,
     ReadPool, PoolFails, Stamp, BundleOverflows, ReadTip, TipFails, HashBlock, AddBlock, AddFails
<1>6. ASSUME NEW p \in Procs, InsertTransaction(p)
      PROVE  /\ \E t \in Txs \ pool : pool' = pool \cup {t}
             /\ UNCHANGED <<blocks, clock>>
             /\ pc[p] = "submit" /\ pc'[p] = "menu"
  BY <1>6 DEF InsertTransaction, Leave, Step, TypeOK
<1>. QED
  BY <1>1, <1>2, <1>3, <1>4, <1>5, <1>6 DEF Next

(* A genesis block is dated when its program begins it, and kept.          *)
LEMMA GenesisMoves ==
    ASSUME TypeOK, [Next]_vars, NEW p \in Procs, pc'[p] = "genesis"
    PROVE  \/ pc'[p] = pc[p] /\ draft'[p] = draft[p]
           \/ draft'[p].time = clock - 1 /\ clock' = clock
<1> USE DEF TypeOK
<1>l. ASSUME NEW q \in Procs, NEW s, Leave(q, s)
      PROVE  pc'[p] = pc[p] /\ draft'[p] = draft[p]
  BY <1>l DEF Leave, Step
<1>o. ASSUME NEW q \in Procs, NEW s, Opened(q, s)
      PROVE  pc'[p] = pc[p] /\ draft'[p] = draft[p]
  BY <1>o, <1>l DEF Opened, Step
<1>b. ASSUME NEW q \in Procs, BeginGenesis(q)
      PROVE  \/ pc'[p] = pc[p] /\ draft'[p] = draft[p]
             \/ draft'[p].time = clock - 1
  BY <1>b DEF BeginGenesis, Step, Row
<1>1. CASE UNCHANGED vars \/ Tick
  BY <1>1 DEF vars, Tick
<1>2. ASSUME NEW q \in Procs, Menu(q) \/ Kill(q)
      PROVE  pc'[p] = pc[p] /\ draft'[p] = draft[p]
  BY <1>2, <1>l DEF Menu, ChooseTransaction, ChooseMine, ChoosePrint, Kill, Step
<1>3. ASSUME NEW q \in Procs, Work(q), ~CountRows(q), ~CountFails(q)
      PROVE  pc'[p] = pc[p] /\ draft'[p] = draft[p]
  <2>1. CASE \/ InsertTransaction(q) \/ InsertFails(q) \/ BundleOverflows(q)
             \/ TipFails(q) \/ AddBlock(q) \/ AddFails(q)
    BY <2>1, <1>l DEF InsertTransaction, InsertFails, BundleOverflows, TipFails, AddBlock, AddFails
  <2>2. CASE InsertGenesis(q) \/ GenesisFails(q)
    BY <2>2, <1>o DEF InsertGenesis, GenesisFails
  <2>3. CASE ReadPool(q) \/ PoolFails(q) \/ Stamp(q) \/ ReadTip(q) \/ HashBlock(q)
    BY <2>3 DEF ReadPool, PoolFails, Stamp, ReadTip, HashBlock, Step
  <2>. QED
    BY <1>3, <2>1, <2>2, <2>3 DEF Work
<1>4. ASSUME NEW q \in Procs, CountRows(q) \/ CountFails(q)
      PROVE  \/ pc'[p] = pc[p] /\ draft'[p] = draft[p]
             \/ draft'[p].time = clock - 1 /\ clock' = clock
  BY <1>4, <1>b, <1>o DEF CountRows, CountFails
<1>. QED
  BY <1>1, <1>2, <1>3, <1>4 DEF Next

Carries == \A p \in Procs : Carried(p)

(* The strengthening is inductive.                                         *)
LEMMA CarriesStep == TypeOK /\ Carries /\ [Next]_vars => Carries'
<1> SUFFICES ASSUME TypeOK, Carries, [Next]_vars, NEW p \in Procs PROVE Carried(p)'
  BY DEF Carries
<1>1. Carried(p)
  BY DEF Carries
<1>2. pool \subseteq pool' /\ clock \in Nat \ {0} /\ clock' \in Nat /\ clock <= clock'
  BY PoolAndClockMove DEF TypeOK
<1>3. \A b : Offered(b, pool) => Offered(b, pool')
  BY <1>2 DEF Offered
<1>9. CASE pc'[p] = "genesis"
  <2>1. draft'[p].time \in 0..(clock' - 1)
    BY <1>1, <1>2, <1>9, GenesisMoves DEF Carried
  <2>. QED
    BY <1>9, <2>1 DEF Carried, Bundled, Stamped
<1>4. CASE pc'[p] \notin Bundled /\ pc'[p] # "genesis"
  BY <1>4 DEF Carried, Bundled, Stamped
<1>5. CASE pc'[p] = pc[p] /\ draft'[p] = draft[p]
  BY <1>1, <1>2, <1>3, <1>5 DEF Carried
<1>6. CASE pc'[p] = "stamp" /\ pool' = pool /\ draft'[p].txs \in {pool, {}, {Junk}}
  <2>1. Offered(draft'[p].txs, pool')
    BY <1>6 DEF Offered
  <2>2. pc'[p] \notin Stamped /\ pc'[p] # "genesis"
    BY <1>6 DEF Stamped
  <2>. QED
    BY <2>1, <2>2 DEF Carried
<1>7. CASE /\ pc[p] = "stamp" /\ pc'[p] = "tip" /\ UNCHANGED <<pool, clock>>
           /\ draft'[p].txs = draft[p].txs /\ draft'[p].time = clock
           /\ draft[p].txs \in Fitting
  <2>1. Offered(draft'[p].txs, pool')
    BY <1>1, <1>3, <1>7 DEF Carried, Bundled
  <2>2. draft'[p].time \in 1..clock'
    BY <1>2, <1>7
  <2>. QED
    BY <1>7, <2>1, <2>2 DEF Carried
<1>8. CASE /\ pc[p] \in Stamped /\ pc'[p] \in Stamped /\ UNCHANGED <<pool, clock>>
           /\ draft'[p].txs = draft[p].txs /\ draft'[p].time = draft[p].time
  BY <1>1, <1>8 DEF Carried, Bundled, Stamped
<1>. QED
  BY <1>4, <1>5, <1>6, <1>7, <1>8, <1>9, DraftMoves

(* A block that is stored is the one its program carries.                  *)
LEMMA StoresTheDraft ==
    ASSUME TypeOK, Carries, [Next]_vars, blocks' # blocks
    PROVE  /\ UNCHANGED <<pool, clock>>
           /\ \/ C!Genesis
              \/ \E p \in Procs :
                    /\ pc[p] = "add"
                    /\ C!Store(draft[p].prev, draft[p].time, draft[p].txs)
                    /\ Len(blocks') > Len(blocks)
<1>1. UNCHANGED <<pool, clock>>
  BY PoolAndClockMove
<1>2. ASSUME NEW p \in Procs, blocks = <<>>, pc[p] = "genesis", blocks' = <<GenesisRow(p)>>
      PROVE  C!Genesis
  <2>1. draft[p].time \in 0..(clock - 1)
    BY <1>2 DEF Carries, Carried
  <2>2. C!Store(0, draft[p].time, {})
    BY <1>1, <1>2 DEF C!Store, GenesisRow
  <2>. QED
    BY <1>2, <2>1, <2>2 DEF C!Genesis
<1>3. ASSUME NEW p \in Procs, pc[p] = "add", blocks' = Append(blocks, draft[p])
      PROVE  /\ C!Store(draft[p].prev, draft[p].time, draft[p].txs)
             /\ Len(blocks') > Len(blocks)
  <2>1. draft[p] = [prev |-> draft[p].prev, time |-> draft[p].time, txs |-> draft[p].txs]
    BY DEF TypeOK, Row
  <2>2. blocks \in Seq(Row) /\ draft[p] \in Row
    BY DEF TypeOK
  <2>3. Len(blocks') > Len(blocks)
    BY <1>3, <2>2
  <2>. QED
    BY <1>1, <1>3, <2>1, <2>3 DEF C!Store
<1>. QED
  BY <1>1, <1>2, <1>3, BlocksGrow

(* Every step of the wallet programs is one of Chain, or none.             *)
LEMMA TreeSimulates ==
    TypeOK /\ Drafts /\ Carries /\ [Next]_vars
        => [C!Tick \/ C!Submit \/ C!Genesis \/ C!MineSomewhere]_(C!vars)
<1> SUFFICES ASSUME TypeOK, Drafts, Carries, [Next]_vars
             PROVE  [C!Tick \/ C!Submit \/ C!Genesis \/ C!MineSomewhere]_(C!vars)
  OBVIOUS
<1>1. CASE blocks' = blocks
  BY <1>1, PoolAndClockMove DEF C!Tick, C!Submit, C!vars
<1>2. ASSUME NEW p \in Procs, pc[p] = "add", Len(blocks') > Len(blocks),
             C!Store(draft[p].prev, draft[p].time, draft[p].txs)
      PROVE  C!MineSomewhere
  <2> DEFINE i == draft[p].prev
             s == draft[p].time
             b == draft[p].txs
  <2>1. i \in DOMAIN blocks /\ \A j \in 1..i : blocks[j].time <= blocks[i].time
    BY <1>2 DEF Drafts, Pursued, TypeOK
  <2>2. s \in 1..clock /\ b \in Fitting /\ (b \subseteq pool \/ b = {Junk})
    BY <1>2, Zenon DEF Carries, Carried, Bundled, Stamped, Offered
  <2>3. C!Store(i, s, b)
    BY <1>2
  <2> HIDE DEF i, s, b
  <2>. QED
    BY <1>2, <2>1, <2>2, <2>3 DEF C!MineSomewhere
<1>. QED
  BY <1>1, <1>2, StoresTheDraft

(* Any number of wallet programs implement Chain: the pool and the table   *)
(* never show that a block took several statements to make.                *)
THEOREM LedgerImplementsChain == Spec => ImplementsTree
<1>1. Init => C!Init /\ Carries
  BY DEF Init, C!Init, Carries, Carried, Bundled, Stamped
<1>. QED
  BY <1>1, CarriesStep, TreeSimulates, TreeInvariant, PTL DEF Spec, ImplementsTree, C!TreeSpec

-----------------------------------------------------------------------------
(***************************************************************************)
(* One program: what it carries is the whole pool, because the user who    *)
(* waits for the proof of work enters nothing meanwhile.                   *)
(***************************************************************************)
Whole == \A p \in Procs : pc[p] \in Bundled => draft[p].txs = pool

(* The strengthening is inductive.                                         *)
LEMMA WholeStep == ASSUME Lone PROVE TypeOK /\ Whole /\ [Next]_vars => Whole'
<1> SUFFICES ASSUME TypeOK, Whole, [Next]_vars, NEW p \in Procs, pc'[p] \in Bundled
             PROVE  draft'[p].txs = pool'
  BY DEF Whole
<1>1. pool' = pool
  <2>1. ASSUME NEW q \in Procs, pc'[q] = "menu" PROVE FALSE
    BY <2>1 DEF Lone, Bundled
  <2>. QED
    BY <2>1, PoolAndClockMove
<1>2. CASE pc'[p] = pc[p] /\ draft'[p] = draft[p]
  BY <1>1, <1>2 DEF Whole
<1>. QED
  BY <1>1, <1>2, DraftMoves DEF Whole, Bundled, Stamped

(* Every step of a lone program is one of the line, or none.               *)
LEMMA LineSimulates ==
    ASSUME Lone
    PROVE  TypeOK /\ Single /\ Carries /\ Whole /\ [Next]_vars
               => [C!Tick \/ C!Submit \/ C!Genesis \/ C!MineNext]_(C!vars)
<1> SUFFICES ASSUME TypeOK, Single, Carries, Whole, [Next]_vars
             PROVE  [C!Tick \/ C!Submit \/ C!Genesis \/ C!MineNext]_(C!vars)
  OBVIOUS
<1>1. CASE blocks' = blocks
  BY <1>1, PoolAndClockMove DEF C!Tick, C!Submit, C!vars
<1>2. ASSUME NEW p \in Procs, pc[p] = "add",
             C!Store(draft[p].prev, draft[p].time, draft[p].txs)
      PROVE  C!MineNext
  <2> DEFINE i == draft[p].prev
             s == draft[p].time
  <2>1. i \in Newest /\ Past(s)
    BY <1>2 DEF Single, Progress
  <2>2. /\ i \in DOMAIN blocks /\ blocks[i].time <= s
        /\ \A j \in DOMAIN blocks : blocks[j].time <= blocks[i].time
    BY <2>1 DEF Newest, Past, TypeOK
  <2>3. draft[p].txs = pool
    BY <1>2 DEF Whole, Bundled
  <2>4. s \in 1..clock /\ pool \in Fitting
    BY <1>2, <2>3, Zenon DEF Carries, Carried, Stamped
  <2>5. C!Store(i, s, pool)
    BY <1>2, <2>3
  <2> HIDE DEF i, s
  <2>. QED
    BY <2>2, <2>4, <2>5 DEF C!MineNext
<1>. QED
  BY <1>1, <1>2, StoresTheDraft

(* A lone program implements the line: its mining is one step, as far as   *)
(* the pool and the chain can tell.                                        *)
THEOREM LoneMiningIsAtomic == ASSUME Lone PROVE Spec => ImplementsLine
<1>1. Init => C!Init /\ Carries /\ Whole /\ Single
  BY DEF Init, C!Init, Carries, Carried, Whole, Bundled, Stamped, Single, Ordered, TiesFork,
     Past, Progress
<1>. QED
  BY <1>1, CarriesStep, WholeStep, SingleStep, LineSimulates, TypeCorrect, PTL
  DEF Spec, ImplementsLine, C!LineSpec
===============================================================================
