------------------------------ MODULE VMProofs ------------------------------
(***************************************************************************)
(* Theorems about VM: the stack keeps its bounds and all it holds are      *)
(* words, code without a byte \h5b among the bytes it pushes is executed   *)
(* along its instructions, loads give what stores left, and on plain       *)
(* operands what calculates follows the table of instructions.             *)
(***************************************************************************)
EXTENDS VMWordProofs, SequenceTheorems

-----------------------------------------------------------------------------
(* Every instruction finds the items it pops, and the counts are numbers.  *)
LEMMA Counts ==
    ASSUME NEW op \in Int
    PROVE  /\ Pops(op) \in Nat /\ Needs(op) \in Nat /\ Grows(op) \in Nat
           /\ Pops(op) <= Needs(op)
<1>1. Pops(op) \in Nat
    BY DEF Pops, Logs
<1>2. Needs(op) \in Nat
    BY <1>1 DEF Needs, Dups, Swaps
<1>3. Grows(op) \in Nat
    BY DEF Grows, Dups, PushWidth
<1>4. Pops(op) <= Needs(op)
    BY <1>1 DEF Needs, Pops, Dups, Swaps, Logs, Op, Binary, Unary, Ternary
<1> QED BY <1>1, <1>2, <1>3, <1>4

(* What calculates takes at least the place its result goes to.            *)
LEMMA Takes ==
    ASSUME NEW op \in Calculations
    PROVE  op \in Int /\ Pops(op) \in 1..3
<1>1. op \in Int
    BY DEF Calculations, Unary, Binary, Ternary, Op
<1>2. Pops(op) \in 1..3
    BY DEF Pops, Calculations, Unary, Binary, Ternary, Logs, Op
<1> QED BY <1>1, <1>2

(* An instruction that pops what it asked for keeps the bounds.            *)
LEMMA PopBounded ==
    ASSUME Bounded, NEW n \in Nat, n <= top + 1, top' = top - n, UNCHANGED data
    PROVE  Bounded'
<1>1. StackSize \in Nat
    BY SizesAssumption
<1> QED BY <1>1 DEF Bounded

(* No step of the machine or of main takes the stack out of its bounds.    *)
LEMMA NextBounded ==
    ASSUME Bounded, [Next]_vars
    PROVE  Bounded'
<1> USE SizesAssumption
<1>0. top \in Int /\ StackSize \in Nat
    BY DEF Bounded
<1>1. CASE Stop \/ NoOp \/ Strays \/ Exits \/ Execute \/ UNCHANGED vars
    BY <1>1 DEF Stop, NoOp, Strays, Exits, Execute, vars, Bounded
<1>2. CASE Calculate
    <2>1. Opcode \in Calculations /\ Needs(Opcode) <= top + 1
        BY <1>2 DEF Calculate, Fetches
    <2>2. Pops(Opcode) \in 1..3 /\ Pops(Opcode) <= top + 1
        BY <1>0, <2>1, Takes, Counts
    <2> QED BY <1>0, <1>2, <2>2 DEF Calculate, Bounded
<1>3. CASE PopItem
    <2>1. Opcode = Op.POP /\ Needs(Opcode) <= top + 1
        BY <1>3 DEF PopItem, Fetches
    <2>2. Pops(Op.POP) = 1
        BY DEF Pops, Op, Binary, Unary, Ternary, Logs
    <2>3. Op.POP \in Int
        BY DEF Op
    <2>4. 1 <= top + 1
        BY <1>0, <2>1, <2>2, <2>3, Counts
    <2> QED BY <1>0, <1>3, <2>4, PopBounded DEF PopItem
<1>4. CASE PushOwn
    <2>1. Opcode \in Own /\ top + Grows(Opcode) < StackSize
        BY <1>4 DEF PushOwn, Fetches
    <2>2. Grows(Opcode) = 1
        BY <2>1 DEF Grows, Own, Dups, Op
    <2>3. top' = top + 1 /\ DOMAIN data' = 0..(StackSize - 1)
        BY <1>4 DEF PushOwn, Push
    <2> QED BY <1>0, <2>1, <2>2, <2>3 DEF Bounded
<1>5. CASE PushBytes
    <2>1. Opcode \in Pushes /\ top + Grows(Opcode) < StackSize
        BY <1>5 DEF PushBytes, Fetches
    <2>2. Grows(Opcode) = PushWidth(Opcode) /\ Grows(Opcode) \in Nat
        BY <2>1, Counts DEF Grows, Pushes, Own, Dups, Op
    <2>3. top' = top + PushWidth(Opcode) /\ DOMAIN data' = 0..(StackSize - 1)
        BY <1>5 DEF PushBytes, Push
    <2> QED BY <1>0, <2>1, <2>2, <2>3 DEF Bounded
<1>6. CASE Dup
    <2>1. Opcode \in Dups /\ top + Grows(Opcode) < StackSize
        BY <1>6 DEF Dup, Fetches
    <2>2. Grows(Opcode) = Opcode - \h7f /\ Grows(Opcode) \in Nat
        BY <2>1, Counts DEF Grows, Own, Dups, Op
    <2>3. top' = top + (Opcode - \h7f) /\ DOMAIN data' = 0..(StackSize - 1)
        BY <1>6 DEF Dup, Push
    <2> QED BY <1>0, <2>1, <2>2, <2>3 DEF Bounded
<1>7. CASE Swap
    BY <1>7 DEF Swap, Bounded
<1>8. CASE MLoad
    <2>1. Opcode = Op.MLOAD /\ Needs(Opcode) <= top + 1
        BY <1>8 DEF MLoad, Fetches
    <2>2. Pops(Op.MLOAD) = 1 /\ Op.MLOAD \in Int
        BY DEF Pops, Op, Binary, Unary, Ternary, Logs
    <2>3. 1 <= top + 1
        BY <1>0, <2>1, <2>2, Counts
    <2> QED BY <1>0, <1>8, <2>3 DEF MLoad, Bounded
<1>9. CASE MStore
    <2>1. Opcode \in {Op.MSTORE, Op.MSTORE8} /\ Needs(Opcode) <= top + 1
        BY <1>9 DEF MStore, Fetches
    <2>2. Pops(Opcode) = 2 /\ Opcode \in Int
        BY <2>1 DEF Pops, Op, Binary, Unary, Ternary, Logs
    <2>3. 2 <= top + 1
        BY <1>0, <2>1, <2>2, Counts
    <2> QED BY <1>0, <1>9, <2>3, PopBounded DEF MStore
<1>10. CASE Log
    <2>1. Opcode \in Logs /\ Needs(Opcode) <= top + 1
        BY <1>10 DEF Log, Fetches
    <2>2. Opcode \in Int
        BY <2>1 DEF Logs
    <2>3. Pops(Opcode) \in Nat /\ Pops(Opcode) <= top + 1
        BY <1>0, <2>1, <2>2, Counts
    <2> QED BY <1>0, <1>10, <2>3, PopBounded DEF Log
<1>11. CASE SLoad
    BY <1>11 DEF SLoad, Bounded
<1>12. CASE SStore
    <2>1. Opcode = Op.SSTORE /\ Needs(Opcode) <= top + 1
        BY <1>12 DEF SStore, Fetches
    <2>2. Pops(Op.SSTORE) = 2 /\ Op.SSTORE \in Int
        BY DEF Pops, Op, Binary, Unary, Ternary, Logs
    <2>3. 2 <= top + 1
        BY <1>0, <2>1, <2>2, Counts
    <2> QED BY <1>0, <1>12, <2>3, PopBounded DEF SStore
<1>13. CASE Jump
    <2>1. Opcode = Op.JUMP /\ Needs(Opcode) <= top + 1
        BY <1>13 DEF Jump, Fetches
    <2>2. Pops(Op.JUMP) = 1 /\ Op.JUMP \in Int
        BY DEF Pops, Op, Binary, Unary, Ternary, Logs
    <2>3. 1 <= top + 1
        BY <1>0, <2>1, <2>2, Counts
    <2> QED BY <1>0, <1>13, <2>3, PopBounded DEF Jump
<1>14. CASE JumpIf
    <2>1. Opcode = Op.JUMPI /\ Needs(Opcode) <= top + 1
        BY <1>14 DEF JumpIf, Fetches
    <2>2. Pops(Op.JUMPI) = 2 /\ Op.JUMPI \in Int
        BY DEF Pops, Op, Binary, Unary, Ternary, Logs
    <2>3. 2 <= top + 1
        BY <1>0, <2>1, <2>2, Counts
    <2> QED BY <1>0, <1>14, <2>3, PopBounded DEF JumpIf
<1>15. CASE Finish
    BY <1>0, <1>15, PopBounded DEF Finish
<1>16. CASE Clear
    BY <1>0, <1>16 DEF Clear, Bounded
<1> QED
    BY <1>1, <1>2, <1>3, <1>4, <1>5, <1>6, <1>7, <1>8, <1>9, <1>10, <1>11, <1>12,
       <1>13, <1>14, <1>15, <1>16 DEF Next, Step

(* Whatever the code and the calls, top stays between -1 and the last cell *)
(* of data: every push is preceded by the check of stack_push, every       *)
(* access below top by a check of the items it reads.                      *)
THEOREM StackBounded == Spec => []Bounded
<1>1. Init => Bounded
    BY SizesAssumption DEF Init, Bounded
<1>2. Bounded /\ [Next]_vars => Bounded'
    BY NextBounded
<1> QED BY <1>1, <1>2, PTL DEF Spec

-----------------------------------------------------------------------------
(* A program that runs is one of the codes, and so are those still to run. *)
Placed ==
    /\ script \in Seq(Calls)
    /\ status = "run" => code \in Codes
    /\ OnInstruction

(* From one instruction to the next.                                       *)
LEMMA NextInstruction ==
    ASSUME Placed, NEW S \in SUBSET (Int \ Pushes), Fetches(S), Goto(pc + 1)
    PROVE  Placed'
<1>1. status = "run" /\ pc < Len(code) /\ Opcode \notin Pushes
    BY DEF Fetches
<1>2. PushWidth(Opcode) = 0
    BY <1>1 DEF PushWidth, Pushes
<1>3. code \in Codes
    BY <1>1 DEF Placed
<1>4. ASSUME pc \in Starts[code] PROVE pc + 1 \in Starts[code]
    <2>1. pc \in Nat
        BY <1>3, <1>4, StartsAssumption
    <2>2. pc + 1 + PushWidth(Opcode) \in Starts[code]
        BY <1>1, <1>3, <1>4, StartsAssumption DEF Opcode
    <2> QED BY <1>2, <2>1, <2>2
<1> QED BY <1>4 DEF Placed, OnInstruction, Goto

(* A call that returns.                                                    *)
LEMMA ReturnPlaced ==
    ASSUME Placed, NEW v, Returns(v)
    PROVE  Placed'
BY DEF Placed, OnInstruction, Returns

(* A jump goes to a byte \h5b, or returns.                                 *)
LEMMA JumpPlaced ==
    ASSUME Placed, status = "run", NEW a, JumpTo(a)
    PROVE  Placed'
<1>1. CASE IsDest(a) /\ Goto(a)
    BY <1>1 DEF Placed, OnInstruction, Goto, IsDest
<1>2. CASE Returns(-1)
    BY <1>2, ReturnPlaced
<1> QED BY <1>1, <1>2 DEF JumpTo

(* Every step goes from instruction to instruction.                        *)
LEMMA NextPlaced ==
    ASSUME Placed, [Next]_vars
    PROVE  Placed'
<1>1. CASE UNCHANGED vars
    BY <1>1 DEF Placed, OnInstruction, vars
<1>2. CASE Stop \/ Finish
    BY <1>2, ReturnPlaced DEF Stop, Finish
<1>3. CASE NoOp
    <2>1. NoOps \in SUBSET (Int \ Pushes)
        BY DEF NoOps, Pushes, Op
    <2> QED BY <1>3, <2>1, NextInstruction DEF NoOp
<1>4. CASE Calculate
    <2>1. Calculations \in SUBSET (Int \ Pushes)
        BY DEF Calculations, Unary, Binary, Ternary, Pushes, Op
    <2> QED BY <1>4, <2>1, NextInstruction DEF Calculate
<1>5. CASE PopItem \/ MLoad \/ MStore \/ SLoad \/ SStore
    <2>1. /\ {Op.POP} \in SUBSET (Int \ Pushes)
          /\ {Op.MLOAD} \in SUBSET (Int \ Pushes)
          /\ {Op.MSTORE, Op.MSTORE8} \in SUBSET (Int \ Pushes)
          /\ {Op.SLOAD} \in SUBSET (Int \ Pushes)
          /\ {Op.SSTORE} \in SUBSET (Int \ Pushes)
        BY DEF Pushes, Op
    <2>2. CASE PopItem
        BY <2>1, <2>2, NextInstruction DEF PopItem
    <2>3. CASE MLoad
        BY <2>1, <2>3, NextInstruction, ReturnPlaced DEF MLoad
    <2>4. CASE MStore
        BY <2>1, <2>4, NextInstruction, ReturnPlaced DEF MStore
    <2>5. CASE SLoad
        BY <2>1, <2>5, NextInstruction DEF SLoad
    <2>6. CASE SStore
        BY <2>1, <2>6, NextInstruction DEF SStore
    <2> QED BY <1>5, <2>2, <2>3, <2>4, <2>5, <2>6
<1>6. CASE PushOwn \/ Dup \/ Swap \/ Log
    <2>1. /\ Own \in SUBSET (Int \ Pushes)
          /\ Dups \in SUBSET (Int \ Pushes)
          /\ Swaps \in SUBSET (Int \ Pushes)
          /\ Logs \in SUBSET (Int \ Pushes)
        BY DEF Own, Dups, Swaps, Logs, Pushes, Op
    <2>2. CASE PushOwn
        BY <2>1, <2>2, NextInstruction DEF PushOwn
    <2>3. CASE Dup
        BY <2>1, <2>3, NextInstruction DEF Dup
    <2>4. CASE Swap
        BY <2>1, <2>4, NextInstruction DEF Swap
    <2>5. CASE Log
        BY <2>1, <2>5, NextInstruction DEF Log
    <2> QED BY <1>6, <2>2, <2>3, <2>4, <2>5
<1>7. CASE PushBytes
    <2>1. status = "run" /\ pc < Len(code) /\ Goto(pc + 1 + PushWidth(Opcode))
        BY <1>7 DEF PushBytes, Fetches
    <2>2. code \in Codes
        BY <2>1 DEF Placed
    <2>3. pc \in Starts[code] => pc + 1 + PushWidth(Opcode) \in Starts[code]
        BY <2>1, <2>2, StartsAssumption DEF Opcode
    <2> QED BY <2>1, <2>3 DEF Placed, OnInstruction, Goto
<1>8. CASE Jump
    <2>1. status = "run" /\ JumpTo(Item(1))
        BY <1>8 DEF Jump, Fetches
    <2> QED BY <2>1, JumpPlaced
<1>9. CASE JumpIf
    <2>1. {Op.JUMPI} \in SUBSET (Int \ Pushes)
        BY DEF Pushes, Op
    <2>2. Fetches({Op.JUMPI}) /\ status = "run"
        BY <1>9 DEF JumpIf, Fetches
    <2>3. CASE JumpTo(Item(2))
        BY <2>2, <2>3, JumpPlaced
    <2>4. CASE Goto(pc + 1)
        BY <2>1, <2>2, <2>4, NextInstruction
    <2> QED BY <1>9, <2>3, <2>4 DEF JumpIf
<1>10. CASE Strays \/ Exits
    BY <1>10 DEF Strays, Exits, Placed, OnInstruction
<1>11. CASE Execute
    <2>1. Head(script) \in Calls /\ Tail(script) \in Seq(Calls)
        BY <1>11 DEF Execute, Placed
    <2>2. code' \in Codes
        BY <1>11, <2>1 DEF Execute, Calls
    <2>3. pc' \in Starts[code']
        BY <1>11, <2>2, StartsAssumption DEF Execute
    <2> QED BY <1>11, <2>1, <2>2, <2>3 DEF Execute, Placed, OnInstruction
<1>12. CASE Clear
    <2>1. Tail(script) \in Seq(Calls)
        BY <1>12 DEF Clear, Placed
    <2> QED BY <1>12, <2>1 DEF Clear, Placed, OnInstruction
<1> QED
    BY <1>1, <1>2, <1>3, <1>4, <1>5, <1>6, <1>7, <1>8, <1>9, <1>10, <1>11, <1>12
    DEF Next, Step

(* In code whose bytes \h5b are all instructions, only instructions are    *)
(* executed, whatever the operands of its jumps: execute_bytecode looks    *)
(* at the byte jumped to and nothing else, and for such code it is enough. *)
THEOREM StaysOnInstructions == Spec => []OnInstruction
<1>1. Init => Placed
    BY ScriptsAssumption DEF Init, Placed, OnInstruction
<1>2. Placed /\ [Next]_vars => Placed'
    BY NextPlaced
<1>3. Placed => OnInstruction
    BY DEF Placed
<1> QED BY <1>1, <1>2, <1>3, PTL DEF Spec

-----------------------------------------------------------------------------
(***************************************************************************)
(* What the machine holds are words and bytes.                             *)
(***************************************************************************)
(* All the stack holds are words, also above top.                          *)
WordsHeld == \A k \in DOMAIN data : data[k] \in Word

(* Bytes, the values of storage, the size of the stack and that of memory  *)
(* are words.                                                              *)
LEMMA SmallWords ==
    /\ 0..255 \subseteq Word
    /\ 0..(2^HalfBits - 1) \subseteq Word
    /\ -1..(StackSize - 1) \subseteq Word
    /\ 8 * MemBytes \in Word
<1> DEFINE h == 2^HalfBits
           w == 2^(WordBits - 1)
<1>1. h \in Nat /\ w \in Nat /\ 256 <= h /\ h <= w
    BY Sizes
<1>2. Word = (-w)..(w - 1)
    BY DEF Word, Least
<1>3. StackSize \in Nat /\ StackSize <= h /\ 8 * MemBytes \in Nat /\ 8 * MemBytes < h
    BY SizesAssumption
<1> HIDE DEF h, w
<1>4. 0..255 \subseteq Word /\ -1..(StackSize - 1) \subseteq Word /\ 8 * MemBytes \in Word
    BY <1>1, <1>2, <1>3
<1>5. 0..(h - 1) \subseteq Word
    BY <1>1, <1>2
<1> QED BY <1>4, <1>5 DEF h

(* An item that is there is a word.                                        *)
LEMMA ItemTyped ==
    ASSUME Bounded, WordsHeld, NEW i \in Nat \ {0}, i <= top + 1
    PROVE  Item(i) \in Word
<1>1. top + 1 - i \in 0..(StackSize - 1)
    BY SizesAssumption DEF Bounded
<1> QED BY <1>1 DEF Item, Bounded, WordsHeld

(* An instruction that calculates puts one word in place of its operands.  *)
LEMMA CalculateWords ==
    ASSUME Bounded, WordsHeld, Calculate
    PROVE  \E w \in Word : Outcome = <<w>> /\ data' = [data EXCEPT ![top + 1 - Pops(Opcode)] = w]
<1> DEFINE s == [i \in 1..Pops(Opcode) |-> Item(i)]
<1>1. Opcode \in Calculations /\ Needs(Opcode) <= top + 1 /\ Outcome # <<>>
    BY DEF Calculate, Fetches
<1>0. top \in Int
    BY SizesAssumption DEF Bounded
<1>2. Pops(Opcode) \in 1..3 /\ Pops(Opcode) <= top + 1
    <2>1. Pops(Opcode) \in 1..3 /\ Opcode \in Int
        BY <1>1, Takes
    <2>2. Needs(Opcode) \in Nat /\ Pops(Opcode) <= Needs(Opcode)
        BY <2>1, Counts
    <2> QED BY <1>0, <1>1, <2>1, <2>2
<1>3. s \in [1..Pops(Opcode) -> Word]
    <2>1. \A i \in 1..Pops(Opcode) : Item(i) \in Word
        BY <1>0, <1>2, ItemTyped
    <2> QED BY <2>1
<1>4. Outcome = Compute(Opcode, s)
    BY DEF Outcome
<1> HIDE DEF s
<1>5. PICK w \in Word : Outcome = <<w>>
    BY <1>1, <1>3, <1>4, ComputeTyped DEF Outcomes
<1>6. Outcome[1] = w
    BY <1>5
<1> QED BY <1>5, <1>6 DEF Calculate

(* MLOAD reads at most a byte.                                             *)
LEMMA LoadedTyped ==
    ASSUME TypeOK, NEW a \in Int, Addressable(a)
    PROVE  Loaded(a) \in 0..255
<1>1. a \div 8 \in 0..(MemBytes - 1) /\ a % 8 \in 0..7
    BY SizesAssumption DEF Addressable
<1>2. memory[a \div 8] \in 0..255
    BY <1>1 DEF TypeOK
<1>3. \A k \in 0..7 : 2^k \in Nat \ {0}
    BY PowerOfTwo
<1>4. \A m \in 0..255, p \in Nat \ {0} : m \div p \in 0..255
    OBVIOUS
<1> QED BY <1>1, <1>2, <1>3, <1>4 DEF Loaded

(* DUPx asks for the x items it copies.                                    *)
LEMMA DupNeeds == \A op \in Dups : Needs(op) = op - \h7f
BY DEF Needs, Dups, Swaps, Op

(* SWAPx asks for the x + 1 items it reverses.                             *)
LEMMA SwapNeeds == \A op \in Swaps : Needs(op) = op - \h8f + 1
BY DEF Needs, Dups, Swaps, Op

(* Every step of the machine leaves words on the stack.                    *)
LEMMA NextWords ==
    ASSUME TypeOK, [Next]_vars
    PROVE  WordsHeld'
<1>0. Bounded /\ WordsHeld /\ top \in Int /\ StackSize \in Nat
    BY SizesAssumption DEF TypeOK, WordsHeld, Bounded
<1>1. CASE UNCHANGED data
    BY <1>0, <1>1 DEF WordsHeld
<1>2. CASE Calculate
    <2>1. PICK w \in Word : data' = [data EXCEPT ![top + 1 - Pops(Opcode)] = w]
        BY <1>0, <1>2, CalculateWords
    <2> QED BY <1>0, <2>1 DEF WordsHeld
<1>3. CASE PushOwn
    <2> DEFINE w == CASE Opcode = Op.PUSH0 -> 0
                      [] Opcode = Op.PC -> Wrap(pc + 1)
                      [] Opcode = Op.MSIZE -> 8 * MemBytes
    <2>1. /\ data' = [k \in 0..(StackSize - 1) |->
                         IF k \in (top + 1)..(top + 1) THEN w ELSE data[k]]
          /\ Opcode \in Own
        BY <1>3 DEF PushOwn, Fetches, Push
    <2>2. Wrap(pc + 1) \in Word /\ 0 \in Word /\ 8 * MemBytes \in Word
        <3>1. pc + 1 \in Int
            BY DEF TypeOK
        <3> QED BY <3>1, WrapWord, SmallWords, Sizes
    <2>3. w \in Word
        BY <2>1, <2>2 DEF Own
    <2> HIDE DEF w
    <2> QED BY <1>0, <2>1, <2>3 DEF WordsHeld, Bounded
<1>4. CASE PushBytes
    <2> DEFINE n == PushWidth(Opcode)
    <2>1. Opcode \in Pushes
        BY <1>4 DEF PushBytes, Fetches
    <2>2. n \in Nat
        BY <2>1 DEF PushWidth, Pushes
    <2>3. PICK beyond \in [Len(code)..(pc + n) -> Junk] :
              data' = [k \in 0..(StackSize - 1) |->
                         IF k \in (top + 1)..(top + n)
                         THEN IF pc + (k - top) < Len(code) THEN code[pc + (k - top) + 1]
                              ELSE beyond[pc + (k - top)]
                         ELSE data[k]]
        BY <1>4 DEF PushBytes, Push
    <2> HIDE DEF n
    <2>4. ASSUME NEW i \in 1..n
          PROVE  (IF pc + i < Len(code) THEN code[pc + i + 1] ELSE beyond[pc + i]) \in Word
        <3>1. pc \in Nat /\ code \in Seq(0..255) /\ Len(code) \in Nat
            BY DEF TypeOK
        <3>2. CASE pc + i < Len(code)
            <4> DEFINE j == pc + i + 1
            <4>1. j \in 1..Len(code)
                BY <2>2, <3>1, <3>2
            <4> HIDE DEF j
            <4>2. code[j] \in 0..255
                BY <3>1, <4>1, ElementOfSeq, Zenon
            <4> QED BY <3>2, <4>2, SmallWords DEF j
        <3>3. CASE ~(pc + i < Len(code))
            <4>1. pc + i \in Len(code)..(pc + n)
                BY <2>2, <3>1, <3>3
            <4>2. beyond[pc + i] \in 0..255
                BY <4>1, SizesAssumption
            <4> QED BY <3>3, <4>2, SmallWords
        <3> QED BY <3>2, <3>3
    <2>5. ASSUME NEW k \in 0..(StackSize - 1), k \in (top + 1)..(top + n)
          PROVE  data'[k] \in Word
        <3>1. k - top \in 1..n
            BY <1>0, <2>2, <2>5
        <3> QED BY <2>3, <2>4, <2>5, <3>1
    <2>6. ASSUME NEW k \in 0..(StackSize - 1), k \notin (top + 1)..(top + n)
          PROVE  data'[k] \in Word
        BY <1>0, <2>3, <2>6 DEF WordsHeld, Bounded
    <2>7. DOMAIN data' = 0..(StackSize - 1)
        BY <2>3
    <2> QED BY <2>5, <2>6, <2>7 DEF WordsHeld
<1>5. CASE Dup
    <2> DEFINE x == Opcode - \h7f
    <2>1. /\ data' = [k \in 0..(StackSize - 1) |->
                         IF k \in (top + 1)..(top + x) THEN data[top - x + (k - top)] ELSE data[k]]
          /\ Opcode \in Dups /\ Needs(Opcode) <= top + 1
        BY <1>5 DEF Dup, Fetches, Push
    <2>2. x \in Nat /\ x <= top + 1
        <3>1. Opcode \in \h80..\h8f /\ Needs(Opcode) = x
            BY <2>1, DupNeeds DEF Dups
        <3> QED BY <2>1, <3>1
    <2>3. top < StackSize
        BY <1>0 DEF Bounded
    <2> HIDE DEF x
    <2>4. \A k \in (top + 1)..(top + x) : top - x + (k - top) \in 0..(StackSize - 1)
        BY <1>0, <2>2, <2>3
    <2> QED BY <1>0, <2>1, <2>4 DEF WordsHeld, Bounded
<1>6. CASE Swap
    <2> DEFINE x == Opcode - \h8f
    <2>1. /\ data' = [k \in 0..(StackSize - 1) |->
                       IF k \in (top - x)..top THEN data[2 * top - x - k] ELSE data[k]]
          /\ Opcode \in Swaps /\ Needs(Opcode) <= top + 1
        BY <1>6 DEF Swap, Fetches
    <2>2. x \in Nat /\ x <= top /\ top < StackSize
        <3>1. Opcode \in \h90..\h9f /\ Needs(Opcode) = x + 1
            BY <2>1, SwapNeeds DEF Swaps
        <3>2. x + 1 <= top + 1 /\ top < StackSize
            BY <1>0, <2>1, <3>1 DEF Bounded
        <3>3. x \in Nat
            BY <3>1
        <3> HIDE DEF x
        <3> QED BY <1>0, <3>2, <3>3
    <2> HIDE DEF x
    <2>3. \A k \in (top - x)..top : 2 * top - x - k \in 0..(StackSize - 1)
        BY <1>0, <2>2
    <2>4. ASSUME NEW k \in 0..(StackSize - 1) PROVE data'[k] \in Word
        BY <1>0, <2>1, <2>3 DEF WordsHeld, Bounded
    <2> QED BY <2>1, <2>4 DEF WordsHeld
<1>7. CASE MLoad
    <2>1. Fetches({Op.MLOAD})
        BY <1>7 DEF MLoad
    <2>2. Opcode = Op.MLOAD /\ Needs(Opcode) <= top + 1
        BY <2>1 DEF Fetches
    <2>3. 1 <= top + 1
        BY <2>2 DEF Needs, Pops, Op, Binary, Unary, Ternary, Logs, Dups, Swaps
    <2>4. top \in 0..(StackSize - 1) /\ Item(1) = data[top]
        BY <1>0, <2>3 DEF Item, Bounded
    <2>5. CASE Addressable(Item(1))
        <3>1. data' = [data EXCEPT ![top] = Loaded(data[top])]
            BY <1>7, <2>5 DEF MLoad
        <3>2. data[top] \in Word /\ data[top] \in Int
            BY <1>0, <2>4, Sizes DEF WordsHeld, Bounded
        <3>3. Loaded(data[top]) \in Word
            BY <2>4, <2>5, <3>2, LoadedTyped, SmallWords
        <3> QED BY <1>0, <3>1, <3>3 DEF WordsHeld
    <2>6. CASE ~Addressable(Item(1))
        BY <1>1, <1>7, <2>6 DEF MLoad
    <2> QED BY <2>5, <2>6
<1>8. CASE SLoad
    <2>1. Lands(Item(1)) /\ Opcode = Op.SLOAD /\ Needs(Opcode) <= top + 1
        BY <1>8 DEF SLoad, Fetches
    <2>2. 1 <= top + 1
        BY <2>1 DEF Needs, Pops, Op, Binary, Unary, Ternary, Logs, Dups, Swaps
    <2>3. top \in 0..(StackSize - 1) /\ Item(1) = data[top]
        BY <1>0, <2>2 DEF Item, Bounded
    <2> DEFINE w == IF storage[Slot(data[top])] = Null THEN 0 ELSE storage[Slot(data[top])]
    <2>4. data' = [data EXCEPT ![top] = w]
        BY <1>8 DEF SLoad
    <2>5. Slot(data[top]) \in 0..(Slots - 1)
        BY <2>1, <2>3 DEF Lands
    <2>6. w \in Word
        <3>1. storage[Slot(data[top])] \in 0..(2^HalfBits - 1) \cup {Null}
            BY <2>5 DEF TypeOK
        <3>2. 0 \in Word
            BY Sizes
        <3> QED BY <3>1, <3>2, SmallWords
    <2> HIDE DEF w
    <2> QED BY <1>0, <2>4, <2>6 DEF WordsHeld
<1>9. CASE Stop \/ NoOp \/ PopItem \/ MStore \/ Log \/ SStore \/ Strays \/ Jump \/ JumpIf
           \/ Finish \/ Exits \/ Execute \/ Clear \/ UNCHANGED vars
    <2>1. UNCHANGED data
        BY <1>9 DEF Stop, NoOp, PopItem, MStore, Log, SStore, Strays, Jump, JumpIf,
                    Finish, Exits, Execute, Clear, vars
    <2> QED BY <1>1, <2>1
<1> QED BY <1>2, <1>3, <1>4, <1>5, <1>6, <1>7, <1>8, <1>9 DEF Next, Step

(* A store leaves a byte: the bits below the address, and as many of the   *)
(* value's as fit above them.                                              *)
LEMMA StoredByte ==
    ASSUME NEW c \in 0..7, NEW m \in 0..255, NEW v \in Nat
    PROVE  /\ (m % 2^c) + (v % 2^(8 - c)) * 2^c \in 0..255
           /\ m % 2^c \in 0..(2^c - 1) /\ v % 2^(8 - c) \in Nat
           /\ 2^c \in Nat \ {0} /\ 2^(8 - c) \in Nat \ {0}
<1>1. c \in Nat /\ 8 - c \in Nat /\ c + (8 - c) = 8 /\ 2^8 = 256
    OBVIOUS
<1>2. 2^(c + (8 - c)) = 2^c * 2^(8 - c)
    <2>1. \A i, j \in Nat : 2^(i + j) = 2^i * 2^j
        BY PowerSum
    <2>2. c \in Nat /\ 8 - c \in Nat
        BY <1>1
    <2> QED BY <2>1, <2>2, Zenon
<1> DEFINE p == 2^c
           q == 2^(8 - c)
<1>3. p \in Nat \ {0} /\ q \in Nat \ {0} /\ p * q = 256
    <2>1. p \in Nat \ {0} /\ q \in Nat \ {0}
        BY <1>1, PowerOfTwo
    <2>2. p * q = 2^8
        BY <1>1, <1>2, Zenon
    <2> QED BY <1>1, <2>1, <2>2, Zenon
<1> HIDE DEF p, q
<1> DEFINE u == m % p
           w == v % q
<1>4. u \in 0..(p - 1) /\ w \in 0..(q - 1) /\ u \in Nat /\ w \in Nat
    BY <1>3, Division
<1> HIDE DEF u, w
<1>5. w * p <= (q - 1) * p /\ (q - 1) * p = p * q - p /\ w * p \in Nat
    BY <1>3, <1>4
<1>6. u + w * p \in 0..255
    BY <1>3, <1>4, <1>5
<1> QED BY <1>3, <1>4, <1>6 DEF p, q, u, w

(* Memory holds bytes in every step.                                       *)
LEMMA NextMemory ==
    ASSUME TypeOK, [Next]_vars
    PROVE  memory' \in [0..(MemBytes - 1) -> 0..255]
<1>1. memory \in [0..(MemBytes - 1) -> 0..255] /\ MemBytes \in Nat
    BY SizesAssumption DEF TypeOK
<1>2. CASE UNCHANGED memory
    BY <1>1, <1>2
<1>3. CASE MStore
    <2>1. Opcode \in {Op.MSTORE, Op.MSTORE8} /\ Needs(Opcode) <= top + 1
        BY <1>3 DEF MStore, Fetches
    <2>2. Needs(Opcode) = 2
        BY <2>1 DEF Needs, Pops, Op, Binary, Unary, Ternary, Logs, Dups, Swaps
    <2>3. Item(1) \in Int /\ Item(2) \in Int
        <3>1. Bounded /\ WordsHeld /\ top \in Int
            BY SizesAssumption DEF TypeOK, WordsHeld, Bounded
        <3>2. Item(1) \in Word /\ Item(2) \in Word
            BY <2>1, <2>2, <3>1, ItemTyped
        <3> QED BY <3>2, Sizes
    <2>4. CASE Addressable(Item(2))
        <3> DEFINE a == Item(2)
                   v == Half(Item(1))
        <3>1. memory' = [memory EXCEPT ![a \div 8] =
                            (memory[a \div 8] % 2^(a % 8)) + (v % 2^(8 - (a % 8))) * 2^(a % 8)]
            BY <1>3, <2>4 DEF MStore, Stored
        <3>2. v \in Nat /\ a \in Int
            BY <2>3, HalfTyped
        <3> HIDE DEF a, v
        <3>3. a \div 8 \in 0..(MemBytes - 1) /\ a % 8 \in 0..7
            BY <1>1, <2>4, <3>2 DEF Addressable, a
        <3>4. (memory[a \div 8] % 2^(a % 8)) + (v % 2^(8 - (a % 8))) * 2^(a % 8) \in 0..255
            <4>1. memory[a \div 8] \in 0..255
                BY <1>1, <3>3
            <4> QED BY <3>2, <3>3, <4>1, StoredByte
        <3> QED BY <1>1, <3>1, <3>4
    <2>5. CASE ~Addressable(Item(2))
        BY <1>2, <1>3, <2>5 DEF MStore
    <2> QED BY <2>4, <2>5
<1>4. CASE Stop \/ NoOp \/ Calculate \/ PopItem \/ PushOwn \/ PushBytes \/ Dup \/ Swap
           \/ MLoad \/ Log \/ SLoad \/ SStore \/ Strays \/ Jump \/ JumpIf
           \/ Finish \/ Exits \/ Execute \/ Clear \/ UNCHANGED vars
    <2>1. UNCHANGED memory
        BY <1>4 DEF Stop, NoOp, Calculate, PopItem, PushOwn, PushBytes, Dup, Swap, MLoad, Log,
                    SLoad, SStore, Strays, Jump, JumpIf, Finish, Exits, Execute, Clear, vars
    <2> QED BY <1>2, <2>1
<1> QED BY <1>3, <1>4 DEF Next, Step

(* Storage holds numbers of HalfBits bits in every step.                   *)
LEMMA NextStorage ==
    ASSUME TypeOK, [Next]_vars
    PROVE  storage' \in [0..(Slots - 1) -> 0..(2^HalfBits - 1) \cup {Null}]
<1>1. storage \in [0..(Slots - 1) -> 0..(2^HalfBits - 1) \cup {Null}]
    BY DEF TypeOK
<1>2. CASE UNCHANGED storage
    BY <1>1, <1>2
<1>3. CASE SStore
    <2>1. Opcode = Op.SSTORE /\ Needs(Opcode) <= top + 1
        BY <1>3 DEF SStore, Fetches
    <2>2. Needs(Opcode) = 2
        BY <2>1 DEF Needs, Pops, Op, Binary, Unary, Ternary, Logs, Dups, Swaps
    <2>3. Bounded /\ WordsHeld /\ top \in Int
        BY SizesAssumption DEF TypeOK, WordsHeld, Bounded
    <2>4. Item(1) \in Word
        BY <2>1, <2>2, <2>3, ItemTyped
    <2>5. Half(Item(1)) \in 0..(2^HalfBits - 1)
        BY <2>4, HalfTyped, Sizes
    <2>6. storage' = [storage EXCEPT ![Slot(Item(2))] = Half(Item(1))]
        BY <1>3 DEF SStore
    <2> QED BY <1>1, <2>5, <2>6
<1>4. CASE Stop \/ NoOp \/ Calculate \/ PopItem \/ PushOwn \/ PushBytes \/ Dup \/ Swap
           \/ MLoad \/ MStore \/ Log \/ SLoad \/ Strays \/ Jump \/ JumpIf
           \/ Finish \/ Exits \/ Execute \/ Clear \/ UNCHANGED vars
    <2>1. UNCHANGED storage
        BY <1>4 DEF Stop, NoOp, Calculate, PopItem, PushOwn, PushBytes, Dup, Swap, MLoad, MStore,
                    Log, SLoad, Strays, Jump, JumpIf, Finish, Exits, Execute, Clear, vars
    <2> QED BY <1>2, <2>1
<1> QED BY <1>3, <1>4 DEF Next, Step

(* The type of the calls main makes.                                       *)
CallType == [call : {"execute", "clear"}, code : Seq(0..255)]

(* The types of what is not the stack, memory or storage.                  *)
ControlOK ==
    /\ script \in Seq(CallType)
    /\ code \in Seq(0..255) /\ pc \in Nat
    /\ status \in {"idle", "run", "ended", "astray"}
    /\ result \in Word

(* Going on in the code keeps them.                                        *)
LEMMA GotoControl ==
    ASSUME ControlOK, NEW p \in Nat, Goto(p)
    PROVE  ControlOK'
BY DEF ControlOK, Goto

(* Returning a word does too.                                              *)
LEMMA ReturnsControl ==
    ASSUME ControlOK, NEW v \in Word, Returns(v)
    PROVE  ControlOK'
BY DEF ControlOK, Returns

(* So does a jump: its destination is in the code, or the call returns -1. *)
LEMMA JumpControl ==
    ASSUME ControlOK, NEW a, JumpTo(a)
    PROVE  ControlOK'
<1>1. CASE IsDest(a) /\ Goto(a)
    <2>1. a \in Nat
        BY <1>1 DEF IsDest
    <2> QED BY <1>1, <2>1, GotoControl
<1>2. CASE Returns(-1)
    <2>1. -1 \in Word
        BY SmallWords, SizesAssumption
    <2> QED BY <1>2, <2>1, ReturnsControl
<1> QED BY <1>1, <1>2 DEF JumpTo

(* The first of a sequence's elements, and the rest.                       *)
LEMMA HeadTail ==
    ASSUME NEW S, NEW q \in Seq(S), q # <<>>
    PROVE  Head(q) \in S /\ Tail(q) \in Seq(S)
OBVIOUS

(* Every step keeps the types of what is not the stack, memory or storage. *)
LEMMA NextControl ==
    ASSUME TypeOK, [Next]_vars
    PROVE  ControlOK'
<1>0. ControlOK /\ Bounded /\ WordsHeld
    BY DEF TypeOK, ControlOK, WordsHeld, CallType
<1>1. pc \in Nat /\ pc + 1 \in Nat
    BY DEF TypeOK
<1>2. CASE Stop
    <2>1. top \in Word
        BY SmallWords, SizesAssumption DEF TypeOK, Bounded
    <2> QED BY <1>0, <1>2, <2>1, ReturnsControl DEF Stop
<1>3. CASE NoOp \/ Calculate \/ PopItem \/ PushOwn \/ Dup \/ Swap \/ Log \/ SLoad \/ SStore
    <2>1. Goto(pc + 1)
        BY <1>3 DEF NoOp, Calculate, PopItem, PushOwn, Dup, Swap, Log, SLoad, SStore
    <2> QED BY <1>0, <1>1, <2>1, GotoControl
<1>4. CASE PushBytes
    <2>1. Opcode \in Pushes /\ Goto(pc + 1 + PushWidth(Opcode))
        BY <1>4 DEF PushBytes, Fetches
    <2>2. pc + 1 + PushWidth(Opcode) \in Nat
        BY <1>1, <2>1 DEF PushWidth, Pushes
    <2> QED BY <1>0, <2>1, <2>2, GotoControl
<1>5. CASE MLoad \/ MStore
    <2>1. Goto(pc + 1) \/ Returns(0) \/ Returns(-1)
        BY <1>5 DEF MLoad, MStore
    <2>2. 0 \in Word /\ -1 \in Word
        BY SmallWords, SizesAssumption
    <2> QED BY <1>0, <1>1, <2>1, <2>2, GotoControl, ReturnsControl
<1>6. CASE Jump \/ JumpIf
    <2>1. JumpTo(Item(1)) \/ JumpTo(Item(2)) \/ Goto(pc + 1)
        BY <1>6 DEF Jump, JumpIf
    <2> QED BY <1>0, <1>1, <2>1, GotoControl, JumpControl
<1>7. CASE Finish
    <2>1. top \in DOMAIN data
        BY <1>7, SizesAssumption DEF Finish, TypeOK, Bounded
    <2>2. data[top] \in Word
        BY <2>1, <1>0 DEF WordsHeld
    <2> QED BY <1>0, <1>7, <2>2, ReturnsControl DEF Finish
<1>8. CASE Strays \/ Exits \/ UNCHANGED vars
    BY <1>0, <1>8 DEF Strays, Exits, vars, ControlOK
<1>9. CASE Execute
    <2>1. /\ Head(script) \in CallType
          /\ Tail(script) \in Seq(CallType)
        BY <1>0, <1>9, HeadTail DEF Execute, ControlOK
    <2>2. Head(script).code \in Seq(0..255)
        BY <2>1 DEF CallType
    <2>3. script' = Tail(script) /\ code' = Head(script).code /\ pc' = 0 /\ status' = "run"
          /\ result' = result
        BY <1>9 DEF Execute
    <2>4. result \in Word
        BY <1>0 DEF ControlOK
    <2> QED BY <2>1, <2>2, <2>3, <2>4 DEF ControlOK
<1>10. CASE Clear
    <2>1. Tail(script) \in Seq(CallType)
        BY <1>0, <1>10, HeadTail DEF Clear, ControlOK
    <2> QED BY <1>0, <1>10, <2>1 DEF Clear, ControlOK
<1> QED
    BY <1>2, <1>3, <1>4, <1>5, <1>6, <1>7, <1>8, <1>9, <1>10 DEF Next, Step

(* The machine starts with the right types.                                *)
LEMMA InitTyped == Init => TypeOK
<1> SUFFICES ASSUME Init PROVE TypeOK
    OBVIOUS
<1>1. Bounded
    BY SizesAssumption DEF Init, Bounded
<1>2. 0 \in Word
    BY Sizes
<1>3. script \in Seq(CallType)
    <2>1. Calls \subseteq CallType
        BY ScriptsAssumption DEF Calls, CallType
    <2>2. script \in Seq(Calls)
        BY ScriptsAssumption DEF Init
    <2> QED BY <2>1, <2>2, SeqMonotonic, Zenon
<1>4. memory \in [0..(MemBytes - 1) -> 0..255]
    BY SizesAssumption DEF Init
<1>5. storage \in [0..(Slots - 1) -> 0..(2^HalfBits - 1) \cup {Null}]
    BY DEF Init
<1> QED BY <1>1, <1>2, <1>3, <1>4, <1>5 DEF Init, TypeOK, CallType

(* Whatever the code and the calls, all the machine holds are words and    *)
(* bytes in their ranges: no instruction of execute_bytecode puts anything *)
(* on the stack, in memory, in storage or in its result that the C type    *)
(* does not hold.                                                          *)
THEOREM TypeCorrect == Spec => []TypeOK
<1>1. TypeOK /\ [Next]_vars => TypeOK'
    <2> SUFFICES ASSUME TypeOK, [Next]_vars PROVE TypeOK'
        OBVIOUS
    <2>1. Bounded'
        BY NextBounded DEF TypeOK
    <2> QED BY <2>1, NextWords, NextMemory, NextStorage, NextControl
            DEF TypeOK, WordsHeld, ControlOK, CallType
<1> QED BY <1>1, InitTyped, PTL DEF Spec

-----------------------------------------------------------------------------
(***************************************************************************)
(* A load gives what the stores left.                                      *)
(***************************************************************************)
(* The memory instructions take no other instruction's opcode.             *)
LEMMA StoresApart ==
    {Op.MSTORE, Op.MSTORE8} \cap
        ({Op.STOP, Op.POP, Op.MLOAD, Op.SLOAD, Op.SSTORE, Op.JUMP, Op.JUMPI} \cup NoOps
         \cup Own \cup Pushes \cup Dups \cup Swaps \cup Logs \cup Calculations) = {}
BY DEF Calculations, Unary, Binary, Ternary, Op, NoOps, Own, Pushes, Dups, Swaps, Logs

(* What a load at bit j gives of a byte after a store at its bit c.        *)
LEMMA StoredThenLoaded ==
    ASSUME NEW c \in 0..7, NEW m \in 0..255, NEW low \in Nat, NEW j \in 0..7
    PROVE  LET n == (m % 2^c) + low * 2^c
           IN  /\ j >= c => n \div 2^j = low \div 2^(j - c)
               /\ j < c => (n \div 2^j) % 2^(c - j) = (m \div 2^j) % 2^(c - j)
<1> DEFINE u == m % 2^c
           q == m \div 2^c
<1>1. c \in Nat /\ j \in Nat /\ m \in Int /\ low \in Int
    OBVIOUS
<1>2. 2^c \in Nat \ {0}
    BY <1>1, PowerOfTwo
<1>3. u \in 0..(2^c - 1) /\ q \in Int /\ m = 2^c * q + u
    BY <1>1, <1>2, Division
<1> HIDE DEF u, q
<1>4. j >= c => (u + low * 2^c) \div 2^j = low \div 2^(j - c)
    BY <1>1, <1>3, QuotientAbove
<1>5. ASSUME j < c
      PROVE  ((u + low * 2^c) \div 2^j) % 2^(c - j) = (m \div 2^j) % 2^(c - j)
    <2>1. j \in 0..c /\ u \in Int
        BY <1>1, <1>2, <1>3, <1>5
    <2>2. ((u + low * 2^c) \div 2^j) % 2^(c - j) = (u \div 2^j) % 2^(c - j)
        BY <1>1, <2>1, RestBelow
    <2>3. ((u + q * 2^c) \div 2^j) % 2^(c - j) = (u \div 2^j) % 2^(c - j)
        BY <1>1, <1>3, <2>1, RestBelow
    <2>4. m = u + q * 2^c
        <3> DEFINE p == 2^c
        <3>1. p \in Nat \ {0} /\ m = p * q + u /\ u \in Int /\ q \in Int
            BY <1>2, <1>3, <2>1
        <3> HIDE DEF p
        <3>2. m = u + q * p
            BY <3>1
        <3> QED BY <3>2 DEF p
    <2> QED BY <2>2, <2>3, <2>4
<1> QED BY <1>4, <1>5 DEF u

(* What a load at k gives after MSTORE.                                    *)
LEMMA StoreThenLoad ==
    ASSUME TypeOK, MStore, Addressable(Item(2)), NEW k \in 0..(8 * MemBytes - 1)
    PROVE  LET a == Item(2)
               low == Item(1) % 2^(8 - (a % 8))
           IN  IF k \div 8 # a \div 8 THEN Loaded(k)' = Loaded(k)
               ELSE IF k >= a THEN Loaded(k)' = low \div 2^(k - a)
               ELSE Loaded(k)' % 2^(a - k) = Loaded(k) % 2^(a - k)
<1> DEFINE a == Item(2)
           x == Item(1)
           b == a \div 8
           c == a % 8
           h == k \div 8
           j == k % 8
           low == x % 2^(8 - c)
           n == (memory[b] % 2^c) + low * 2^c
<1>1. memory \in [0..(MemBytes - 1) -> 0..255] /\ MemBytes \in Nat
    BY SizesAssumption DEF TypeOK
<1>2. x \in Int
    <2>1. Opcode \in {Op.MSTORE, Op.MSTORE8} /\ Needs(Opcode) <= top + 1
        BY DEF MStore, Fetches
    <2>2. Needs(Opcode) = 2
        BY <2>1 DEF Needs, Pops, Op, Binary, Unary, Ternary, Logs, Dups, Swaps
    <2>3. Bounded /\ WordsHeld /\ top \in Int
        BY SizesAssumption DEF TypeOK, WordsHeld, Bounded
    <2>4. Item(1) \in Word
        BY <2>1, <2>2, <2>3, ItemTyped
    <2> QED BY <2>4, Sizes
<1>3. a \in 0..(8 * MemBytes - 1) /\ a \in Int /\ k \in Int
    BY <1>1 DEF Addressable
<1>4. memory' = [memory EXCEPT ![b] = (memory[b] % 2^c) + (Half(x) % 2^(8 - c)) * 2^c]
    BY DEF MStore, Stored
<1>5. Loaded(k)' = memory'[h] \div 2^j /\ Loaded(k) = memory[h] \div 2^j
    BY DEF Loaded
<1> HIDE DEF a, x
<1>6. b \in 0..(MemBytes - 1) /\ c \in 0..7 /\ a = 8 * b + c
    BY <1>1, <1>3
<1>7. h \in 0..(MemBytes - 1) /\ j \in 0..7 /\ k = 8 * h + j
    BY <1>1
<1> HIDE DEF b, c, h, j
<1>8. Half(x) % 2^(8 - c) = low /\ low \in Nat
    <2>1. 8 - c \in 0..8 /\ 8 - c \in Nat
        BY <1>6
    <2>2. 2^(8 - c) \in Nat \ {0}
        BY <2>1, PowerOfTwo
    <2>3. Half(x) % 2^(8 - c) = low
        BY <1>2, <2>1, RestOfHalf
    <2> DEFINE m == 2^(8 - c)
    <2>4. m \in Nat \ {0}
        BY <2>2
    <2> HIDE DEF m
    <2>5. x % m \in Nat
        BY <1>2, <2>4, Division
    <2> QED BY <2>3, <2>5 DEF m, low
<1>9. memory' = [memory EXCEPT ![b] = n] /\ memory[b] \in 0..255
    BY <1>1, <1>4, <1>6, <1>8
<1> HIDE DEF low
<1>10. CASE h = b
    <2>1. memory'[h] = n
        BY <1>1, <1>6, <1>9, <1>10
    <2>2. /\ j >= c => n \div 2^j = low \div 2^(j - c)
          /\ j < c => (n \div 2^j) % 2^(c - j) = (memory[b] \div 2^j) % 2^(c - j)
        BY <1>6, <1>7, <1>8, <1>9, StoredThenLoaded
    <2> HIDE DEF n
    <2>3. k - a = j - c /\ a - k = c - j /\ (k >= a <=> j >= c) /\ (j < c <=> ~(j >= c))
        BY <1>6, <1>7, <1>10
    <2>4. IF k >= a THEN Loaded(k)' = low \div 2^(k - a)
          ELSE Loaded(k)' % 2^(a - k) = Loaded(k) % 2^(a - k)
        BY <1>5, <1>10, <2>1, <2>2, <2>3
    <2> QED BY <1>10, <2>4 DEF a, b, c, h, x, low
<1>11. CASE h # b
    <2> HIDE DEF n
    <2>1. memory'[h] = memory[h]
        BY <1>1, <1>6, <1>7, <1>9, <1>11
    <2>2. Loaded(k)' = Loaded(k)
        BY <1>5, <2>1
    <2> QED BY <1>11, <2>2 DEF a, b, h
<1> QED BY <1>10, <1>11

(* What MLOAD reads is what MSTORE and MSTORE8 wrote: a load at the        *)
(* address of a store gives the value's bits as far as the byte goes, and  *)
(* the bits before the address and the other bytes are read as before.     *)
THEOREM LoadsFollowStores == Spec => LoadsWhatWasStored
<1> DEFINE a == Item(2)
           low == Item(1) % 2^(8 - (a % 8))
           P == Fetches({Op.MSTORE, Op.MSTORE8}) /\ status' = "run"
                    => \A k \in 0..(8 * MemBytes - 1) :
                          IF k \div 8 # a \div 8 THEN Loaded(k)' = Loaded(k)
                          ELSE IF k >= a THEN Loaded(k)' = low \div 2^(k - a)
                          ELSE Loaded(k)' % 2^(a - k) = Loaded(k) % 2^(a - k)
<1>1. TypeOK /\ [Next]_vars => [P]_vars
    <2> SUFFICES ASSUME TypeOK, Next, Fetches({Op.MSTORE, Op.MSTORE8}), status' = "run",
                        NEW k \in 0..(8 * MemBytes - 1)
                 PROVE  IF k \div 8 # a \div 8 THEN Loaded(k)' = Loaded(k)
                        ELSE IF k >= a THEN Loaded(k)' = low \div 2^(k - a)
                        ELSE Loaded(k)' % 2^(a - k) = Loaded(k) % 2^(a - k)
        BY DEF vars
    <2>1. Opcode \in {Op.MSTORE, Op.MSTORE8} /\ status = "run" /\ pc < Len(code)
        BY DEF Fetches
    <2>2. pc \in Nat /\ Len(code) \in Nat
        BY DEF TypeOK
    <2>3. CASE MStore
        <3>1. Addressable(Item(2))
            BY <2>3 DEF MStore, Returns
        <3> QED BY <2>3, <3>1, StoreThenLoad
    <2>4. CASE Stop \/ NoOp \/ Calculate \/ PopItem \/ PushOwn \/ PushBytes \/ Dup \/ Swap
               \/ MLoad \/ Log \/ SLoad \/ SStore \/ Strays \/ Jump \/ JumpIf
        <3>1. Opcode \in {Op.STOP, Op.POP, Op.MLOAD, Op.SLOAD, Op.SSTORE, Op.JUMP, Op.JUMPI}
                         \cup NoOps \cup Own \cup Pushes \cup Dups \cup Swaps \cup Logs
                         \cup Calculations
            BY <2>4 DEF Stop, NoOp, Calculate, PopItem, PushOwn, PushBytes, Dup, Swap, MLoad,
                        Log, SLoad, SStore, Strays, Jump, JumpIf, Fetches
        <3> QED BY <2>1, <3>1, StoresApart
    <2>5. CASE Finish \/ Exits \/ Execute \/ Clear
        BY <2>1, <2>2, <2>5 DEF Finish, Exits, Execute, Clear
    <2> QED BY <2>3, <2>4, <2>5 DEF Next, Step
<1>2. TypeOK /\ [Next]_vars => [P]_vars
    BY <1>1
<1> QED BY <1>2, TypeCorrect, PTL DEF Spec, LoadsWhatWasStored

-----------------------------------------------------------------------------
(***************************************************************************)
(* What calculates follows the table.                                      *)
(***************************************************************************)
(* What calculates does nothing else: no other action takes its opcodes.   *)
LEMMA CalculationsApart ==
    Calculations \cap ({Op.STOP, Op.POP, Op.MLOAD, Op.MSTORE, Op.MSTORE8, Op.SLOAD, Op.SSTORE,
                        Op.JUMP, Op.JUMPI} \cup NoOps \cup Own \cup Pushes \cup Dups \cup Swaps
                       \cup Logs) = {}
BY DEF Calculations, Unary, Binary, Ternary, Op, NoOps, Own, Pushes, Dups, Swaps, Logs

(* The result on the stack is what the table asks for.                     *)
LEMMA CalculateFollows ==
    ASSUME TypeOK, Calculate, Plain(Opcode, [i \in 1..Pops(Opcode) |-> Item(i)])
    PROVE  Follows(Opcode, [i \in 1..Pops(Opcode) |-> Item(i)], data'[top'])
<1> DEFINE s == [i \in 1..Pops(Opcode) |-> Item(i)]
<1>1. Opcode \in Calculations /\ Needs(Opcode) <= top + 1
    BY DEF Calculate, Fetches
<1>2. Bounded /\ WordsHeld /\ top \in Int /\ top \in -1..(StackSize - 1) /\ StackSize \in Nat
    BY SizesAssumption DEF TypeOK, WordsHeld, Bounded
<1>3. Pops(Opcode) \in 1..3 /\ Pops(Opcode) <= top + 1
    <2>1. Pops(Opcode) \in 1..3 /\ Opcode \in Int
        BY <1>1, Takes
    <2>2. Needs(Opcode) \in Nat /\ Pops(Opcode) <= Needs(Opcode)
        BY <2>1, Counts
    <2> QED BY <1>1, <1>2, <2>1, <2>2
<1>4. s \in [1..Pops(Opcode) -> Word]
    <2>1. \A i \in 1..Pops(Opcode) : Item(i) \in Word
        BY <1>2, <1>3, ItemTyped
    <2> QED BY <2>1
<1>5. PICK w \in Word : Outcome = <<w>> /\ data' = [data EXCEPT ![top + 1 - Pops(Opcode)] = w]
    BY <1>2, CalculateWords
<1>6. Compute(Opcode, s) = <<w>>
    BY <1>5 DEF Outcome
<1>7. data'[top'] = w
    <2>1. top' = top + 1 - Pops(Opcode)
        BY DEF Calculate
    <2>2. top + 1 - Pops(Opcode) \in 0..(StackSize - 1)
        BY <1>2, <1>3
    <2> QED BY <1>2, <1>5, <2>1, <2>2 DEF Bounded
<1> HIDE DEF s
<1>8. Plain(Opcode, s)
    BY DEF s
<1> QED BY <1>1, <1>4, <1>6, <1>7, <1>8, ComputeFollows DEF s

(* For words of any size, every instruction that calculates, but BYTE and  *)
(* SIGNEXTEND, leaves on plain operands what the table of instructions     *)
(* asks for, also with the detours the code takes: SDIV and SMOD by        *)
(* negated dividends, EXP by squaring, and with signed words for the       *)
(* table's uints as long as no operand has the sign bit.                   *)
THEOREM FollowsTheTable == Spec => FollowsTable
<1> DEFINE s == [i \in 1..Pops(Opcode) |-> Item(i)]
           P == Fetches(Calculations) /\ Plain(Opcode, s) /\ status' = "run"
                    => Follows(Opcode, s, data'[top'])
<1>1. TypeOK /\ [Next]_vars => [P]_vars
    <2> SUFFICES ASSUME TypeOK, Next, Fetches(Calculations), Plain(Opcode, s), status' = "run"
                 PROVE  Follows(Opcode, s, data'[top'])
        BY DEF vars
    <2>1. Opcode \in Calculations /\ status = "run" /\ pc < Len(code)
        BY DEF Fetches
    <2>2. pc \in Nat /\ Len(code) \in Nat
        BY DEF TypeOK
    <2>3. CASE Calculate
        BY <2>3, CalculateFollows
    <2>4. CASE Stop \/ NoOp \/ PopItem \/ PushOwn \/ PushBytes \/ Dup \/ Swap
               \/ MLoad \/ MStore \/ Log \/ SLoad \/ SStore \/ Strays \/ Jump \/ JumpIf
        <3>1. Opcode \in {Op.STOP, Op.POP, Op.MLOAD, Op.MSTORE, Op.MSTORE8, Op.SLOAD, Op.SSTORE,
                          Op.JUMP, Op.JUMPI} \cup NoOps \cup Own \cup Pushes \cup Dups
                         \cup Swaps \cup Logs
            BY <2>4 DEF Stop, NoOp, PopItem, PushOwn, PushBytes, Dup, Swap, MLoad, MStore, Log,
                        SLoad, SStore, Strays, Jump, JumpIf, Fetches
        <3> QED BY <2>1, <3>1, CalculationsApart
    <2>5. CASE Finish \/ Exits \/ Execute \/ Clear
        BY <2>1, <2>2, <2>5 DEF Finish, Exits, Execute, Clear
    <2> QED BY <2>3, <2>4, <2>5 DEF Next, Step
<1> QED BY <1>1, TypeCorrect, PTL DEF Spec, FollowsTable

-----------------------------------------------------------------------------
(***************************************************************************)
(* Why a program that makes no jump ends.                                  *)
(***************************************************************************)
GoesOn == status = "run" /\ status' = "run" => code' = code /\ (pc' > pc \/ IsDest(pc'))

(* While a call runs, every step takes pc forward or to a JUMPDEST: no two *)
(* visits of JUMPDESTs lie further apart than the code is long, and code   *)
(* without one is left after as many steps.  What OnlyJumpsLoop says of    *)
(* fair runs rests on this (vm.c, lines 712-743 and 869-871).              *)
THEOREM OnlyJumpsGoBack == Spec => [][GoesOn]_vars
<1>1. TypeOK /\ [Next]_vars => [GoesOn]_vars
    <2> SUFFICES ASSUME TypeOK, Next, status = "run", status' = "run"
                 PROVE  code' = code /\ (pc' > pc \/ IsDest(pc'))
        BY DEF vars, GoesOn
    <2>1. pc \in Nat
        BY DEF TypeOK
    <2>2. CASE NoOp \/ Calculate \/ PopItem \/ PushOwn \/ Dup \/ Swap \/ Log \/ SLoad \/ SStore
        <3>1. Goto(pc + 1)
            <4>1. CASE NoOp \/ Calculate \/ PopItem \/ Swap \/ Log \/ SLoad \/ SStore
                BY <4>1 DEF NoOp, Calculate, PopItem, Swap, Log, SLoad, SStore
            <4>2. CASE PushOwn \/ Dup
                BY <4>2, Zenon DEF PushOwn, Dup
            <4> QED BY <2>2, <4>1, <4>2
        <3> QED BY <2>1, <3>1 DEF Goto
    <2>3. CASE PushBytes
        <3>1. PushWidth(Opcode) \in Nat
            <4>1. Opcode \in Pushes
                BY <2>3 DEF PushBytes, Fetches
            <4> QED BY <4>1 DEF Pushes, PushWidth
        <3>2. pc' = pc + 1 + PushWidth(Opcode) /\ code' = code
            BY <2>3 DEF PushBytes, Goto
        <3> QED BY <2>1, <3>1, <3>2
    <2>4. CASE MLoad \/ MStore
        BY <2>1, <2>4 DEF MLoad, MStore, Goto, Returns
    <2>5. CASE Jump \/ JumpIf
        <3>1. \A a : JumpTo(a) => code' = code /\ IsDest(pc')
            BY DEF JumpTo, Goto, Returns
        <3> QED BY <2>1, <2>5, <3>1 DEF Jump, JumpIf, Goto
    <2>6. CASE Stop \/ Strays \/ Finish \/ Exits
        BY <2>6 DEF Stop, Strays, Finish, Exits, Returns
    <2>7. CASE Execute \/ Clear
        BY <2>7 DEF Execute, Clear
    <2> QED BY <2>2, <2>3, <2>4, <2>5, <2>6, <2>7 DEF Next, Step
<1> QED BY <1>1, TypeCorrect, PTL DEF Spec
=============================================================================
