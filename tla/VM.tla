--------------------------------- MODULE VM ---------------------------------
(***************************************************************************)
(* The bytecode machine of the smart contract platform (vm.c): one stack,  *)
(* memory and storage, and execute_bytecode called on them again and again *)
(* with one piece of code after another.                                   *)
(*                                                                         *)
(* Words are signed numbers of WordBits bits (64 in the code), and wrap    *)
(* around as the build makes them do: no optimisation, shift counts taken  *)
(* modulo the width.  From SIGNEXTEND on, the operand the code calls b is  *)
(* a second variable of that name with HalfBits bits and no sign (32).     *)
(***************************************************************************)
EXTENDS Integers, Sequences, FiniteSetsExt

CONSTANTS
    WordBits,   \* the bits of int64_t, scaled down
    HalfBits,   \* the bits of uint32_t, scaled down
    StackSize,  \* the argument of stack_create
    MemBytes,   \* memory->size, scaled down
    Base,       \* the address malloc returned for memory->data
    Slots,      \* the entries of storage
    Null,       \* a NULL pointer in storage
    Junk,       \* bytes of memory that nothing has written
    Codes,      \* pieces of bytecode
    Starts,     \* of each, the offsets its instructions start at
    Scripts     \* the calls a program like main makes, in order

\* execute_bytecode(code, sizeof code, stack), or stack_clear(stack), which has no code.
Calls == [call : {"execute", "clear"}, code : Codes]

PushWidth(byte) == IF byte \in \h60..\h7f THEN byte - \h5f ELSE 0

\* As in the code: a byte fits the second b, the second b fits the word, and it can
\* count the bits of a word, the items of the stack and the bits of memory.
ASSUME SizesAssumption ==
    /\ WordBits \in Nat /\ HalfBits \in 8..(WordBits - 1)
    /\ WordBits <= 2^HalfBits
    /\ StackSize \in 1..2^HalfBits
    /\ MemBytes \in Nat \ {0} /\ 8 * MemBytes < 2^HalfBits
    /\ Base \in Nat \ {0} /\ Base + MemBytes < 2^WordBits
    /\ Slots \in Nat
    /\ Junk \subseteq 0..255 /\ Junk # {}

ASSUME ScriptsAssumption ==
    Codes \subseteq Seq(0..255) /\ <<>> \in Codes /\ Scripts \subseteq Seq(Calls)

\* Instructions follow one another: the next starts behind the bytes it pushes.
ASSUME StartsAssumption ==
    \A c \in Codes :
        /\ Starts[c] \subseteq Nat /\ 0 \in Starts[c]
        /\ \A p \in Starts[c] :
              p < Len(c) => p + 1 + PushWidth(c[p + 1]) \in Starts[c]

VARIABLES
    script,     \* the calls main has still to make
    code, pc,   \* bytecode, and the offset of pc in it
    top, data,  \* the stack
    memory,
    storage,    \* the word each slot points to
    status,     \* idle between calls, run in one, ended, or astray: see Strays
    result      \* what the last call returned

vars == <<script, code, pc, top, data, memory, storage, status, result>>

-----------------------------------------------------------------------------
(***************************************************************************)
(* Words.                                                                  *)
(***************************************************************************)
Least == -(2^(WordBits - 1))
Word == Least..(2^(WordBits - 1) - 1)
Wrap(x) == ((x - Least) % 2^WordBits) + Least

\* The second variable b: (uint32_t)x.
Half(x) == x % 2^HalfBits

Bit(x, i) == (x \div 2^i) % 2

\* The word whose bit i is b[i].
OfBits(b) ==
    LET low[n \in 0..WordBits] == IF n = 0 THEN 0 ELSE low[n - 1] + b[n - 1] * 2^(n - 1)
    IN  Wrap(low[WordBits])

Flag(b) == IF b THEN 1 ELSE 0
Abs(x) == IF x < 0 THEN -x ELSE x

\* a / b and a % b of C.
Quotient(a, b) == LET q == Abs(a) \div Abs(b) IN IF (a < 0) = (b < 0) THEN q ELSE -q
Remainder(a, b) == a - b * Quotient(a, b)

\* idiv raises SIGFPE for the one quotient that is no word, also for a % b.
Divides(a, b) == b # 0 /\ ~(a = Least /\ b = -1)

\* (a ^ b) < 0 && a % b != 0
MixedSigns(a, b) == (a < 0) # (b < 0) /\ Remainder(a, b) # 0

SDiv(a, b) == IF MixedSigns(a, b)
              THEN -Quotient(Wrap(-(a - Remainder(a, b))), b)
              ELSE Quotient(a, b)
\* Fault: the dividend is not negated.
SModKeepsSign(a, b) == IF MixedSigns(a, b)
                       THEN Quotient(a, b) * b + a
                       ELSE Remainder(a, b)

SMod(a, b) == IF MixedSigns(a, b)
              THEN Quotient(Wrap(-a), b) * b + a
              ELSE Remainder(a, b)

\* The loop of EXP with exponent e, result r and base a: the result, or nothing when
\* a product looks like an overflow.
Power[e \in Nat] ==
    [s \in Word \X Word |->
        LET r == s[1]
            a == s[2]
            product == IF e % 2 = 1 THEN Wrap(r * a) ELSE r
            square == Wrap(a * a)
        IN  IF e = 0 THEN <<r>>
            ELSE IF (e % 2 = 1 /\ product < a) \/ square < 1 THEN <<>>
            ELSE Power[e \div 2][<<product, square>>]]

\* a << n and a >> n as the processor does them.
ShiftLeft(a, n) == Wrap(a * 2^(n % WordBits))
ShiftRight(a, n) == a \div 2^(n % WordBits)

\* The thresholds of the code, 32, 255 and 63, scaled with the word.
ByteLimit == WordBits \div 2
ShiftLimit == 4 * WordBits - 1

-----------------------------------------------------------------------------
(***************************************************************************)
(* The instructions.                                                       *)
(***************************************************************************)
Op == [STOP |-> \h00, ADD |-> \h01, MUL |-> \h02, SUB |-> \h03, DIV |-> \h04,
       SDIV |-> \h05, MOD |-> \h06, SMOD |-> \h07, ADDMOD |-> \h08, MULMOD |-> \h09,
       EXP |-> \h0a, SIGNEXTEND |-> \h0b, LT |-> \h10, GT |-> \h11, SLT |-> \h12,
       SGT |-> \h13, EQ |-> \h14, ISZERO |-> \h15, AND |-> \h16, OR |-> \h17,
       XOR |-> \h18, NOT |-> \h19, BYTE |-> \h1a, SHL |-> \h1b, SHR |-> \h1c,
       SAR |-> \h1d, BALANCE |-> \h31, POP |-> \h50, MLOAD |-> \h51, MSTORE |-> \h52,
       MSTORE8 |-> \h53, SLOAD |-> \h54, SSTORE |-> \h55, JUMP |-> \h56,
       JUMPI |-> \h57, PC |-> \h58, MSIZE |-> \h59, JUMPDEST |-> \h5b, PUSH0 |-> \h5f]

Unary == {Op.ISZERO, Op.NOT}
Ternary == {Op.ADDMOD, Op.MULMOD}
Binary == (Op.ADD..Op.SMOD) \cup {Op.EXP, Op.SIGNEXTEND} \cup ((Op.LT..Op.SAR) \ Unary)
Calculations == Unary \cup Binary \cup Ternary
Dups == \h80..\h8f
Swaps == \h90..\h9f
Logs == \ha0..\ha4
Pushes == \h60..\h7f
Own == {Op.PUSH0, Op.PC, Op.MSIZE}

\* JUMPDEST, GAS, the hash, and what deals with blockchain or calls: no effect yet.
NoOps == {\h1e, \h5a, Op.JUMPDEST} \cup (\h30..\h48) \cup (\hf0..\hf5)
            \cup {\hfa, \hfd, \hfe, \hff}

\* The items an instruction pops, and those it must find: SIGNEXTEND asks for one
\* more than it pops, BALANCE for one it leaves alone.
Pops(op) ==
    CASE op \in Binary \cup {Op.MSTORE, Op.MSTORE8, Op.SSTORE, Op.JUMPI} -> 2
      [] op \in Unary \cup {Op.POP, Op.MLOAD, Op.SLOAD, Op.JUMP} -> 1
      [] op \in Ternary -> 3
      [] op \in Logs -> 2 + (op - \ha0)
      [] OTHER -> 0

Needs(op) ==
    CASE op = Op.SIGNEXTEND -> 3
      [] op = Op.BALANCE -> 1
      [] op \in Dups -> op - \h7f
      [] op \in Swaps -> op - \h8f + 1
      [] OTHER -> Pops(op)

\* Fault: room is asked for the one item DUP and PUSH are to add.
GrowsByOne(op) == IF op \in Own \cup Dups \cup Pushes THEN 1 ELSE 0

\* The items it pushes beyond those it pops.  DUPx pushes x items, not one, and
\* PUSHx the x bytes one by one.
Grows(op) ==
    CASE op \in Own -> 1
      [] op \in Dups -> op - \h7f
      [] OTHER -> PushWidth(op)

\* What op makes of the items s, the first popped first; nothing where the program
\* exits or is killed.  y is the code's a except where the code pops a first.
Compute(op, s) ==
    LET x == s[1]
        y == s[2]
        Of(v) == <<Wrap(v)>>
        When(c, v) == IF c THEN <<Wrap(v)>> ELSE <<>>
        Bitwise(bit(_, _)) ==
            <<OfBits([i \in 0..(WordBits - 1) |-> bit(Bit(x, i), Bit(Half(y), i))])>>
    IN  CASE op = Op.ADD -> Of(y + x)
          [] op = Op.MUL -> Of(y * x)
          [] op = Op.SUB -> Of(y - x)
          [] op = Op.DIV -> When(Divides(y, x), Quotient(y, x))
          [] op = Op.SDIV -> When(Divides(y, x), SDiv(y, x))
          [] op = Op.MOD -> When(Divides(y, x), Remainder(y, x))
          [] op = Op.SMOD -> When(Divides(y, x), SMod(y, x))
          [] op = Op.ADDMOD -> When(Divides(Wrap(s[3] + y), x), Remainder(Wrap(s[3] + y), x))
          [] op = Op.MULMOD -> When(Divides(Wrap(s[3] * y), x), Remainder(Wrap(s[3] * y), x))
          [] op = Op.EXP -> Power[IF x < 0 THEN 0 ELSE x][<<1, y>>]
          [] op = Op.SIGNEXTEND ->
                Of(IF Bit(x, HalfBits - 1) = 1 THEN y % 2^(Half(x) % HalfBits) ELSE y)
          [] op \in {Op.LT, Op.SLT} -> Of(Flag(y < Half(x)))
          [] op \in {Op.GT, Op.SGT} -> Of(Flag(y > Half(x)))
          [] op = Op.EQ -> Of(Flag(x = Half(y)))
          [] op = Op.ISZERO -> Of(Flag(x = 0))
          [] op = Op.NOT -> Of(-x - 1)
          [] op = Op.AND -> Bitwise(LAMBDA p, q : p * q)
          [] op = Op.OR -> Bitwise(LAMBDA p, q : Flag(p + q > 0))
          [] op = Op.XOR -> Bitwise(LAMBDA p, q : (p + q) % 2)
          [] op = Op.BYTE -> When(Half(x) < ByteLimit, ShiftRight(y, 8 * Half(x)) % 256)
          [] op = Op.SHL -> Of(IF Half(x) > ShiftLimit THEN 0 ELSE ShiftLeft(y, Half(x)))
          [] op = Op.SHR -> Of(IF Half(x) > ShiftLimit THEN 0 ELSE ShiftRight(y, Half(x)))
          [] op = Op.SAR -> Of(IF Half(x) > WordBits - 1
                               THEN IF y < 0 THEN Least ELSE 0
                               ELSE ShiftRight(y, Half(x)))

Known == Calculations \cup Pushes \cup Own \cup Dups \cup Swaps \cup Logs \cup NoOps
            \cup {Op.STOP, Op.POP, Op.MLOAD, Op.MSTORE, Op.MSTORE8,
                  Op.SLOAD, Op.SSTORE, Op.JUMP, Op.JUMPI}

-----------------------------------------------------------------------------
(***************************************************************************)
(* execute_bytecode: one action per kind of instruction.                   *)
(***************************************************************************)
Opcode == code[pc + 1]
Item(i) == data[top + 1 - i]

Fetches(ops) ==
    /\ status = "run" /\ pc < Len(code) /\ Opcode \in ops
    /\ Needs(Opcode) <= top + 1 /\ top + Grows(Opcode) < StackSize

Goto(p) == pc' = p /\ UNCHANGED <<script, code, status, result>>

Returns(v) ==
    /\ status' = "idle" /\ result' = v
    /\ UNCHANGED <<script, code, pc>>

\* Pushes n items, the i-th of them v(i).
Push(n, v(_)) ==
    /\ top' = top + n
    /\ data' = [k \in 0..(StackSize - 1) |->
                   IF k \in (top + 1)..(top + n) THEN v(k - top) ELSE data[k]]

Stop ==
    /\ Fetches({Op.STOP})
    /\ Returns(top)
    /\ UNCHANGED <<top, data, memory, storage>>

NoOp ==
    /\ Fetches(NoOps)
    /\ Goto(pc + 1)
    /\ UNCHANGED <<top, data, memory, storage>>

Outcome == Compute(Opcode, [i \in 1..Pops(Opcode) |-> Item(i)])

Calculate ==
    /\ Fetches(Calculations)
    /\ Outcome # <<>>
    /\ top' = top + 1 - Pops(Opcode)
    /\ data' = [data EXCEPT ![top + 1 - Pops(Opcode)] = Outcome[1]]
    /\ Goto(pc + 1)
    /\ UNCHANGED <<memory, storage>>

PopItem ==
    /\ Fetches({Op.POP})
    /\ top' = top - 1
    /\ Goto(pc + 1)
    /\ UNCHANGED <<data, memory, storage>>

\* The position is the one behind the instruction; the size of memory is in bits.
PushOwn ==
    /\ Fetches(Own)
    /\ Push(1, LAMBDA i : CASE Opcode = Op.PUSH0 -> 0
                            [] Opcode = Op.PC -> Wrap(pc + 1)
                            [] Opcode = Op.MSIZE -> 8 * MemBytes)
    /\ Goto(pc + 1)
    /\ UNCHANGED <<memory, storage>>

\* Nothing stops the bytes from being read past the end of the code.
PushBytes ==
    /\ Fetches(Pushes)
    /\ LET n == PushWidth(Opcode)
       IN  /\ \E beyond \in [Len(code)..(pc + n) -> Junk] :
                 Push(n, LAMBDA i : IF pc + i < Len(code) THEN code[pc + i + 1]
                                    ELSE beyond[pc + i])
           /\ Goto(pc + 1 + n)
    /\ UNCHANGED <<memory, storage>>

Dup ==
    /\ Fetches(Dups)
    /\ LET x == Opcode - \h7f IN Push(x, LAMBDA i : data[top - x + i])
    /\ Goto(pc + 1)
    /\ UNCHANGED <<memory, storage>>

\* All of the top x + 1 items change their order.
Swap ==
    /\ Fetches(Swaps)
    /\ LET x == Opcode - \h8f
       IN  data' = [k \in 0..(StackSize - 1) |->
                       IF k \in (top - x)..top THEN data[2 * top - x - k] ELSE data[k]]
    /\ Goto(pc + 1)
    /\ UNCHANGED <<top, memory, storage>>

-----------------------------------------------------------------------------
(***************************************************************************)
(* Memory, addressed by bits: an access stays in one byte.                 *)
(***************************************************************************)
Addressable(a) == a \in 0..(8 * MemBytes - 1)

Loaded(a) == memory[a \div 8] \div 2^(a % 8)

\* Fault: the bits below the address are cleared.
StoredOver(a, v) ==
    [memory EXCEPT ![a \div 8] = (v % 2^(8 - (a % 8))) * 2^(a % 8)]

Stored(a, v) ==
    [memory EXCEPT ![a \div 8] = (@ % 2^(a % 8)) + (v % 2^(8 - (a % 8))) * 2^(a % 8)]

MLoad ==
    /\ Fetches({Op.MLOAD})
    /\ IF Addressable(Item(1))
       THEN data' = [data EXCEPT ![top] = Loaded(@)] /\ Goto(pc + 1) /\ UNCHANGED top
       ELSE top' = top - 1 /\ Returns(0) /\ UNCHANGED data
    /\ UNCHANGED <<memory, storage>>

\* MSTORE and MSTORE8 do the same.
MStore ==
    /\ Fetches({Op.MSTORE, Op.MSTORE8})
    /\ top' = top - 2
    /\ IF Addressable(Item(2))
       THEN memory' = Stored(Item(2), Half(Item(1))) /\ Goto(pc + 1)
       ELSE Returns(-1) /\ UNCHANGED memory
    /\ UNCHANGED <<data, storage>>

\* Here offset and size are in bytes, and what is compared are the pointers, which wrap
\* around too: an end before the start is in bounds, and then nothing is read.
InBounds(offset, size) ==
    LET memory_data == (Base + offset) % 2^WordBits
        memory_end == (memory_data + size) % 2^WordBits
    IN  memory_data >= Base /\ memory_end <= Base + MemBytes

Log ==
    /\ Fetches(Logs)
    /\ InBounds(Item(1), Item(2))
    /\ top' = top - Pops(Opcode)
    /\ Goto(pc + 1)
    /\ UNCHANGED <<data, memory, storage>>

-----------------------------------------------------------------------------
(***************************************************************************)
(* Storage.  The key's first byte is the slot; the sum of the others is an *)
(* offset from the one word the slot points to, once it points to any.     *)
(***************************************************************************)
ByteOf(key, j) == (key \div 2^(8 * j)) % 256
Slot(key) == ByteOf(key, WordBits \div 8 - 1)
CellOffset(key) ==
    MapThenSumSet(LAMBDA i : ByteOf(key, (31 - i) % (WordBits \div 8)), 1..31)

Lands(key) == /\ Slot(key) \in 0..(Slots - 1)
              /\ storage[Slot(key)] = Null \/ CellOffset(key) = 0

SLoad ==
    /\ Fetches({Op.SLOAD})
    /\ Lands(Item(1))
    /\ data' = [data EXCEPT ![top] =
                   IF storage[Slot(@)] = Null THEN 0 ELSE storage[Slot(@)]]
    /\ Goto(pc + 1)
    /\ UNCHANGED <<top, memory, storage>>

SStore ==
    /\ Fetches({Op.SSTORE})
    /\ Lands(Item(2))
    /\ storage' = [storage EXCEPT ![Slot(Item(2))] = Half(Item(1))]
    /\ top' = top - 2
    /\ Goto(pc + 1)
    /\ UNCHANGED <<data, memory>>

\* The access is outside the array or the word: what it reads or overwrites is not
\* the machine's, and the model follows the program no further.
Strays ==
    /\ \/ Fetches({Op.SLOAD}) /\ ~Lands(Item(1))
       \/ Fetches({Op.SSTORE}) /\ ~Lands(Item(2))
    /\ status' = "astray"
    /\ UNCHANGED <<script, code, pc, top, data, memory, storage, result>>

-----------------------------------------------------------------------------
(***************************************************************************)
(* Jumps.  Any byte \h5b is taken for a destination, also one inside the   *)
(* bytes of a PUSH.                                                        *)
(***************************************************************************)
IsDest(a) == a \in 0..(Len(code) - 1) /\ code[a + 1] = Op.JUMPDEST

\* Fault: the byte at the destination is not looked at.
JumpAnywhere(a) == IF a \in 0..(Len(code) - 1) THEN Goto(a) ELSE Returns(-1)

JumpTo(a) == IF IsDest(a) THEN Goto(a) ELSE Returns(-1)

Jump ==
    /\ Fetches({Op.JUMP})
    /\ top' = top - 1
    /\ JumpTo(Item(1))
    /\ UNCHANGED <<data, memory, storage>>

JumpIf ==
    /\ Fetches({Op.JUMPI})
    /\ top' = top - 2
    /\ IF Half(Item(1)) # 0 THEN JumpTo(Item(2)) ELSE Goto(pc + 1)
    /\ UNCHANGED <<data, memory, storage>>

-----------------------------------------------------------------------------
\* The end of the code is reached: the top item is the result.
Finish ==
    /\ status = "run" /\ pc >= Len(code) /\ top >= 0
    /\ top' = top - 1
    /\ Returns(data[top])
    /\ UNCHANGED <<data, memory, storage>>

\* exit(1), or SIGFPE.
Exits ==
    /\ status = "run"
    /\ IF pc >= Len(code) THEN top < 0
       ELSE \/ Opcode \notin Known
            \/ ~Fetches(Known)
            \/ Fetches(Calculations) /\ Outcome = <<>>
            \/ Fetches(Logs) /\ ~InBounds(Item(1), Item(2))
    /\ status' = "ended"
    /\ UNCHANGED <<script, code, pc, top, data, memory, storage, result>>

Step ==
    \/ Stop \/ NoOp \/ Calculate \/ PopItem \/ PushOwn \/ PushBytes \/ Dup \/ Swap
    \/ MLoad \/ MStore \/ Log \/ SLoad \/ SStore \/ Strays \/ Jump \/ JumpIf
    \/ Finish \/ Exits

\* main calls execute_bytecode on the stack as the last call left it.
Execute ==
    /\ status = "idle" /\ script # <<>> /\ Head(script).call = "execute"
    /\ script' = Tail(script)
    /\ code' = Head(script).code
    /\ pc' = 0
    /\ status' = "run"
    /\ UNCHANGED <<top, data, memory, storage, result>>

\* stack_clear: memory and storage stay.
Clear ==
    /\ status = "idle" /\ script # <<>> /\ Head(script).call = "clear"
    /\ script' = Tail(script)
    /\ top' = -1
    /\ UNCHANGED <<code, pc, data, memory, storage, status, result>>

\* The words of data above top are never read, so it does not matter what malloc
\* left there; what it left in memory can be.
Init ==
    /\ script \in Scripts
    /\ code = <<>> /\ pc = 0
    /\ top = -1
    /\ data = [k \in 0..(StackSize - 1) |-> 0]
    /\ memory \in [0..(MemBytes - 1) -> Junk]
    /\ storage = [k \in 0..(Slots - 1) |-> Null]
    /\ status = "idle"
    /\ result = 0

Next == Step \/ Execute \/ Clear

Spec == Init /\ [][Next]_vars

\* The program runs on.
FairSpec == Spec /\ WF_vars(Next)

-----------------------------------------------------------------------------
(***************************************************************************)
(* Properties.                                                             *)
(***************************************************************************)
\* The stack keeps its bounds, and all it holds are words.
Bounded == top \in -1..(StackSize - 1) /\ DOMAIN data = 0..(StackSize - 1)

TypeOK ==
    /\ Bounded
    /\ script \in Seq([call : {"execute", "clear"}, code : Seq(0..255)])
    /\ code \in Seq(0..255) /\ pc \in Nat
    /\ \A k \in DOMAIN data : data[k] \in Word
    /\ memory \in [0..(MemBytes - 1) -> 0..255]
    /\ storage \in [0..(Slots - 1) -> 0..(2^HalfBits - 1) \cup {Null}]
    /\ status \in {"idle", "run", "ended", "astray"}
    /\ result \in Word

\* In code whose bytes \h5b are all instructions, pc is at the start of an
\* instruction or behind the code, whatever is jumped to: the bytes a PUSH pushes
\* are never executed.
OnInstruction ==
    /\ status = "run"
    /\ \A a \in 0..(Len(code) - 1) : code[a + 1] = Op.JUMPDEST => a \in Starts[code]
    => pc \in Starts[code]

Congruent(r, v) == (r - v) % 2^WordBits = 0

\* The word x, read as a uint.
Unsigned(x) == x % 2^WordBits

\* y^e as a word.
Raised[e \in Nat] ==
    [y \in Word |->
        LET h == Raised[e \div 2][y]
        IN  IF e = 0 THEN 1 ELSE Wrap(Wrap(h * h) * (IF e % 2 = 1 THEN y ELSE 1))]

\* The operands for which the code follows the table.  Its second b must hold the operand,
\* a shift must be shorter than the word (one of 64 to 255 bits is left to the processor),
\* and a sum or product to divide must be a word.  Where the table has a uint and the code
\* an int64_t, the operands must be the same number as both: for the others DIV, MOD, LT
\* and GT do what SDIV, SMOD, SLT and SGT do, SHR what SAR does, and EXP returns 1.
\* BYTE counts from the right, SIGNEXTEND never extends: they follow it nowhere.
Plain(op, s) ==
    CASE op \in {Op.DIV, Op.MOD} -> s[1] >= 0 /\ s[2] >= 0
      [] op = Op.EXP -> s[1] >= 0
      [] op \in {Op.LT, Op.GT} -> s[1] = Half(s[1]) /\ s[2] >= 0
      [] op \in {Op.SLT, Op.SGT} -> s[1] = Half(s[1])
      [] op \in {Op.EQ, Op.AND, Op.OR, Op.XOR} -> s[2] = Half(s[2])
      [] op \in {Op.SHL, Op.SAR} -> s[1] \in 0..(WordBits - 1)
      [] op = Op.SHR -> s[1] \in 0..(WordBits - 1) /\ s[2] >= 0
      [] op = Op.SMOD -> s[2] # Least
      [] op = Op.ADDMOD -> s[3] + s[2] \in Word
      [] op = Op.MULMOD -> s[3] * s[2] \in Word
      [] op \in {Op.BYTE, Op.SIGNEXTEND} -> FALSE
      [] OTHER -> TRUE

\* r is a / x with its fraction dropped, or what the division of a by x leaves.
Truncates(r, a, x) == /\ Abs(a - r * x) < Abs(x) /\ Abs(r * x) <= Abs(a)
                      /\ (a - r * x) * a >= 0
IsRest(r, a, x) == Abs(r) < Abs(x) /\ r * a >= 0 /\ (a - r) % Abs(x) = 0

\* a shifted by x bits to the right.
IsShifted(r, a, x) == r * 2^x <= a /\ a < (r + 1) * 2^x

\* What the table of instructions (reference_to_implement.txt) asks of a result: of a
\* uint where it says so (DIV, MOD, EXP, LT, GT and the logical SHR), of an int in SDIV,
\* SMOD, SLT, SGT, SAR, and in ADDMOD and MULMOD, which may be either.  The operands are
\* in the order the code takes them.
Follows(op, s, r) ==
    LET x == s[1]
        y == s[2]
        ux == Unsigned(s[1])
        uy == Unsigned(s[2])
        BitIs(i, b) == Bit(r, i) = b
        Bits == 0..(WordBits - 1)
    IN  CASE op = Op.ADD -> Congruent(r, y + x)
          [] op = Op.MUL -> Congruent(r, y * x)
          [] op = Op.SUB -> Congruent(r, y - x)
          [] op = Op.DIV -> Truncates(Unsigned(r), uy, ux)
          [] op = Op.SDIV -> Truncates(r, y, x)
          [] op = Op.MOD -> IsRest(Unsigned(r), uy, ux)
          [] op = Op.SMOD -> IsRest(r, y, x)
          [] op = Op.ADDMOD -> IsRest(r, s[3] + y, x)
          [] op = Op.MULMOD -> IsRest(r, s[3] * y, x)
          [] op = Op.EXP -> r = Raised[ux][y]
          [] op = Op.LT -> r = Flag(uy < ux)
          [] op = Op.SLT -> r = Flag(y < x)
          [] op = Op.GT -> r = Flag(uy > ux)
          [] op = Op.SGT -> r = Flag(y > x)
          [] op = Op.EQ -> r = Flag(x = y)
          [] op = Op.ISZERO -> r = Flag(x = 0)
          [] op = Op.NOT -> \A i \in Bits : Bit(r, i) # Bit(x, i)
          [] op = Op.AND -> \A i \in Bits : BitIs(i, Bit(x, i) * Bit(y, i))
          [] op = Op.OR -> \A i \in Bits : BitIs(i, 1 - (1 - Bit(x, i)) * (1 - Bit(y, i)))
          [] op = Op.XOR -> \A i \in Bits : BitIs(i, Flag(Bit(x, i) # Bit(y, i)))
          [] op = Op.SHL -> Congruent(r, y * 2^x)
          [] op = Op.SHR -> IsShifted(Unsigned(r), uy, x)
          [] op = Op.SAR -> IsShifted(r, y, x)

\* An instruction that calculates leaves what the table of instructions asks for in
\* place of its operands, on the operands that are plain: with the adjustments of SDIV
\* and SMOD, and with the powers EXP finds by squaring when it does not give up.
FollowsTable ==
    [][LET s == [i \in 1..Pops(Opcode) |-> Item(i)]
       IN  Fetches(Calculations) /\ Plain(Opcode, s) /\ status' = "run"
               => Follows(Opcode, s, data'[top'])]_vars

\* What MSTORE and MSTORE8 leave for later MLOADs, of which the code makes bits in one
\* byte, where the table has words and whole bytes: a load at the store's address gives
\* the value's lowest bits, one above it in the byte the rest of them, one below it what
\* it gave in the bits before the address, and one in another byte what it gave.  At the
\* start of a byte this is the table's MSTORE8.
LoadsWhatWasStored ==
    [][LET a == Item(2)
           low == Item(1) % 2^(8 - (a % 8))
       IN  Fetches({Op.MSTORE, Op.MSTORE8}) /\ status' = "run"
               => \A k \in 0..(8 * MemBytes - 1) :
                     IF k \div 8 # a \div 8 THEN Loaded(k)' = Loaded(k)
                     ELSE IF k >= a THEN Loaded(k)' = low \div 2^(k - a)
                     ELSE Loaded(k)' % 2^(a - k) = Loaded(k) % 2^(a - k)]_vars

\* A program that runs forever executes a JUMPDEST again and again: no other
\* instruction can keep it from its end.
OnlyJumpsLoop == []<>(status # "run" \/ (pc < Len(code) /\ Opcode = Op.JUMPDEST))
=============================================================================
