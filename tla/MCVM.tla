-------------------------------- MODULE MCVM --------------------------------
(***************************************************************************)
(* Programs for the machine of VM with words of 16 bits.                   *)
(***************************************************************************)
EXTENDS VM, TLC

RECURSIVE StartsFrom(_, _)
StartsFrom(c, p) ==
    {p} \cup IF p < Len(c) THEN StartsFrom(c, p + 1 + PushWidth(c[p + 1])) ELSE {}

MCJunk == {0, 181}

Execution(c) == [call |-> "execute", code |-> c]
Clearing == [call |-> "clear", code |-> <<>>]

\* Code that leaves the word w on the stack.
Load(w) ==
    CASE w = Least -> <<\h60, 128, \h60, 8, Op.SHL>>
      [] w = -Least - 1 -> <<\h60, 128, \h60, 8, Op.SHL, Op.NOT>>
      [] w \in 0..255 -> <<\h60, w>>
      [] w \in 256..1000 -> <<\h60, w \div 4, \h60, 2, Op.SHL, \h60, w % 4, Op.ADD>>
      [] w \in -256..-1 -> <<\h60, -1 - w, Op.NOT>>

Operands == {Least, -256, -7, -1, 0, 1, 2, 3, 7, 15, 128, 255, 258, -Least - 1}

Calculating ==
    {Load(y) \o Load(x) \o <<op>> : x, y \in Operands, op \in Binary}
        \cup {Load(x) \o <<op>> : x \in Operands, op \in Unary}
        \cup {Load(z) \o Load(y) \o Load(x) \o <<op>> :
                 x \in {-1, 0, 3}, y, z \in Operands, op \in Ternary}
        \cup {Load(z) \o Load(y) \o Load(x) \o <<Op.SIGNEXTEND>> :
                 x \in {3, 128, 131, 255, 258}, y \in {-7, 255}, z \in {1}}

\* Two stores and a load, in one byte or across two.
Storing == {<<\h60, a, \h60, v, op, \h60, b, \h60, 90, Op.MSTORE, \h60, b, Op.MLOAD>> :
               a, b \in {0, 3, 9, 15, 16}, v \in {165, 255}, op \in {Op.MSTORE, Op.MSTORE8}}

Keeping == {Load(k) \o <<\h60, 7, Op.SSTORE>> \o Load(m) \o <<Op.SLOAD>> :
               k, m \in {0, 2, 258, 1000, -1}}

\* Conditions; destinations that are none, inside pushed bytes, behind the code; loops
\* that end and that do not.
Jumping ==
    {<<\h60, d, \h60, c, Op.JUMPI, \h60, 1, Op.JUMPDEST, Op.MSIZE, \h62, 1, 91, 2, Op.PC>> :
        c \in {0, 1}, d \in {0, 6, 7, 10, 14, 200}}
\cup {<<\h60, d, Op.JUMP, \h00, Op.JUMPDEST, \h5a, \h60, 5>> : d \in {3, 4, 7, 8}}
\cup {<<\h60, 0, Op.JUMP>>, <<Op.JUMPDEST, \h60, 0, Op.JUMP>>,
      <<\h60, 3, Op.JUMPDEST, \h60, 1, Op.SUB, \h80, \h60, 2, \h90, Op.JUMPI>>}

\* Underflow, overflow, bytes past the end, unknown opcodes.
Limits ==
    {<<op>> : op \in 0..255}
\cup {<<\h62, 1, 2, 3, op>> : op \in Dups \cup Swaps \cup Logs \cup {\h67, \h31, \h0c, \h50}}
\cup {<<\h63, 9, 8, size, offset, \ha1, \h80>> : size \in {0, 2, 3}, offset \in {0, 1, 2}}
\cup {Load(size) \o Load(offset) \o <<\ha0>> :
          size, offset \in {Least, -7, -1, 0, 2, 3, 1000, -Least - 1}}
\cup {<<\h65, 1, 2, 3, 4, 5, 6, op>> : op \in {\h84, \h85, \h61, \h62, \h63}}

Single == Calculating \cup Storing \cup Keeping \cup Jumping \cup Limits

\* Calls after one another, on what the one before left.
Several ==
    {<<Execution(<<\h62, 5, 6, 7, \h00>>), Execution(c), Execution(<<Op.ADD, op>>)>> :
        c \in Jumping \cup {<<op>> : op \in Swaps \cup Dups}, op \in {Op.ADD, \h00}}
\cup {<<Execution(<<\h62, 1, 2, 7, Op.SSTORE, \h61, 9, 3, Op.MSTORE8, Op.PC>>), Clearing,
        Execution(c)>> : c \in {<<\h60, 9, Op.MLOAD>>, <<\h60, 0, Op.SLOAD>>, <<Op.ADD>>}}

MCScripts == {<<Execution(c)>> : c \in Single} \cup Several

MCCodes == {<<>>} \cup UNION {{s[i].code : i \in 1..Len(s)} : s \in MCScripts}

MCStarts == [c \in MCCodes |-> StartsFrom(c, 0)]
=============================================================================
