---------------------------- MODULE StackBuffer ----------------------------
(***************************************************************************)
(* nets::StackBuffer, the array in which a log line is put together, as    *)
(* LogBufferStream uses it.  A write either fits with a byte to spare for  *)
(* the terminating NUL, or does nothing.  A character is a number: NUL,    *)
(* the digits, and a few others.                                           *)
(***************************************************************************)
EXTENDS Integers, Sequences, SequencesExt

CONSTANTS StackBuffers,          \* buffers of one line each
          SIZE,
          kMaximumNumberLimit,   \* characters of the longest number
          TextLengths, Numbers, Pointers   \* what is written

VARIABLES stack,   \* the buffers: buffer_ and writerIndex_
          text     \* history: what each should hold

stackVars == <<stack, text>>

NUL == 0
Digit(d) == 1 + d   \* kDigits, kHexDigits
LetterX == 17
Minus == 18
Stray == 19         \* a byte from before kDigits
Letter == 20

(* base to the power of n.                                                 *)
Power(base, n) ==
    LET power[i \in 0 .. n] == IF i = 0 THEN 1 ELSE base * power[i - 1]
    IN power[n]

(* Every number has its digits, and "0x" comes before those of a pointer.  *)
ASSUME StackBufferAssumption ==
    /\ SIZE \in Nat \ {0}
    /\ kMaximumNumberLimit \in Nat \ 0 .. 2 /\ TextLengths \subseteq Nat
    /\ Numbers \subseteq -Power(10, kMaximumNumberLimit) .. Power(10, kMaximumNumberLimit) - 1
    /\ Pointers \subseteq 0 .. Power(16, kMaximumNumberLimit - 2) - 1

Nuls(n) == [i \in 1 .. n |-> NUL]
Empty == [buffer |-> Nuls(SIZE), writerIndex |-> 0]

StackInit == /\ stack = [b \in StackBuffers |-> Empty]
             /\ text = [b \in StackBuffers |-> << >>]

stackWritableBytes(b) == SIZE - b.writerIndex
lineOf(b) == SubSeq(b.buffer, 1, b.writerIndex)

StoredOnStack(b, data) ==
    [buffer |-> [i \in 1 .. SIZE |-> IF i - b.writerIndex \in 1 .. Len(data)
                                       THEN data[i - b.writerIndex] ELSE b.buffer[i]],
     writerIndex |-> b.writerIndex + Len(data)]

writeStackBytes(b, data) == IF stackWritableBytes(b) > Len(data) THEN StoredOnStack(b, data) ELSE b

(* The loop of writeInteger() and writePointer(): the digits, the least    *)
(* significant one first.                                                  *)
LastFirst(n, base) ==
    LET digits[v \in 0 .. n] ==
            IF v < base THEN <<Digit(v)>> ELSE <<Digit(v % base)>> \o digits[v \div base]
    IN digits[n]

(* The loop ends after one round for a negative value: its remainder       *)
(* indexes the memory in front of kDigits, and the sign is written only if *)
(* something is left after the division (which rounds towards 0).          *)
writeInteger(b, value) ==
    LET tmp == IF value >= 0 THEN LastFirst(value, 10)
               ELSE IF (-value) \div 10 > 0 THEN <<Stray, Minus>> ELSE <<Stray>>
    IN IF stackWritableBytes(b) > kMaximumNumberLimit THEN StoredOnStack(b, Reverse(tmp)) ELSE b

writePointer(b, value) ==
    IF stackWritableBytes(b) > kMaximumNumberLimit
    THEN StoredOnStack(b, <<Digit(0), LetterX>> \o Reverse(LastFirst(value, 16)))
    ELSE b

-----------------------------------------------------------------------------
(* Digits by place value: as many as are needed, at least one.             *)
Numeral(value, base) ==
    LET enough == {n \in 1 .. kMaximumNumberLimit : value < Power(base, n)}
        places == CHOOSE n \in enough : \A k \in enough : n <= k
    IN [i \in 1 .. places |-> Digit((value \div Power(base, places - i)) % base)]

(* A write puts all of the text it stands for behind the rest, or nothing. *)
Puts(b, after, piece) ==
    /\ stack' = [stack EXCEPT ![b] = after]
    /\ text' = [text EXCEPT ![b] = IF after = stack[b] THEN @ ELSE @ \o piece]

(* char, const char*, String, StringView, float and double.                *)
WriteText(b, n) == LET data == [i \in 1 .. n |-> Letter]
                   IN Puts(b, writeStackBytes(stack[b], data), data)

(* The integer types; nothing is promised for negative values.             *)
WriteInteger(b, value) ==
    LET after == writeInteger(stack[b], value)
    IN Puts(b, after, IF value >= 0 THEN Numeral(value, 10)
                      ELSE SubSeq(after.buffer, stack[b].writerIndex + 1, after.writerIndex))

WritePointer(b, value) ==
    Puts(b, writePointer(stack[b], value), <<Digit(0), LetterX>> \o Numeral(value, 16))

(* A stream written to a stream.                                           *)
WriteStream(b, other) == Puts(b, writeStackBytes(stack[b], lineOf(stack[other])), text[other])

Copied(b) == StoredOnStack(Empty, lineOf(b))

CopyStack(b, other) == /\ stack' = [stack EXCEPT ![b] = Copied(stack[other])]
                       /\ text' = [text EXCEPT ![b] = text[other]]

(* The move constructor clears what the other buffer had written.          *)
MoveStack(b, other) ==
    /\ stack' = [stack EXCEPT
                   ![b] = Copied(stack[other]),
                   ![other] = [buffer |-> [i \in 1 .. SIZE |->
                                             IF i <= @.writerIndex THEN NUL ELSE @.buffer[i]],
                               writerIndex |-> 0]]
    /\ text' = [text EXCEPT ![b] = text[other], ![other] = << >>]

(* A plausible mistake: only the bytes of this buffer are exchanged.       *)
swapShort(a, b) ==
    [i \in 1 .. SIZE |-> IF i <= a.writerIndex THEN b.buffer[i] ELSE a.buffer[i]]

(* The contents of a after a.swap(b) or b.swap(a).                         *)
swap(a, b) ==
    [i \in 1 .. SIZE |-> IF i <= a.writerIndex \/ i <= b.writerIndex
                           THEN b.buffer[i] ELSE a.buffer[i]]

SwapStacks(b, other) ==
    LET x == stack[b]
        y == stack[other]
    IN /\ stack' = [stack EXCEPT ![b] = [buffer |-> swap(x, y), writerIndex |-> y.writerIndex],
                                 ![other] = [buffer |-> swap(y, x), writerIndex |-> x.writerIndex]]
       /\ text' = [text EXCEPT ![b] = text[other], ![other] = text[b]]

StackNext ==
    \E b \in StackBuffers :
        \/ \E n \in TextLengths : WriteText(b, n)
        \/ \E value \in Numbers : WriteInteger(b, value)
        \/ \E value \in Pointers : WritePointer(b, value)
        \/ \E other \in StackBuffers \ {b} : \/ WriteStream(b, other) \/ CopyStack(b, other)
                                             \/ MoveStack(b, other) \/ SwapStacks(b, other)

StackSpec == StackInit /\ [][StackNext]_stackVars

-----------------------------------------------------------------------------
(* A buffer holds whole pieces in the order of the writes, numbers as      *)
(* their decimal or hexadecimal numerals, followed by NUL up to the end of *)
(* the array, at least one (array() is read as a C string), also after     *)
(* copies, moves and swaps.                                                *)
TextIsWhole ==
    \A b \in StackBuffers :
        /\ Len(text[b]) < SIZE
        /\ stack[b].writerIndex = Len(text[b])
        /\ stack[b].buffer = text[b] \o Nuls(SIZE - Len(text[b]))
=============================================================================
