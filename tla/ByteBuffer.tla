----------------------------- MODULE ByteBuffer -----------------------------
(***************************************************************************)
(* nets::ByteBuffer: an array with a reader and a writer index that is     *)
(* compacted or grown when a write does not fit.  A buffer is a record of  *)
(* the array, whose length is capacity_, and the two indices (counted from *)
(* 0 as in the code; the sequence that models the array starts at 1).      *)
(* The code never looks at the bytes it stores, so the bytes that callers  *)
(* write are numbered 1, 2, 3, ... in the order of the writes; 0 stands    *)
(* for memory that is not between the two indices.                         *)
(***************************************************************************)
EXTENDS Integers, Sequences, SequencesExt

CONSTANTS Buffers,        \* ByteBuffer objects
          Capacities,     \* arguments of the constructor
          kMaxCapacity,
          DataLengths,    \* lengths of raw data written and read
          IntSizes,       \* sizeof of the integer types
          MaxProduced     \* bound on the bytes written

Base == MaxProduced + 1   \* number of values of a byte

ASSUME ByteBufferAssumption ==
    /\ Capacities \subseteq Nat /\ kMaxCapacity \in Nat
    /\ DataLengths \subseteq Nat /\ IntSizes \subseteq Nat \ {0}
    /\ MaxProduced \in Nat

VARIABLES buffers,   \* the objects
          produced,  \* bytes written so far
          answer     \* what the last call read

bufferVars == <<buffers, produced, answer>>

-----------------------------------------------------------------------------
Zeros(n) == [i \in 1 .. n |-> 0]
capacity(b) == Len(b.array)
readableBytes(b) == b.writerIndex - b.readerIndex
writableBytes(b) == capacity(b) - b.writerIndex
discardReadBytes(b) == b.readerIndex
clear(b) == [array |-> Zeros(capacity(b)), readerIndex |-> 0, writerIndex |-> 0]
setReaderIndex(b, index) ==
    [b EXCEPT !.readerIndex = index,
              !.array = [i \in DOMAIN @ |-> IF i <= index THEN 0 ELSE @[i]]]

(* The bytes of the array from offset `from' on, which is not checked.     *)
Memory(b, from, length) ==
    [i \in 1 .. length |-> IF from + i \in DOMAIN b.array THEN b.array[from + i] ELSE 0]

(* data(), toString(): what a reader can see.                              *)
contents(b) == Memory(b, b.readerIndex, readableBytes(b))

Constructed(n) == [array |-> Zeros(n), readerIndex |-> 0, writerIndex |-> 0]

(* The smallest power of 2 that is not less than the target, found by      *)
(* doubling (doubled[k] is newCapacity after k rounds); 0 for 0.           *)
calculateNewCapacity(target) ==
    LET doubled[k \in 0 .. target] == IF k = 0 THEN 1 ELSE 2 * doubled[k - 1]
        enough == {k \in 0 .. target : doubled[k] >= target}
    IN IF target = 0 THEN 0 ELSE doubled[CHOOSE k \in enough : \A j \in enough : k <= j]

(* A plausible mistake: the bytes are taken from the start of the array.   *)
adjustCapacityFromStart(b, newCapacity) ==
    LET content == Memory(b, 0, readableBytes(b))
    IN [array |-> content \o Zeros(newCapacity - Len(content)),
        readerIndex |-> 0, writerIndex |-> Len(content)]

(* The readable bytes are copied to a new array of another size, or moved  *)
(* to the front of the one there is.                                       *)
adjustCapacity(b, newCapacity) ==
    LET content == contents(b)
    IN [array |-> content \o Zeros(newCapacity - Len(content)),
        readerIndex |-> 0, writerIndex |-> Len(content)]

NewCapacity(b, writeLen) ==
    IF capacity(b) = 0
    THEN calculateNewCapacity(writeLen)
    ELSE IF writableBytes(b) + discardReadBytes(b) < writeLen
         THEN calculateNewCapacity(b.writerIndex + writeLen)
         ELSE capacity(b)

(* The case of OutOfMemoryException: an empty buffer is not checked.       *)
OutOfMemory(b, writeLen) ==
    /\ writableBytes(b) < writeLen
    /\ capacity(b) # 0
    /\ NewCapacity(b, writeLen) > kMaxCapacity

ensureWritable(b, writeLen) ==
    IF writableBytes(b) < writeLen
    THEN adjustCapacity(b, NewCapacity(b, writeLen))
    ELSE b

(* memcpy to the writer index.                                             *)
Stored(b, data) ==
    [b EXCEPT !.array = [i \in 1 .. Len(@) |->
                           IF i - b.writerIndex \in 1 .. Len(data)
                           THEN data[i - b.writerIndex] ELSE @[i]],
              !.writerIndex = @ + Len(data)]

writeBytes(b, data) == Stored(ensureWritable(b, Len(data)), data)

(* A buffer that has been read to its end starts over.                     *)
adjustReaderIndex(b, bytes) ==
    IF readableBytes(b) > bytes THEN setReaderIndex(b, b.readerIndex + bytes) ELSE clear(b)

(* Integers: the host keeps the least significant byte first, and          *)
(* htobe16() and be16toh() (and the wider ones) reverse the bytes.         *)
ToMemory(value, size) ==
    LET rest[i \in 1 .. size] == IF i = 1 THEN value ELSE rest[i - 1] \div Base
    IN [i \in 1 .. size |-> rest[i] % Base]
FromMemory(bytes) ==
    LET sum[i \in 0 .. Len(bytes)] ==
            IF i = 0 THEN 0 ELSE Base * sum[i - 1] + Reverse(bytes)[i]
    IN sum[Len(bytes)]
htobe(value, size) == FromMemory(Reverse(ToMemory(value, size)))
betoh(value, size) == htobe(value, size)

-----------------------------------------------------------------------------
BufferInit == /\ buffers = [b \in Buffers |-> Constructed(0)]
              /\ produced = 0
              /\ answer = << >>

Fresh(n) == [i \in 1 .. n |-> produced + i]   \* the next n bytes of callers

Silent == UNCHANGED produced /\ answer' = << >>

Construct(b, n) ==
    /\ buffers' = [buffers EXCEPT ![b] = Constructed(n)]
    /\ Silent

(* ByteBuffer(data, length) starts without an array.                       *)
ConstructFrom(b, n) ==
    /\ produced + n <= MaxProduced
    /\ buffers' = [buffers EXCEPT ![b] = writeBytes(Constructed(0), Fresh(n))]
    /\ produced' = produced + n
    /\ answer' = << >>

(* writeBytes(), writeString(), and the types of one byte and the floating *)
(* point types, whose bytes are stored as they are.                        *)
WriteBytes(b, n) ==
    /\ produced + n <= MaxProduced
    /\ IF OutOfMemory(buffers[b], n)
       THEN UNCHANGED buffers /\ Silent
       ELSE /\ buffers' = [buffers EXCEPT ![b] = writeBytes(@, Fresh(n))]
            /\ produced' = produced + n
            /\ answer' = << >>

(* writeInt16() and so on.  The value is the one whose bytes, most         *)
(* significant first, are the next bytes.                                  *)
WriteInt(b, size) ==
    /\ produced + size <= MaxProduced
    /\ LET value == FromMemory(Reverse(Fresh(size)))
       IN IF OutOfMemory(buffers[b], size)
          THEN UNCHANGED buffers /\ Silent
          ELSE /\ buffers' = [buffers EXCEPT ![b] =
                                  writeBytes(@, ToMemory(htobe(value, size), size))]
               /\ produced' = produced + size
               /\ answer' = << >>

(* writeBytes(channel, length): room for `length' is made, and the system  *)
(* call brings some of it, nothing, or an error.                           *)
WriteFromChannel(b, length) ==
    /\ ~ OutOfMemory(buffers[b], length)
    /\ \E bytes \in 0 .. length :
          /\ produced + bytes <= MaxProduced
          /\ buffers' = [buffers EXCEPT ![b] = Stored(ensureWritable(@, length), Fresh(bytes))]
          /\ produced' = produced + bytes
    /\ answer' = << >>

(* writeByteBuffer(): the source address is computed with this buffer's    *)
(* reader index.  (A buffer is not appended to itself.)                    *)
WriteByteBuffer(b, other) ==
    LET data == Memory(buffers[other], buffers[b].readerIndex, readableBytes(buffers[other]))
    IN /\ produced + Len(data) <= MaxProduced
       /\ ~ OutOfMemory(buffers[b], Len(data))
       /\ buffers' = [buffers EXCEPT ![b] = writeBytes(@, data)]
       /\ produced' = produced + Len(data)
       /\ answer' = << >>

(* checkReadableBytes() throws and nothing is read.                        *)
ReadBytes(b, n) ==
    IF readableBytes(buffers[b]) < n
    THEN UNCHANGED buffers /\ Silent
    ELSE /\ answer' = Memory(buffers[b], buffers[b].readerIndex, n)
         /\ buffers' = [buffers EXCEPT ![b] = adjustReaderIndex(@, n)]
         /\ UNCHANGED produced

ReadInt(b, size) ==
    IF readableBytes(buffers[b]) < size
    THEN UNCHANGED buffers /\ Silent
    ELSE /\ answer' = <<betoh(FromMemory(Memory(buffers[b], buffers[b].readerIndex, size)), size)>>
         /\ buffers' = [buffers EXCEPT ![b] = adjustReaderIndex(@, size)]
         /\ UNCHANGED produced

(* setReaderIndex() as removeSentBuffer() uses it.                         *)
SetReaderIndex(b, n) ==
    /\ n <= readableBytes(buffers[b])
    /\ buffers' = [buffers EXCEPT ![b] = setReaderIndex(@, @.readerIndex + n)]
    /\ Silent

CopyFrom(b, other) ==
    /\ buffers' = [buffers EXCEPT ![b] = buffers[other]]
    /\ Silent

(* The moved-from buffer is left without an array.                         *)
MoveFrom(b, other) ==
    /\ buffers' = [buffers EXCEPT ![b] = buffers[other], ![other] = Constructed(0)]
    /\ Silent

SwapWith(b, other) ==
    /\ buffers' = [buffers EXCEPT ![b] = buffers[other], ![other] = buffers[b]]
    /\ Silent

BufferNext ==
    \E b \in Buffers :
        \/ \E n \in Capacities : Construct(b, n)
        \/ \E n \in DataLengths :
              \/ ConstructFrom(b, n) \/ WriteBytes(b, n) \/ WriteFromChannel(b, n)
              \/ ReadBytes(b, n) \/ SetReaderIndex(b, n)
        \/ \E size \in IntSizes : WriteInt(b, size) \/ ReadInt(b, size)
        \/ \E other \in Buffers \ {b} :
              \/ WriteByteBuffer(b, other) \/ CopyFrom(b, other)
              \/ MoveFrom(b, other) \/ SwapWith(b, other)

BufferSpec == BufferInit /\ [][BufferNext]_bufferVars
-----------------------------------------------------------------------------
(* A ByteBuffer is a queue of bytes: reads return what was written, each   *)
(* byte once and in order, integers in network order, across growth and    *)
(* compaction, copies, moves and swaps.                                    *)
readable == [b \in Buffers |-> contents(buffers[b])]
Fifo == INSTANCE ByteFifo WITH queue <- readable
FifoSpec == Fifo!FifoSpec
=============================================================================
