------------------------------ MODULE ByteFifo ------------------------------
(***************************************************************************)
(* What a ByteBuffer promises: a queue of bytes.  Bytes come out once and  *)
(* in the order in which they went in, whatever the sizes of the writes    *)
(* and reads, and whatever the buffer does to its memory.  The bytes that  *)
(* callers write are numbered, so the next write of n bytes brings the     *)
(* numbers produced + 1 .. produced + n.                                   *)
(***************************************************************************)
EXTENDS Integers, Sequences

CONSTANTS Buffers, Base

VARIABLES queue,     \* the readable bytes of each buffer
          produced,  \* bytes written so far
          answer     \* what the last call read

fifoVars == <<queue, produced, answer>>

(* Network order: the first byte is the most significant.                  *)
BigEndian(bytes) ==
    LET sum[i \in 0 .. Len(bytes)] == IF i = 0 THEN 0 ELSE Base * sum[i - 1] + bytes[i]
    IN sum[Len(bytes)]

FifoInit == /\ queue = [b \in Buffers |-> << >>]
            /\ produced = 0
            /\ answer = << >>

Put(b, n) == /\ queue' = [queue EXCEPT ![b] = @ \o [i \in 1 .. n |-> produced + i]]
             /\ produced' = produced + n
             /\ answer' = << >>

(* A buffer is made anew from n bytes.                                     *)
Renew(b, n) == /\ queue' = [queue EXCEPT ![b] = [i \in 1 .. n |-> produced + i]]
               /\ produced' = produced + n
               /\ answer' = << >>

Get(b, n) == /\ queue' = [queue EXCEPT ![b] = SubSeq(@, n + 1, Len(@))]
             /\ LET bytes == SubSeq(queue[b], 1, n)
                IN answer' \in {bytes, <<BigEndian(bytes)>>}
             /\ UNCHANGED produced

Drop(b, n) == /\ queue' = [queue EXCEPT ![b] = SubSeq(@, n + 1, Len(@))]
              /\ UNCHANGED produced /\ answer' = << >>

(* Appending one buffer to another keeps what was there and adds as many   *)
(* bytes as the other holds; which bytes is not promised, because          *)
(* writeByteBuffer() takes them from the wrong offset when the two reader  *)
(* indices differ.                                                         *)
PutOther(b, other) ==
    /\ \A c \in Buffers \ {b} : queue'[c] = queue[c]
    /\ Len(queue'[b]) = Len(queue[b]) + Len(queue[other])
    /\ SubSeq(queue'[b], 1, Len(queue[b])) = queue[b]
    /\ produced' = produced + Len(queue[other])
    /\ answer' = << >>

Copy(b, other) == /\ queue' = [queue EXCEPT ![b] = queue[other]]
                  /\ UNCHANGED produced /\ answer' = << >>

Move(b, other) == /\ queue' = [queue EXCEPT ![b] = queue[other], ![other] = << >>]
                  /\ UNCHANGED produced /\ answer' = << >>

Swap(b, other) == /\ queue' = [queue EXCEPT ![b] = queue[other], ![other] = queue[b]]
                  /\ UNCHANGED produced /\ answer' = << >>

FifoNext ==
    \E b \in Buffers :
        \/ \E n \in 0 .. Len(queue'[b]) : Put(b, n) \/ Renew(b, n)
        \/ \E n \in 0 .. Len(queue[b]) : Get(b, n) \/ Drop(b, n)
        \/ \E other \in Buffers \ {b} :
              PutOther(b, other) \/ Copy(b, other) \/ Move(b, other) \/ Swap(b, other)

FifoSpec == FifoInit /\ [][FifoNext]_fifoVars
=============================================================================
