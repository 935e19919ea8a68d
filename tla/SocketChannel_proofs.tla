------------------------ MODULE SocketChannel_proofs ------------------------
(***************************************************************************)
(* Proofs about SocketChannel, for messages of any number and length, any  *)
(* iovec limit and a kernel that takes any part of them: the connection    *)
(* ends once, the loop's tasks find the channel alive, and, while two      *)
(* calls of ::writev() take the whole buffer, no byte is lost, doubled or  *)
(* moved, completion callbacks tell the truth and a clean end comes after  *)
(* everything is sent.                                                     *)
(***************************************************************************)
EXTENDS SocketChannel, SequenceLemmas, TLAPS

-----------------------------------------------------------------------------
(* The inductive invariant                                                 *)

(* A byte is known by its number, a message by that of its last byte.      *)
Byte == Nat

(* What writeBuffer_ is: blocks that are not empty.  How much room one has *)
(* (free) does not matter here.                                            *)
Blocks(F) == [data : Seq(Byte) \ {<< >>}, free : F]
IsBuffer(s) == \E F : s \in Seq(Blocks(F))

Tasks == {Complete(m) : m \in Byte} \cup {Deregister} \cup {WriteTask(n) : n \in Nat \ {0}}

Writing == [active : BOOLEAN, blocks : Nat, bytes : Nat, error : BOOLEAN]
Socket == [inbound : Nat, eof : BOOLEAN, rdShut : BOOLEAN, wrShut : BOOLEAN, broken : BOOLEAN]

TypeOK == /\ use \in Uses
          /\ state \in {"INACTIVE", "ACTIVE", "HALF_CLOSE"}
          /\ life \in {"new", "alive", "destroyed"}
          /\ phase \in {"poll", "handle", "tasks"}
          /\ IsBuffer(writeBuffer)
          /\ writeCompleteCallbacks \in Seq(Byte)
          /\ written \in Writing
          /\ tasks \in Seq(Tasks) /\ batch \in Seq(Tasks)
          /\ kernel \in Socket
          /\ wire \in Seq(Byte)
          /\ accepted \in Nat
          /\ completed \in Seq(Byte)
          /\ disconnects \in Nat
          /\ userOps \in Nat

(* What holds between the steps of a round of the loop.                    *)
Rounds == /\ phase # "tasks" => batch = << >>
          /\ readyEvents # {} => phase = "handle" /\ life = "alive"
          /\ Quiet => written = Idle
          /\ ~ Quiet => /\ state # "INACTIVE" /\ readyEvents = {}
                        /\ phase = "handle" /\ life = "alive"
          /\ life = "new" => /\ state = "INACTIVE" /\ tasks = << >> /\ batch = << >>
                             /\ writeBuffer = << >> /\ wire = << >> /\ accepted = 0
                             /\ ~ kernel.wrShut

(* The one deregister() in a queue: nothing but writes of other threads    *)
(* comes after it.                                                         *)
NoDeregister(q) == \A i \in 1 .. Len(q) : q[i] # Deregister
OnlyWrites(q) == \A i \in 1 .. Len(q) : q[i].kind = "write"
Ending(q) == \E p \in 1 .. Len(q) :
                 /\ q[p] = Deregister
                 /\ \A i \in 1 .. Len(q) : /\ i < p => q[i] # Deregister
                                           /\ i > p => q[i].kind = "write"

(* The life of a channel whose user calls no shutdown function.            *)
Up == /\ life = "alive" /\ state # "INACTIVE" /\ owned /\ disconnects = 0
      /\ NoDeregister(batch) /\ NoDeregister(tasks)
GoingDown == /\ life = "alive" /\ state = "INACTIVE" /\ owned /\ disconnects = 1
             /\ \/ Ending(batch) /\ OnlyWrites(tasks)
                \/ NoDeregister(batch) /\ Ending(tasks)
Down == /\ state = "INACTIVE" /\ disconnects <= 1 /\ ~ owned
        /\ OnlyWrites(batch) /\ OnlyWrites(tasks)
        /\ life = "new" => disconnects = 0

Ends == userOps = 0 => Up \/ GoingDown \/ Down

(* The completion callbacks are in the order of the messages.              *)
Rising(s) == \A i, j \in 1 .. Len(s) : i < j => s[i] < s[j]
UpTo(s, n) == \A i \in 1 .. Len(s) : s[i] <= n
Before(s, t) == \A i \in 1 .. Len(s), j \in 1 .. Len(t) : s[i] < t[j]

CallbacksInOrder ==
    /\ Rising(completed) /\ Rising(writeCompleteCallbacks)
    /\ UpTo(completed, accepted) /\ UpTo(writeCompleteCallbacks, accepted)
    /\ Before(completed, writeCompleteCallbacks)
    /\ writeBuffer = << >> /\ CanSend => writeCompleteCallbacks = << >>

(* Every byte is counted, whatever writev() makes of the blocks.           *)
WrittenFits == /\ written.blocks <= Len(writeBuffer)
               /\ written.bytes <= Len(Iov(1, written.blocks))

Counted ==
    userOps = 0 =>
        /\ state # "INACTIVE" =>
              /\ ~ kernel.wrShut
              /\ "error" \in readyEvents \/ written.error => kernel.broken
              /\ Len(wire) + Len(BytesIn(writeBuffer)) = accepted + written.bytes
        /\ state = "INACTIVE" /\ ~ kernel.broken => Len(wire) = accepted
        /\ UpTo(completed, Len(wire))

IInv == TypeOK /\ Rounds /\ Ends /\ CallbacksInOrder /\ WrittenFits /\ Counted

(* The bytes themselves, while two calls of ::writev() take all blocks     *)
(* (see ExpectedWriteLen for what happens with more): a call begins where  *)
(* the one before has ended.                                               *)
FewBlocks == Len(writeBuffer) <= 2 * use.kMaxCountOfWriteVOnce

Drop(s, n) == SubSeq(s, n + 1, Len(s))

InOrder ==
    userOps = 0 /\ state # "INACTIVE" =>
        /\ written.blocks # Len(writeBuffer) =>
              /\ written.blocks \in {0, use.kMaxCountOfWriteVOnce}
              /\ written.bytes = Len(Iov(1, written.blocks))
        /\ wire \o Drop(BytesIn(writeBuffer), written.bytes) = Bytes(1, accepted)

-----------------------------------------------------------------------------
(* The bytes in a sequence of blocks                                       *)

LEMMA DatasAre ==
    ASSUME NEW F, NEW s \in Seq(Blocks(F))
    PROVE  [i \in 1 .. Len(s) |-> s[i].data] \in Seq(Seq(Byte))
  <1>1. Len(s) \in Nat /\ \A i \in 1 .. Len(s) : s[i] \in Blocks(F)
    BY LenProperties, ElementOfSeq
  <1>2. \A i \in 1 .. Len(s) : s[i].data \in Seq(Byte)
    BY <1>1 DEF Blocks
  <1> QED
    BY <1>1, <1>2, IsASeq

LEMMA NoBytes ==
    BytesIn(<< >>) = << >>
  <1>1. [i \in 1 .. Len(<< >>) |-> << >>[i].data] = << >>
    OBVIOUS
  <1> QED
    BY <1>1 DEF BytesIn, FlattenSeq

LEMMA BytesAppend ==
    ASSUME NEW F, NEW s \in Seq(Blocks(F)), NEW b \in Blocks(F)
    PROVE  /\ BytesIn(s) \in Seq(Byte)
           /\ BytesIn(Append(s, b)) = BytesIn(s) \o b.data
  <1> PICK d : d = [i \in 1 .. Len(s) |-> s[i].data]
    OBVIOUS
  <1> PICK t : t = Append(s, b)
    OBVIOUS
  <1> PICK e : e = [i \in 1 .. Len(t) |-> t[i].data]
    OBVIOUS
  <1> PICK x : x = b.data
    OBVIOUS
  <1>1. x \in Seq(Byte)
    BY DEF Blocks
  <1>2. d \in Seq(Seq(Byte)) /\ Len(d) = Len(s) /\ Len(s) \in Nat
    <2>1. d \in Seq(Seq(Byte))
      BY DatasAre
    <2>2. Len(s) \in Nat
      BY LenProperties
    <2>3. DOMAIN d = 1 .. Len(s)
      OBVIOUS
    <2> QED
      BY <2>1, <2>2, <2>3, LenProperties
  <1>3. t \in Seq(Blocks(F)) /\ Len(t) = Len(s) + 1 /\ t[Len(s) + 1] = b
        /\ \A i \in 1 .. Len(s) : t[i] = s[i]
    BY AppendProperties
  <1>4. e = Append(d, x)
    <2>1. e \in Seq(Seq(Byte))
      BY <1>3, DatasAre
    <2>2. Len(e) = Len(s) + 1
      <3>1. DOMAIN e = 1 .. Len(s) + 1
        BY <1>3
      <3> QED
        BY <1>2, <2>1, <3>1, LenProperties
    <2>3. /\ Append(d, x) \in Seq(Seq(Byte)) /\ Len(Append(d, x)) = Len(d) + 1
          /\ \A i \in 1 .. Len(d) : Append(d, x)[i] = d[i]
          /\ Append(d, x)[Len(d) + 1] = x
      BY <1>1, <1>2, AppendProperties
    <2>4. \A i \in 1 .. Len(s) + 1 : e[i] = Append(d, x)[i]
      <3> SUFFICES ASSUME NEW i \in 1 .. Len(s) + 1
                   PROVE  e[i] = Append(d, x)[i]
        OBVIOUS
      <3>1. e[i] = t[i].data
        BY <1>3
      <3>2. CASE i = Len(s) + 1
        BY <1>2, <1>3, <2>3, <3>1, <3>2
      <3>3. CASE i # Len(s) + 1
        <4>1. i \in 1 .. Len(s)
          BY <1>2, <3>3
        <4>2. d[i] = s[i].data
          BY <4>1
        <4> QED
          BY <1>2, <1>3, <2>3, <3>1, <4>1, <4>2
      <3> QED
        BY <3>2, <3>3
    <2> QED
      BY <1>2, <2>1, <2>2, <2>3, <2>4, SeqEqual
  <1>5. FlattenSeq(d) \in Seq(Byte) /\ FlattenSeq(e) = FlattenSeq(d) \o x
    BY <1>1, <1>2, <1>4, FlattenAppend
  <1> QED
    BY <1>5 DEF BytesIn

LEMMA BytesType ==
    ASSUME NEW F, NEW s \in Seq(Blocks(F))
    PROVE  /\ BytesIn(s) \in Seq(Byte)
           /\ Len(BytesIn(s)) \in Nat
           /\ s # << >> => Len(BytesIn(s)) > 0
  <1>1. CASE s = << >>
    BY <1>1, NoBytes, EmptySeq
  <1>2. CASE s # << >>
    <2>1. PICK v \in Seq(Blocks(F)), b \in Blocks(F) : s = Append(v, b)
      BY <1>2, SequenceEmptyOrAppend
    <2>2. BytesIn(v) \in Seq(Byte) /\ BytesIn(s) = BytesIn(v) \o b.data
      BY <2>1, BytesAppend
    <2>3. b.data \in Seq(Byte) /\ Len(b.data) \in Nat /\ Len(b.data) > 0
      <3>1. b.data \in Seq(Byte) /\ b.data # << >>
        BY DEF Blocks
      <3> QED
        BY <3>1, LenProperties, EmptySeq
    <2>4. Len(BytesIn(v)) \in Nat
      BY <2>2, LenProperties
    <2> QED
      BY <2>2, <2>3, <2>4, ConcatProperties
  <1> QED
    BY <1>1, <1>2

LEMMA BytesConcat ==
    ASSUME NEW F, NEW s \in Seq(Blocks(F)), NEW t \in Seq(Blocks(F))
    PROVE  BytesIn(s \o t) = BytesIn(s) \o BytesIn(t)
  <1> DEFINE Holds(u) == BytesIn(s \o u) = BytesIn(s) \o BytesIn(u)
             T == {n \in Nat : \A u \in Seq(Blocks(F)) : Len(u) = n => Holds(u)}
  <1>1. 0 \in T
    <2> SUFFICES ASSUME NEW u \in Seq(Blocks(F)), Len(u) = 0
                 PROVE  Holds(u)
      OBVIOUS
    <2>1. u = << >>
      BY EmptySeq
    <2>2. s \o u = s
      BY <2>1, ConcatEmptySeq
    <2>3. BytesIn(s) \o BytesIn(u) = BytesIn(s)
      BY <2>1, NoBytes, BytesType, ConcatEmptySeq
    <2> QED
      BY <2>2, <2>3
  <1>2. \A n \in Nat : n \in T => n + 1 \in T
    <2> SUFFICES ASSUME NEW n \in Nat, n \in T, NEW u \in Seq(Blocks(F)), Len(u) = n + 1
                 PROVE  Holds(u)
      BY SMTT(60)
    <2>1. u # << >>
      BY EmptySeq
    <2>2. PICK v \in Seq(Blocks(F)), b \in Blocks(F) : u = Append(v, b)
      BY <2>1, SequenceEmptyOrAppend
    <2>3. Len(v) = n
      BY <2>2, AppendProperties, LenProperties
    <2>4. Holds(v)
      BY <2>3
    <2> PICK w : w = s \o v
      OBVIOUS
    <2>5. w \in Seq(Blocks(F))
      BY ConcatProperties
    <2>6. s \o u = Append(w, b)
      <3>1. /\ <<b>> \in Seq(Blocks(F))
            /\ u = v \o <<b>> /\ Append(w, b) = w \o <<b>>
        BY <2>2, <2>5, AppendIsConcat
      <3>2. (s \o v) \o <<b>> = s \o (v \o <<b>>)
        BY <3>1, ConcatAssociative, SMTT(60)
      <3> QED
        BY <3>1, <3>2
    <2>7. /\ BytesIn(s) \in Seq(Byte) /\ BytesIn(v) \in Seq(Byte) /\ b.data \in Seq(Byte)
          /\ BytesIn(Append(w, b)) = BytesIn(w) \o b.data
          /\ BytesIn(u) = BytesIn(v) \o b.data
      BY <2>2, <2>5, BytesAppend, ZenonT(60) DEF Blocks
    <2>8. (BytesIn(s) \o BytesIn(v)) \o b.data = BytesIn(s) \o (BytesIn(v) \o b.data)
      <3>1. \A x, y, z \in Seq(Byte) : (x \o y) \o z = x \o (y \o z)
        BY ConcatAssociative, SMTT(60)
      <3> QED
        BY <2>7, <3>1
    <2> QED
      BY <2>4, <2>6, <2>7, <2>8
  <1> HIDE DEF T
  <1>3. Nat \subseteq T
    BY <1>1, <1>2, Induction
  <1> QED
    BY <1>3, LenProperties DEF T

LEMMA BytesSplit ==
    ASSUME NEW F, NEW s \in Seq(Blocks(F)), NEW k \in 0 .. Len(s), NEW m \in k .. Len(s)
    PROVE  /\ SubSeq(s, 1, k) \in Seq(Blocks(F)) /\ SubSeq(s, k + 1, m) \in Seq(Blocks(F))
           /\ SubSeq(s, 1, m) \in Seq(Blocks(F))
           /\ BytesIn(SubSeq(s, 1, m)) = BytesIn(SubSeq(s, 1, k)) \o BytesIn(SubSeq(s, k + 1, m))
           /\ Len(BytesIn(SubSeq(s, 1, m)))
                = Len(BytesIn(SubSeq(s, 1, k))) + Len(BytesIn(SubSeq(s, k + 1, m)))
  <1>1. Len(s) \in Nat /\ k \in Int /\ m \in Int /\ k + 1 \in Int
    BY LenProperties
  <1>2. \A i \in 1 .. Len(s) : s[i] \in Blocks(F)
    BY ElementOfSeq
  <1>3. SubSeq(s, 1, k) \in Seq(Blocks(F))
    BY <1>1, <1>2, SubSeqProperties
  <1>4. SubSeq(s, k + 1, m) \in Seq(Blocks(F))
    BY <1>1, <1>2, SubSeqProperties
  <1>5. SubSeq(s, 1, k) \o SubSeq(s, k + 1, m) = SubSeq(s, 1, m)
    BY <1>1, ConcatAdjacentSubSeq
  <1>6. SubSeq(s, 1, m) \in Seq(Blocks(F))
    BY <1>1, <1>2, SubSeqProperties
  <1>7. BytesIn(SubSeq(s, 1, m)) = BytesIn(SubSeq(s, 1, k)) \o BytesIn(SubSeq(s, k + 1, m))
    BY <1>3, <1>4, <1>5, BytesConcat
  <1> QED
    BY <1>3, <1>4, <1>6, <1>7, BytesType, ConcatProperties

LEMMA OneBlock ==
    ASSUME NEW F, NEW b \in Blocks(F)
    PROVE  <<b>> \in Seq(Blocks(F)) /\ BytesIn(<<b>>) = b.data
  <1>1. << >> \in Seq(Blocks(F)) /\ Append(<< >>, b) = <<b>>
    BY EmptySeq
  <1>2. BytesIn(<<b>>) = BytesIn(<< >>) \o b.data
    BY <1>1, BytesAppend
  <1>3. b.data \in Seq(Byte)
    BY DEF Blocks
  <1>4. << >> \o b.data = b.data
    BY <1>3, ConcatEmptySeq
  <1>5. <<b>> \in Seq(Blocks(F))
    OBVIOUS
  <1> QED
    BY <1>2, <1>4, <1>5, NoBytes

LEMMA Associative ==
    \A x, y, z \in Seq(Byte) : (x \o y) \o z = x \o (y \o z)
  BY ConcatAssociative

(* appendBuffer(): the message comes behind what is buffered.              *)
LEMMA Appended ==
    ASSUME IsBuffer(writeBuffer), NEW data \in Seq(Byte), data # << >>
    PROVE  /\ IsBuffer(WithAppended(data))
           /\ WithAppended(data) # << >>
           /\ BytesIn(writeBuffer) \in Seq(Byte)
           /\ BytesIn(WithAppended(data)) = BytesIn(writeBuffer) \o data
  <1> PICK s : s = writeBuffer
    OBVIOUS
  <1>1. PICK F : s \in Seq(Blocks(F))
    BY DEF IsBuffer
  <1>2. BytesIn(s) \in Seq(Byte)
    BY <1>1, BytesType
  <1>3. CASE ~ writeBufferLastCanAppend(Len(data))
    <2> PICK room : room = calculateNewCapacity(Len(data)) - Len(data)
      OBVIOUS
    <2> PICK G : G = F \cup {room}
      OBVIOUS
    <2> PICK b : b = [data |-> data, free |-> room]
      OBVIOUS
    <2>1. b \in Blocks(G) /\ b.data = data
      BY DEF Blocks
    <2>2. Blocks(F) \subseteq Blocks(G)
      BY DEF Blocks
    <2>3. s \in Seq(Blocks(G))
      BY <1>1, <2>2, SeqMonotonic
    <2>4. WithAppended(data) = Append(s, b)
      BY <1>3 DEF WithAppended
    <2>5. Append(s, b) \in Seq(Blocks(G)) /\ Append(s, b) # << >>
      BY <2>1, <2>3, AppendProperties
    <2>6. BytesIn(Append(s, b)) = BytesIn(s) \o data
      BY <2>1, <2>3, BytesAppend
    <2> QED
      BY <1>2, <2>4, <2>5, <2>6 DEF IsBuffer
  <1>4. CASE writeBufferLastCanAppend(Len(data))
    <2>1. s # << >>
      BY <1>4 DEF writeBufferLastCanAppend
    <2>2. PICK v \in Seq(Blocks(F)), b \in Blocks(F) : s = Append(v, b)
      BY <1>1, <2>1, SequenceEmptyOrAppend
    <2> PICK room : room = b.free - Len(data)
      OBVIOUS
    <2> PICK G : G = F \cup {room}
      OBVIOUS
    <2> PICK c : c = [data |-> b.data \o data, free |-> room]
      OBVIOUS
    <2> PICK n : n = Len(v) + 1
      OBVIOUS
    <2>3. b.data \in Seq(Byte) /\ b.data # << >>
      BY DEF Blocks
    <2>4. b.data \o data \in Seq(Byte) \ {<< >>}
      BY <2>3, ConcatProperties, ConcatEqualIffEmpty
    <2>5. c \in Blocks(G) /\ c.data = b.data \o data
      BY <2>4 DEF Blocks
    <2>6. Blocks(F) \subseteq Blocks(G)
      BY DEF Blocks
    <2>7. v \in Seq(Blocks(G)) /\ s \in Seq(Blocks(G))
      BY <1>1, <2>2, <2>6, SeqMonotonic
    <2>8. /\ Len(s) = n /\ n \in 1 .. Len(s) /\ s[n] = b /\ Len(v) \in Nat
          /\ \A i \in 1 .. Len(v) : s[i] = v[i]
      BY <2>2, AppendProperties, LenProperties
    <2>9. WithAppended(data) = [s EXCEPT ![n] = c]
      BY <1>4, <2>8 DEF WithAppended
    <2>10. [s EXCEPT ![n] = c] = Append(v, c)
      <3> PICK x : x = [s EXCEPT ![n] = c]
        OBVIOUS
      <3> PICK y : y = Append(v, c)
        OBVIOUS
      <3>1. /\ x \in Seq(Blocks(G)) /\ Len(x) = n
            /\ \A j \in 1 .. Len(s) : x[j] = IF j = n THEN c ELSE s[j]
        BY <2>5, <2>7, <2>8, ExceptSeq
      <3>2. /\ y \in Seq(Blocks(G)) /\ Len(y) = Len(v) + 1 /\ y[Len(v) + 1] = c
            /\ \A i \in 1 .. Len(v) : y[i] = v[i]
        BY <2>5, <2>7, AppendProperties
      <3>3. \A i \in 1 .. n : x[i] = y[i]
        BY <2>8, <3>1, <3>2
      <3>4. x = y
        BY <3>1, <3>2, <3>3, SeqEqual
      <3> QED
        BY <3>4
    <2>11. Append(v, c) \in Seq(Blocks(G)) /\ Append(v, c) # << >>
      BY <2>5, <2>7, AppendProperties, SMTT(60)
    <2>12. BytesIn(Append(v, c)) = BytesIn(v) \o (b.data \o data) /\ BytesIn(v) \in Seq(Byte)
      BY <2>5, <2>7, BytesAppend
    <2>13. BytesIn(s) = BytesIn(v) \o b.data
      BY <2>2, BytesAppend
    <2>14. (BytesIn(v) \o b.data) \o data = BytesIn(v) \o (b.data \o data)
      BY <2>3, <2>12, Associative
    <2>15. WithAppended(data) = Append(v, c)
      BY <2>9, <2>10
    <2>16. BytesIn(Append(v, c)) = BytesIn(s) \o data
      BY <2>12, <2>13, <2>14
    <2> QED
      BY <1>2, <2>11, <2>15, <2>16 DEF IsBuffer
  <1> QED
    BY <1>3, <1>4

LEMMA DropLength ==
    ASSUME NEW s \in Seq(Byte), NEW n \in Nat, n <= Len(s)
    PROVE  Drop(s, n) \in Seq(Byte) /\ Len(Drop(s, n)) = Len(s) - n
  <1>l. PICK l : l = Len(s)
    OBVIOUS
  <1>1. l \in Nat /\ \A i \in 1 .. l : s[i] \in Byte
    BY <1>l, LenProperties, ElementOfSeq
  <1>2. \A i \in n + 1 .. l : s[i] \in Byte
    BY <1>1
  <1>3. /\ SubSeq(s, n + 1, l) \in Seq(Byte)
        /\ Len(SubSeq(s, n + 1, l)) = IF n + 1 <= l THEN l - (n + 1) + 1 ELSE 0
    BY <1>1, <1>2, SubSeqProperties
  <1>4. (IF n + 1 <= l THEN l - (n + 1) + 1 ELSE 0) = l - n
    BY <1>l, <1>1
  <1> QED
    BY <1>l, <1>3, <1>4 DEF Drop

LEMMA DropWithin ==
    ASSUME NEW x \in Seq(Byte), NEW d \in Seq(Byte), NEW r \in Seq(Byte),
           NEW n \in Nat, Len(x) <= n, n < Len(x) + Len(d)
    PROVE  /\ Drop(d, n - Len(x)) \in Seq(Byte) \ {<< >>}
           /\ Drop((x \o d) \o r, n) = Drop(d, n - Len(x)) \o r
  <1>a. PICK a : a = (x \o d) \o r
    OBVIOUS
  <1>l. PICK lx, ld, lr : lx = Len(x) /\ ld = Len(d) /\ lr = Len(r)
    OBVIOUS
  <1>k. PICK k : k = n - lx                   \* what is dropped of d
    OBVIOUS
  <1>e. PICK e : e = SubSeq(d, k + 1, ld)
    OBVIOUS
  <1>m. PICK la : la = lx + ld + lr
    OBVIOUS
  <1>g. PICK g : g = SubSeq(a, n + 1, la)
    OBVIOUS
  <1>h. PICK h : h = e \o r
    OBVIOUS
  <1>1. lx \in Nat /\ ld \in Nat /\ lr \in Nat
    BY <1>l, LenProperties
  <1>2. k \in Nat /\ k < ld /\ n = lx + k /\ la \in Nat /\ n < la
    BY <1>l, <1>k, <1>m, <1>1
  <1>3. x \o d \in Seq(Byte) /\ Len(x \o d) = lx + ld
        /\ \A i \in 1 .. lx + ld : (x \o d)[i] = IF i <= lx THEN x[i] ELSE d[i - lx]
    BY <1>l, ConcatProperties
  <1>4. /\ a \in Seq(Byte) /\ Len(a) = la
        /\ \A i \in 1 .. la : a[i] = IF i <= lx + ld THEN (x \o d)[i] ELSE r[i - (lx + ld)]
    BY <1>a, <1>l, <1>m, <1>1, <1>3, ConcatProperties
  <1>5. e \in Seq(Byte) /\ Len(e) = ld - k /\ \A i \in 1 .. ld - k : e[i] = d[k + i]
    <2>1. \A i \in k + 1 .. ld : d[i] \in Byte
      BY <1>l, <1>1, <1>2, ElementOfSeq
    <2>2. /\ e \in Seq(Byte) /\ Len(e) = IF k + 1 <= ld THEN ld - (k + 1) + 1 ELSE 0
          /\ \A i \in 1 .. ld - (k + 1) + 1 : e[i] = d[(k + 1) + i - 1]
      BY <1>e, <1>1, <1>2, <2>1, SubSeqProperties, SMTT(60)
    <2>3. ld - (k + 1) + 1 = ld - k /\ \A i \in Nat : (k + 1) + i - 1 = k + i
      BY <1>1, <1>2
    <2>4. \A i \in 1 .. ld - k : e[i] = d[(k + 1) + i - 1] /\ i \in Nat
      BY <2>2, <2>3
    <2> QED
      BY <1>1, <1>2, <2>2, <2>3, <2>4
  <1>6. g \in Seq(Byte) /\ Len(g) = la - n /\ \A i \in 1 .. la - n : g[i] = a[n + i]
    <2>1. \A i \in n + 1 .. la : a[i] \in Byte
      BY <1>2, <1>4, ElementOfSeq
    <2>2. /\ g \in Seq(Byte) /\ Len(g) = IF n + 1 <= la THEN la - (n + 1) + 1 ELSE 0
          /\ \A i \in 1 .. la - (n + 1) + 1 : g[i] = a[(n + 1) + i - 1]
      BY <1>g, <1>2, <2>1, SubSeqProperties, SMTT(60)
    <2>3. la - (n + 1) + 1 = la - n /\ \A i \in Nat : (n + 1) + i - 1 = n + i
      BY <1>2
    <2>4. \A i \in 1 .. la - n : g[i] = a[(n + 1) + i - 1] /\ i \in Nat
      BY <2>2, <2>3
    <2>5. \A i \in 1 .. la - n : g[i] = a[n + i]
      BY <2>3, <2>4, Zenon
    <2>6. Len(g) = la - n
      BY <1>2, <2>2
    <2> QED
      BY <2>2, <2>5, <2>6
  <1>7. h \in Seq(Byte) /\ Len(h) = la - n
        /\ \A i \in 1 .. la - n : h[i] = IF i <= ld - k THEN e[i] ELSE r[i - (ld - k)]
    <2>1. h \in Seq(Byte) /\ Len(h) = (ld - k) + lr
          /\ \A i \in 1 .. (ld - k) + lr : h[i] = IF i <= ld - k THEN e[i] ELSE r[i - (ld - k)]
      <3>1. /\ h \in Seq(Byte) /\ Len(h) = Len(e) + Len(r)
            /\ \A i \in 1 .. Len(e) + Len(r) : h[i] = IF i <= Len(e) THEN e[i] ELSE r[i - Len(e)]
        BY <1>h, <1>5, ConcatProperties
      <3> QED
        BY <1>l, <1>5, <3>1, Zenon
    <2>2. (ld - k) + lr = la - n
      BY <1>m, <1>1, <1>2
    <2> QED
      BY <2>1, <2>2
  <1>8. \A i \in 1 .. la - n : g[i] = h[i]
    <2> SUFFICES ASSUME NEW i \in 1 .. la - n
                 PROVE  g[i] = h[i]
      OBVIOUS
    <2>0. PICK j : j = n + i
      OBVIOUS
    <2>1. g[i] = a[j] /\ j \in 1 .. la
      BY <1>2, <1>6, <2>0, SMTT(60)
    <2>2. CASE i <= ld - k
      <3>1. j <= lx + ld /\ j \in 1 .. lx + ld /\ ~ (j <= lx) /\ j - lx = k + i /\ i \in 1 .. ld - k
        BY <1>1, <1>2, <2>0, <2>2
      <3>2. a[j] = (x \o d)[j]
        BY <1>4, <2>1, <3>1
      <3>3. (x \o d)[j] = d[j - lx]
        BY <1>3, <3>1
      <3>4. e[i] = d[k + i] /\ h[i] = e[i]
        BY <1>5, <1>7, <2>2, <3>1
      <3> QED
        BY <2>1, <3>1, <3>2, <3>3, <3>4
    <2>3. CASE ~ (i <= ld - k)
      <3>1. ~ (j <= lx + ld) /\ j - (lx + ld) = i - (ld - k)
        BY <1>1, <1>2, <2>0, <2>3
      <3>2. a[j] = r[j - (lx + ld)]
        BY <1>4, <2>1, <3>1
      <3>3. h[i] = r[i - (ld - k)]
        BY <1>7, <2>3
      <3> QED
        BY <2>1, <3>1, <3>2, <3>3
    <2> QED
      BY <2>2, <2>3
  <1>9. g = h
    BY <1>6, <1>7, <1>8, SeqEqual
  <1>10. e # << >>
    <2>1. Len(e) # 0
      BY <1>1, <1>2, <1>5
    <2> QED
      BY <2>1, EmptySeq
  <1> QED
    BY <1>a, <1>l, <1>k, <1>e, <1>g, <1>h, <1>4, <1>5, <1>9, <1>10 DEF Drop

(* The bytes of the first blocks.                                          *)
LEMMA Iovecs ==
    ASSUME IsBuffer(writeBuffer)
    PROVE  /\ Len(writeBuffer) \in Nat
           /\ BytesIn(writeBuffer) \in Seq(Byte)
           /\ Len(BytesIn(writeBuffer)) \in Nat
           /\ writeBuffer # << >> => Len(BytesIn(writeBuffer)) > 0
           /\ Iov(1, 0) = << >>
           /\ Iov(1, Len(writeBuffer)) = BytesIn(writeBuffer)
           /\ \A k \in 0 .. Len(writeBuffer) : \A m \in k .. Len(writeBuffer) :
                 /\ Iov(1, k) \in Seq(Byte) /\ Len(Iov(1, k)) \in Nat
                 /\ Iov(k + 1, m) \in Seq(Byte) /\ Len(Iov(k + 1, m)) \in Nat
                 /\ Iov(1, m) = Iov(1, k) \o Iov(k + 1, m)
                 /\ Len(Iov(1, m)) = Len(Iov(1, k)) + Len(Iov(k + 1, m))
  <1>1. PICK s, F : s = writeBuffer /\ s \in Seq(Blocks(F))
    BY DEF IsBuffer
  <1>2. /\ Len(s) \in Nat /\ BytesIn(s) \in Seq(Byte) /\ Len(BytesIn(s)) \in Nat
        /\ s # << >> => Len(BytesIn(s)) > 0
    BY <1>1, LenProperties, BytesType
  <1>3. Iov(1, 0) = << >>
    <2>1. SubSeq(s, 1, 0) = << >>
      BY SubSeqEmpty
    <2> QED
      BY <1>1, <2>1, NoBytes DEF Iov
  <1>4. Iov(1, Len(s)) = BytesIn(s)
    <2>1. SubSeq(s, 1, Len(s)) = s
      BY <1>1, SubSeqFull
    <2> QED
      BY <1>1, <2>1 DEF Iov
  <1>5. ASSUME NEW k \in 0 .. Len(s), NEW m \in k .. Len(s)
        PROVE  /\ Iov(1, k) \in Seq(Byte) /\ Len(Iov(1, k)) \in Nat
               /\ Iov(k + 1, m) \in Seq(Byte) /\ Len(Iov(k + 1, m)) \in Nat
               /\ Iov(1, m) = Iov(1, k) \o Iov(k + 1, m)
               /\ Len(Iov(1, m)) = Len(Iov(1, k)) + Len(Iov(k + 1, m))
    <2>1. /\ SubSeq(s, 1, k) \in Seq(Blocks(F)) /\ SubSeq(s, k + 1, m) \in Seq(Blocks(F))
          /\ BytesIn(SubSeq(s, 1, m)) = BytesIn(SubSeq(s, 1, k)) \o BytesIn(SubSeq(s, k + 1, m))
          /\ Len(BytesIn(SubSeq(s, 1, m)))
                = Len(BytesIn(SubSeq(s, 1, k))) + Len(BytesIn(SubSeq(s, k + 1, m)))
      BY <1>1, BytesSplit
    <2>2. /\ BytesIn(SubSeq(s, 1, k)) \in Seq(Byte) /\ Len(BytesIn(SubSeq(s, 1, k))) \in Nat
      BY <2>1, BytesType
    <2>3. /\ BytesIn(SubSeq(s, k + 1, m)) \in Seq(Byte)
          /\ Len(BytesIn(SubSeq(s, k + 1, m))) \in Nat
      BY <2>1, BytesType
    <2> QED
      BY <1>1, <2>1, <2>2, <2>3 DEF Iov
  <1> QED
    BY <1>1, <1>2, <1>3, <1>4, <1>5

(* removeSentBuffer() takes away the bytes that were sent and no others.   *)
LEMMA Removed ==
    ASSUME IsBuffer(writeBuffer), NEW n \in Nat, n < Len(BytesIn(writeBuffer))
    PROVE  /\ IsBuffer(removeSentBuffer(n))
           /\ removeSentBuffer(n) # << >>
           /\ BytesIn(removeSentBuffer(n)) = Drop(BytesIn(writeBuffer), n)
  <1>1. PICK s, F : s = writeBuffer /\ s \in Seq(Blocks(F))
    BY DEF IsBuffer
  <1>2. PICK I : I = {i \in 1 .. Len(s) : Len(Iov(1, i)) > n}
    OBVIOUS
  <1>3. PICK first : first = Min(I)
    OBVIOUS
  <1>4. Len(s) \in Nat /\ Len(s) \in I /\ I \subseteq Nat
    <2>1. Len(s) \in Nat /\ Iov(1, Len(s)) = BytesIn(s) /\ s # << >>
      BY <1>1, Iovecs, NoBytes
    <2>2. Len(s) # 0
      BY <1>1, <2>1, EmptySeq
    <2>3. Len(s) \in 1 .. Len(s)
      BY <2>1, <2>2
    <2> QED
      BY <1>1, <1>2, <2>1, <2>3
  <1>5. first \in I /\ \A i \in I : first <= i
    <2>1. \E i \in I : \A j \in I : i <= j
      BY <1>4, LeastNat
    <2> QED
      BY <1>3, <2>1 DEF Min
  <1>6. PICK before : before = first - 1
    OBVIOUS
  <1>7. /\ first \in 1 .. Len(s) /\ Len(Iov(1, first)) > n
        /\ before \in 0 .. Len(s) /\ first = before + 1 /\ before \in 0 .. first
        /\ first \in before .. Len(s)
    BY <1>2, <1>4, <1>5, <1>6
  <1>8. PICK x, b, d, R : x = Iov(1, before) /\ b = s[first] /\ d = b.data
                           /\ R = SubSeq(s, first + 1, Len(s))
    OBVIOUS
  <1>9. b \in Blocks(F) /\ d \in Seq(Byte)
    <2>1. b \in Blocks(F)
      BY <1>1, <1>7, <1>8, ElementOfSeq
    <2> QED
      BY <1>8, <2>1 DEF Blocks
  <1>10. x \in Seq(Byte) /\ Len(x) \in Nat /\ Len(x) <= n
    <2>1. x \in Seq(Byte) /\ Len(x) \in Nat
      BY <1>1, <1>7, <1>8, Iovecs
    <2>2. CASE before = 0
      <3>1. x = << >>
        BY <1>8, <2>2, Iovecs
      <3> QED
        BY <2>1, <3>1, EmptySeq
    <2>3. CASE before # 0
      <3>1. before \in 1 .. Len(s) /\ ~ (first <= before)
        BY <1>4, <1>7, <2>3
      <3>2. ~ (Len(Iov(1, before)) > n)
        BY <1>2, <1>5, <3>1
      <3> QED
        BY <1>8, <2>1, <3>2
    <2> QED
      BY <2>2, <2>3
  <1>11. Iov(1, first) = x \o d
    <2>1. SubSeq(s, first, first) = <<b>>
      <3>1. SubSeq(s, first, first) = SubSeq(s, first, first - 1) \o <<b>>
        BY <1>1, <1>7, <1>8, SubSeqRecursiveSecond
      <3>2. SubSeq(s, first, first - 1) = << >>
        BY <1>4, <1>7, SubSeqEmpty
      <3>3. << >> \o <<b>> = <<b>>
        BY <1>9, OneBlock, ConcatEmptySeq
      <3> QED
        BY <3>1, <3>2, <3>3
    <2>2. BytesIn(<<b>>) = d
      BY <1>8, <1>9, OneBlock
    <2>3. Iov(before + 1, first) = d
      BY <1>1, <1>7, <2>1, <2>2 DEF Iov
    <2> QED
      BY <1>1, <1>7, <1>8, <2>3, Iovecs
  <1>12. PICK r : r = BytesIn(R)
    OBVIOUS
  <1>13. R \in Seq(Blocks(F)) /\ r \in Seq(Byte) /\ BytesIn(s) = (x \o d) \o r
    <2>1. first \in 0 .. Len(s) /\ Len(s) \in first .. Len(s)
      BY <1>4, <1>7
    <2>2. R \in Seq(Blocks(F))
      BY <1>1, <1>8, <2>1, BytesSplit
    <2>3. Iov(first + 1, Len(s)) = r
      BY <1>1, <1>8, <1>12 DEF Iov
    <2>4. BytesIn(s) = Iov(1, first) \o r
      BY <1>1, <2>1, <2>3, Iovecs
    <2> QED
      BY <1>11, <1>12, <2>2, <2>4, BytesType
  <1>14. n < Len(x) + Len(d)
    <2>1. Len(x \o d) = Len(x) + Len(d)
      BY <1>9, <1>10, ConcatProperties
    <2>2. Len(x) + Len(d) \in Nat
      BY <1>9, <1>10, LenProperties
    <2> QED
      BY <1>7, <1>11, <2>1, <2>2
  <1>15. PICK e : e = Drop(d, n - Len(x))
    OBVIOUS
  <1>16. /\ e \in Seq(Byte) \ {<< >>}
         /\ Drop(BytesIn(s), n) = e \o r
    <2>1. /\ Drop(d, n - Len(x)) \in Seq(Byte) \ {<< >>}
          /\ Drop((x \o d) \o r, n) = Drop(d, n - Len(x)) \o r
      BY <1>9, <1>10, <1>13, <1>14, DropWithin, SMTT(60)
    <2> QED
      BY <1>13, <1>15, <2>1
  <1>17. PICK c : c = [b EXCEPT !.data = e]
    OBVIOUS
  <1>18. c \in Blocks(F) /\ c.data = e
    BY <1>9, <1>16, <1>17 DEF Blocks
  <1>19. removeSentBuffer(n) = <<c>> \o R
    <2>1. PICK left : left = SubSeq(s, first, Len(s))
      OBVIOUS
    <2>2. left = <<b>> \o R
      <3>1. Len(s) \in first .. Len(s)
        BY <1>4, <1>7
      <3> QED
        BY <1>1, <1>7, <1>8, <2>1, <3>1, SubSeqRecursiveFirst
    <2>3. removeSentBuffer(n) = [left EXCEPT ![1].data = SubSeq(@, n - Len(x) + 1, Len(@))]
      BY <1>1, <1>2, <1>3, <1>6, <1>8, <2>1 DEF removeSentBuffer
    <2>4. /\ <<b>> \in Seq(Blocks(F)) /\ Len(<<b>>) = 1 /\ <<b>>[1] = b
          /\ <<c>> \in Seq(Blocks(F)) /\ Len(<<c>>) = 1 /\ <<c>>[1] = c
          /\ Len(R) \in Nat
      BY <1>9, <1>13, <1>18, LenProperties
    <2>5. /\ left \in Seq(Blocks(F)) /\ Len(left) = 1 + Len(R) /\ 1 \in 1 .. Len(left)
          /\ left[1] = b
          /\ \A i \in 1 .. 1 + Len(R) : i # 1 => left[i] = R[i - 1]
      BY <1>13, <2>2, <2>4, ConcatProperties
    <2>6. removeSentBuffer(n) = [left EXCEPT ![1] = c]
      BY <1>8, <1>15, <1>17, <2>3, <2>5 DEF Drop
    <2>7. /\ [left EXCEPT ![1] = c] \in Seq(Blocks(F))
          /\ Len([left EXCEPT ![1] = c]) = Len(left)
          /\ \A i \in 1 .. Len(left) : [left EXCEPT ![1] = c][i] = IF i = 1 THEN c ELSE left[i]
      BY <1>18, <2>5, ExceptSeq
    <2>8. /\ <<c>> \o R \in Seq(Blocks(F)) /\ Len(<<c>> \o R) = 1 + Len(R)
          /\ \A i \in 1 .. 1 + Len(R) : (<<c>> \o R)[i] = IF i = 1 THEN c ELSE R[i - 1]
      BY <1>13, <2>4, ConcatProperties
    <2>9. PICK y, z : y = [left EXCEPT ![1] = c] /\ z = <<c>> \o R
      OBVIOUS
    <2>10. \A i \in 1 .. Len(left) : y[i] = z[i]
      BY <2>5, <2>7, <2>8, <2>9
    <2>11. y = z
      BY <2>5, <2>7, <2>8, <2>9, <2>10, SeqEqual
    <2> QED
      BY <2>6, <2>9, <2>11
  <1>20. /\ <<c>> \in Seq(Blocks(F)) /\ BytesIn(<<c>>) = e
    BY <1>18, OneBlock
  <1>21. BytesIn(<<c>> \o R) = e \o r
    BY <1>12, <1>13, <1>20, BytesConcat
  <1>22. <<c>> \o R \in Seq(Blocks(F)) /\ <<c>> \o R # << >>
    BY <1>13, <1>20, ConcatProperties, ConcatEqualIffEmpty
  <1> QED
    BY <1>1, <1>16, <1>19, <1>21, <1>22 DEF IsBuffer

-----------------------------------------------------------------------------
(* Queues of tasks                                                         *)

LEMMA NoTasks ==
    NoDeregister(<< >>) /\ OnlyWrites(<< >>) /\ ~ Ending(<< >>) /\ << >> \in Seq(Tasks)
  BY EmptySeq DEF NoDeregister, OnlyWrites, Ending

LEMMA TaskKinds ==
    /\ Deregister \in Tasks /\ Deregister.kind = "deregister"
    /\ \A m \in Byte : Complete(m) \in Tasks /\ Complete(m).kind = "complete"
    /\ \A n \in Nat \ {0} : WriteTask(n) \in Tasks /\ WriteTask(n).kind = "write"
    /\ \A x \in Tasks : x.kind = "write" => x.message \in Nat \ {0}
  <1>1. Deregister.kind = "deregister"
    BY DEF Deregister
  <1>2. \A m : Complete(m).kind = "complete"
    BY DEF Complete
  <1>3. \A n : WriteTask(n).kind = "write" /\ WriteTask(n).message = n
    BY DEF WriteTask
  <1> QED
    BY <1>1, <1>2, <1>3 DEF Tasks

LEMMA OnlyWritesNoDeregister ==
    ASSUME NEW q, OnlyWrites(q)
    PROVE  NoDeregister(q)
  BY TaskKinds DEF OnlyWrites, NoDeregister

LEMMA TailOfTasks ==
    ASSUME NEW q \in Seq(Tasks), q # << >>
    PROVE  /\ Tail(q) \in Seq(Tasks) /\ Head(q) \in Tasks
           /\ NoDeregister(q) => NoDeregister(Tail(q)) /\ Head(q) # Deregister
           /\ OnlyWrites(q) => OnlyWrites(Tail(q)) /\ Head(q).kind = "write"
           /\ Ending(q) /\ Head(q) = Deregister => OnlyWrites(Tail(q))
           /\ Ending(q) /\ Head(q) # Deregister => Ending(Tail(q))
  <1>t. PICK t : t = Tail(q)
    OBVIOUS
  <1>n. PICK n : n = Len(q)
    OBVIOUS
  <1>1. /\ t \in Seq(Tasks) /\ Head(q) \in Tasks /\ Len(t) = n - 1 /\ n \in Nat /\ n > 0
        /\ Head(q) = q[1] /\ \A i \in 1 .. n - 1 : t[i] = q[i + 1]
    BY <1>t, <1>n, HeadTailProperties, LenProperties, EmptySeq
  <1>2. \A i \in 1 .. n - 1 : i + 1 \in 1 .. n /\ i + 1 # 1
    BY <1>1
  <1>3. 1 \in 1 .. n
    BY <1>1
  <1>4. NoDeregister(q) => NoDeregister(t) /\ Head(q) # Deregister
    BY <1>n, <1>1, <1>2, <1>3 DEF NoDeregister
  <1>5. OnlyWrites(q) => OnlyWrites(t) /\ Head(q).kind = "write"
    BY <1>n, <1>1, <1>2, <1>3 DEF OnlyWrites
  <1>6. ASSUME Ending(q)
        PROVE  /\ Head(q) = Deregister => OnlyWrites(t)
               /\ Head(q) # Deregister => Ending(t)
    <2>1. PICK p \in 1 .. n : /\ q[p] = Deregister
                              /\ \A i \in 1 .. n : /\ i < p => q[i] # Deregister
                                                   /\ i > p => q[i].kind = "write"
      BY <1>n, <1>6 DEF Ending
    <2>2. CASE p = 1
      <3>1. \A i \in 1 .. n - 1 : q[i + 1].kind = "write"
        BY <1>1, <2>1, <2>2
      <3>2. OnlyWrites(t)
        BY <1>1, <3>1 DEF OnlyWrites
      <3> QED
        BY <1>1, <2>1, <2>2, <3>2
    <2>3. CASE p # 1
      <3>1. Head(q) # Deregister
        BY <1>1, <1>3, <2>1, <2>3
      <3>2. PICK r : r = p - 1
        OBVIOUS
      <3>3. r \in 1 .. n - 1 /\ r + 1 = p
        BY <1>1, <2>1, <2>3, <3>2
      <3>4. t[r] = Deregister
        BY <1>1, <2>1, <3>3
      <3>5. \A i \in 1 .. n - 1 : /\ i < r => t[i] # Deregister
                                  /\ i > r => t[i].kind = "write"
        <4> SUFFICES ASSUME NEW i \in 1 .. n - 1
                     PROVE  /\ i < r => t[i] # Deregister
                            /\ i > r => t[i].kind = "write"
          OBVIOUS
        <4>1. i + 1 \in 1 .. n /\ (i < r => i + 1 < p) /\ (i > r => i + 1 > p) /\ t[i] = q[i + 1]
          BY <1>1, <3>3
        <4> QED
          BY <2>1, <4>1
      <3>6. Ending(t)
        BY <1>1, <3>3, <3>4, <3>5 DEF Ending
      <3> QED
        BY <3>1, <3>6
    <2> QED
      BY <2>2, <2>3
  <1> QED
    BY <1>t, <1>1, <1>4, <1>5, <1>6

LEMMA AppendToTasks ==
    ASSUME NEW q \in Seq(Tasks), NEW x \in Tasks
    PROVE  /\ Append(q, x) \in Seq(Tasks)
           /\ NoDeregister(q) /\ x # Deregister => NoDeregister(Append(q, x))
           /\ NoDeregister(q) /\ x = Deregister => Ending(Append(q, x))
           /\ OnlyWrites(q) /\ x.kind = "write" => OnlyWrites(Append(q, x))
           /\ Ending(q) /\ x.kind = "write" => Ending(Append(q, x))
  <1>t. PICK t : t = Append(q, x)
    OBVIOUS
  <1>n. PICK n : n = Len(q)
    OBVIOUS
  <1>m. PICK m : m = n + 1
    OBVIOUS
  <1>1. /\ t \in Seq(Tasks) /\ Len(t) = m /\ n \in Nat /\ t[m] = x
        /\ \A i \in 1 .. n : t[i] = q[i]
    BY <1>t, <1>n, <1>m, AppendProperties, LenProperties
  <1>2. \A i \in 1 .. m : i = m \/ (i \in 1 .. n /\ i < m)
    BY <1>1, <1>m
  <1>3. \A i \in 1 .. n : i \in 1 .. m /\ i < m
    BY <1>1, <1>m
  <1>4. m \in 1 .. m /\ \A i \in 1 .. m : ~ (i > m)
    BY <1>1, <1>m
  <1>5. NoDeregister(q) /\ x # Deregister => NoDeregister(t)
    BY <1>n, <1>1, <1>2 DEF NoDeregister
  <1>6. NoDeregister(q) /\ x = Deregister => Ending(t)
    <2>1. SUFFICES ASSUME NoDeregister(q), x = Deregister
                   PROVE  Ending(t)
      OBVIOUS
    <2>2. \A i \in 1 .. m : /\ i < m => t[i] # Deregister
                            /\ i > m => t[i].kind = "write"
      BY <1>n, <1>1, <1>2, <1>4, <2>1 DEF NoDeregister
    <2> QED
      BY <1>1, <1>4, <2>1, <2>2 DEF Ending
  <1>7. OnlyWrites(q) /\ x.kind = "write" => OnlyWrites(t)
    BY <1>n, <1>1, <1>2 DEF OnlyWrites
  <1>8. Ending(q) /\ x.kind = "write" => Ending(t)
    <2>1. SUFFICES ASSUME Ending(q), x.kind = "write"
                   PROVE  Ending(t)
      OBVIOUS
    <2>2. PICK p \in 1 .. n : /\ q[p] = Deregister
                              /\ \A i \in 1 .. n : /\ i < p => q[i] # Deregister
                                                   /\ i > p => q[i].kind = "write"
      BY <1>n, <2>1 DEF Ending
    <2>3. p \in 1 .. m /\ ~ (m < p) /\ t[p] = Deregister
      BY <1>1, <1>m, <2>2
    <2>4. \A i \in 1 .. m : /\ i < p => t[i] # Deregister
                            /\ i > p => t[i].kind = "write"
      BY <1>1, <1>2, <2>1, <2>2, <2>3
    <2> QED
      BY <1>1, <2>3, <2>4 DEF Ending
  <1> QED
    BY <1>t, <1>1, <1>5, <1>6, <1>7, <1>8

Completes(q) == q \in Seq(Tasks) /\ \A i \in 1 .. Len(q) : q[i].kind = "complete"

LEMMA ConcatTasks ==
    ASSUME NEW q \in Seq(Tasks), NEW r, Completes(r)
    PROVE  /\ q \o r \in Seq(Tasks)
           /\ NoDeregister(q) => NoDeregister(q \o r)
  <1>1. r \in Seq(Tasks) /\ \A i \in 1 .. Len(r) : r[i] # Deregister
    BY TaskKinds DEF Completes
  <1>2. /\ q \o r \in Seq(Tasks) /\ Len(q \o r) = Len(q) + Len(r)
        /\ \A i \in 1 .. Len(q) + Len(r) : (q \o r)[i] = IF i <= Len(q) THEN q[i] ELSE r[i - Len(q)]
        /\ Len(q) \in Nat /\ Len(r) \in Nat
    BY <1>1, ConcatProperties, LenProperties
  <1>3. \A i \in 1 .. Len(q) + Len(r) : IF i <= Len(q) THEN i \in 1 .. Len(q)
                                                       ELSE i - Len(q) \in 1 .. Len(r)
    BY <1>2
  <1> QED
    BY <1>1, <1>2, <1>3 DEF NoDeregister

-----------------------------------------------------------------------------
(* Sequences of messages                                                   *)

LEMMA NoMessages ==
    /\ << >> \in Seq(Byte) /\ Rising(<< >>)
    /\ \A n : UpTo(<< >>, n)
    /\ \A s : Before(s, << >>)
  BY EmptySeq DEF Rising, UpTo, Before

LEMMA UpToMore ==
    ASSUME NEW s \in Seq(Byte), NEW m \in Nat, NEW n \in Nat, m <= n, UpTo(s, m)
    PROVE  UpTo(s, n)
  <1>1. \A i \in 1 .. Len(s) : s[i] \in Nat
    BY ElementOfSeq DEF Byte
  <1> QED
    BY <1>1 DEF UpTo

LEMMA AppendMessage ==
    ASSUME NEW s \in Seq(Byte), NEW n \in Nat, NEW m \in Nat, n < m, UpTo(s, n)
    PROVE  /\ Append(s, m) \in Seq(Byte)
           /\ UpTo(Append(s, m), m)
           /\ Rising(s) => Rising(Append(s, m))
           /\ \A c \in Seq(Byte) : Before(c, s) /\ UpTo(c, n) => Before(c, Append(s, m))
  <1>t. PICK t : t = Append(s, m)
    OBVIOUS
  <1>l. PICK l : l = Len(s)
    OBVIOUS
  <1>1. /\ t \in Seq(Byte) /\ Len(t) = l + 1 /\ l \in Nat /\ t[l + 1] = m
        /\ \A i \in 1 .. l : t[i] = s[i]
    BY <1>t, <1>l, AppendProperties, LenProperties DEF Byte
  <1>2. \A i \in 1 .. l + 1 : i = l + 1 \/ i \in 1 .. l
    BY <1>1
  <1>3. \A i \in 1 .. l : s[i] \in Nat /\ s[i] <= n
    BY <1>l, ElementOfSeq DEF Byte, UpTo
  <1>4. UpTo(t, m)
    BY <1>1, <1>2, <1>3 DEF UpTo
  <1>5. Rising(s) => Rising(t)
    <2>1. SUFFICES ASSUME Rising(s), NEW i \in 1 .. l + 1, NEW j \in 1 .. l + 1, i < j
                   PROVE  t[i] < t[j]
      BY <1>1 DEF Rising
    <2>2. i \in 1 .. l
      BY <1>1, <2>1
    <2>3. CASE j = l + 1
      BY <1>1, <1>3, <2>2, <2>3
    <2>4. CASE j \in 1 .. l
      BY <1>l, <1>1, <2>1, <2>2, <2>4 DEF Rising
    <2> QED
      BY <1>2, <2>3, <2>4
  <1>6. \A c \in Seq(Byte) : Before(c, s) /\ UpTo(c, n) => Before(c, t)
    <2>1. SUFFICES ASSUME NEW c \in Seq(Byte), Before(c, s), UpTo(c, n),
                          NEW i \in 1 .. Len(c), NEW j \in 1 .. l + 1
                   PROVE  c[i] < t[j]
      BY <1>1 DEF Before
    <2>2. c[i] \in Nat /\ c[i] <= n
      BY <2>1, ElementOfSeq DEF Byte, UpTo
    <2>3. CASE j = l + 1
      BY <1>1, <2>2, <2>3
    <2>4. CASE j \in 1 .. l
      BY <1>l, <1>1, <2>1, <2>4 DEF Before
    <2> QED
      BY <1>2, <2>3, <2>4
  <1> QED
    BY <1>t, <1>1, <1>4, <1>5, <1>6

LEMMA ConcatMessages ==
    ASSUME NEW s \in Seq(Byte), NEW t \in Seq(Byte)
    PROVE  /\ s \o t \in Seq(Byte)
           /\ \A n : UpTo(s, n) /\ UpTo(t, n) => UpTo(s \o t, n)
           /\ Rising(s) /\ Rising(t) /\ Before(s, t) => Rising(s \o t)
  <1>c. PICK c, m, k : c = s \o t /\ m = Len(s) /\ k = Len(s) + Len(t)
    OBVIOUS
  <1>1. /\ c \in Seq(Byte) /\ Len(c) = k /\ m \in Nat /\ k \in Nat
        /\ \A i \in 1 .. k : c[i] = IF i <= m THEN s[i] ELSE t[i - m]
    BY <1>c, ConcatProperties, LenProperties
  <1>2. \A i \in 1 .. k : IF i <= m THEN i \in 1 .. Len(s) ELSE i - m \in 1 .. Len(t)
    BY <1>c, <1>1, LenProperties
  <1>3. \A n : UpTo(s, n) /\ UpTo(t, n) => UpTo(c, n)
    BY <1>1, <1>2 DEF UpTo
  <1>4. Rising(s) /\ Rising(t) /\ Before(s, t) => Rising(c)
    <2>1. SUFFICES ASSUME Rising(s), Rising(t), Before(s, t),
                          NEW i \in 1 .. k, NEW j \in 1 .. k, i < j
                   PROVE  c[i] < c[j]
      BY <1>1 DEF Rising
    <2>2. CASE j <= m
      <3>1. i <= m /\ c[i] = s[i] /\ c[j] = s[j] /\ i \in 1 .. Len(s) /\ j \in 1 .. Len(s)
        BY <1>1, <1>2, <2>1, <2>2
      <3> QED
        BY <2>1, <3>1 DEF Rising
    <2>3. CASE i <= m /\ ~ (j <= m)
      <3>1. c[i] = s[i] /\ c[j] = t[j - m] /\ i \in 1 .. Len(s) /\ j - m \in 1 .. Len(t)
        BY <1>1, <1>2, <2>3
      <3> QED
        BY <2>1, <3>1 DEF Before
    <2>4. CASE ~ (i <= m)
      <3>1. /\ ~ (j <= m) /\ i - m < j - m
            /\ c[i] = t[i - m] /\ c[j] = t[j - m] /\ i - m \in 1 .. Len(t) /\ j - m \in 1 .. Len(t)
        BY <1>1, <1>2, <2>1, <2>4
      <3> QED
        BY <2>1, <3>1 DEF Rising
    <2> QED
      BY <1>1, <2>2, <2>3, <2>4
  <1> QED
    BY <1>c, <1>1, <1>3, <1>4


-----------------------------------------------------------------------------
(* What is left alone, and the end of a channel                            *)

(* The parts of the invariant that a step does not touch.                  *)
LEMMA EndsKept ==
    ASSUME Ends, UNCHANGED <<state, life, owned, disconnects, batch, tasks, userOps>>
    PROVE  Ends'
  BY DEF Ends, Up, GoingDown, Down

LEMMA CallbacksKept ==
    ASSUME CallbacksInOrder, UNCHANGED <<completed, writeCompleteCallbacks, accepted, writeBuffer>>,
           CanSend' => CanSend
    PROVE  CallbacksInOrder'
  BY DEF CallbacksInOrder

LEMMA CountedKept ==
    ASSUME Counted, UNCHANGED <<state, wire, writeBuffer, accepted, completed, userOps>>,
           kernel'.wrShut = kernel.wrShut, kernel.broken => kernel'.broken,
           written'.bytes = written.bytes, written'.error => written.error,
           readyEvents' \subseteq readyEvents
    PROVE  Counted'
  BY DEF Counted

LEMMA IdleFits ==
    ASSUME written'.blocks = 0, written'.bytes = 0, IsBuffer(writeBuffer')
    PROVE  WrittenFits'
  <1>1. Len(writeBuffer') \in Nat
    BY LenProperties DEF IsBuffer
  <1>2. SubSeq(writeBuffer', 1, 0) = << >>
    BY SubSeqEmpty
  <1>3. BytesIn(SubSeq(writeBuffer', 1, 0)) = << >>
    BY <1>2, NoBytes
  <1>4. Len(BytesIn(SubSeq(writeBuffer', 1, 0))) = 0
    BY <1>3, EmptySeq
  <1> QED
    BY <1>1, <1>4 DEF WrittenFits, Iov

LEMMA IdleIs ==
    Idle.blocks = 0 /\ Idle.bytes = 0 /\ ~ Idle.active /\ ~ Idle.error /\ Idle \in Writing
  BY DEF Idle, Writing

(* The batch is left alone, or a write of another thread is taken from it. *)
BatchStep == \/ batch' = batch
             \/ batch # << >> /\ batch' = Tail(batch) /\ Head(batch).kind = "write"

LEMMA BatchSteps ==
    ASSUME batch \in Seq(Tasks), BatchStep
    PROVE  /\ batch' \in Seq(Tasks)
           /\ NoDeregister(batch) => NoDeregister(batch')
           /\ OnlyWrites(batch) => OnlyWrites(batch')
           /\ Ending(batch) => Ending(batch')
           /\ batch = << >> => batch' = << >>
  <1>1. CASE batch' = batch
    BY <1>1
  <1>2. CASE batch # << >> /\ batch' = Tail(batch) /\ Head(batch).kind = "write"
    <2>1. Head(batch) # Deregister
      BY <1>2, TaskKinds
    <2> QED
      BY <1>2, <2>1, TailOfTasks
  <1> QED
    BY <1>1, <1>2 DEF BatchStep

(* channelInActive() puts deregister() behind all other tasks.             *)
LEMMA DeregisterPosted ==
    ASSUME TypeOK, NEW before, Completes(before), channelInActive(before)
    PROVE  /\ state' = "INACTIVE" /\ disconnects' = disconnects + 1 /\ disconnects' \in Nat
           /\ tasks' \in Seq(Tasks) /\ (NoDeregister(tasks) => Ending(tasks'))
  <1>1. PICK q : q = tasks \o before
    OBVIOUS
  <1>2. q \in Seq(Tasks) /\ (NoDeregister(tasks) => NoDeregister(q))
    BY <1>1, ConcatTasks DEF TypeOK
  <1>3. tasks' = Append(q, Deregister)
    <2>1. Deregister \in Tasks
      BY TaskKinds
    <2>2. q \o <<Deregister>> = Append(q, Deregister)
      BY <1>2, <2>1, AppendIsConcat
    <2>3. tasks' = q \o <<Deregister>>
      BY <1>1 DEF channelInActive
    <2> QED
      BY <2>2, <2>3
  <1>4. tasks' \in Seq(Tasks) /\ (NoDeregister(tasks) => Ending(tasks'))
    BY <1>2, <1>3, TaskKinds, AppendToTasks
  <1> QED
    BY <1>4 DEF channelInActive, TypeOK

(* On a channel that is up, it is the one Disconnect that is fired and the *)
(* one deregister() that is posted.                                        *)
LEMMA GoesDown ==
    ASSUME TypeOK, Ends, state # "INACTIVE", BatchStep, UNCHANGED <<life, owned, userOps>>,
           NEW before, Completes(before), channelInActive(before)
    PROVE  /\ state' = "INACTIVE" /\ tasks' \in Seq(Tasks) /\ disconnects' \in Nat
           /\ Ends'
  <1>1. /\ state' = "INACTIVE" /\ disconnects' = disconnects + 1 /\ disconnects' \in Nat
        /\ tasks' \in Seq(Tasks) /\ (NoDeregister(tasks) => Ending(tasks'))
    BY DeregisterPosted
  <1>2. ASSUME userOps = 0
        PROVE  GoingDown'
    <2>1. Up
      BY <1>2 DEF Ends, GoingDown, Down
    <2>2. NoDeregister(batch')
      BY <2>1, BatchSteps DEF Up, TypeOK
    <2>3. disconnects' = 1
      BY <1>1, <2>1 DEF Up
    <2> QED
      BY <1>1, <2>1, <2>2, <2>3 DEF Up, GoingDown
  <1> QED
    BY <1>1, <1>2 DEF Ends


LEMMA QuietIsIdle ==
    ASSUME Rounds, Quiet
    PROVE  /\ written = Idle /\ written.blocks = 0 /\ written.bytes = 0 /\ ~ written.error
  BY IdleIs DEF Rounds

(* What becomes of the socket.                                             *)
LEMMA Sockets ==
    ASSUME NEW k \in Socket
    PROVE  /\ [k EXCEPT !.inbound = 0] \in Socket
           /\ [k EXCEPT !.inbound = 0].broken = k.broken
           /\ [k EXCEPT !.inbound = 0].wrShut = k.wrShut
           /\ [k EXCEPT !.rdShut = TRUE] \in Socket
           /\ [k EXCEPT !.rdShut = TRUE].broken = k.broken
           /\ [k EXCEPT !.rdShut = TRUE].wrShut = k.wrShut
           /\ [k EXCEPT !.wrShut = TRUE] \in Socket
           /\ [k EXCEPT !.wrShut = TRUE].broken = k.broken
           /\ [k EXCEPT !.wrShut = TRUE].wrShut
           /\ [k EXCEPT !.rdShut = TRUE, !.wrShut = TRUE] \in Socket
           /\ [k EXCEPT !.rdShut = TRUE, !.wrShut = TRUE].broken = k.broken
           /\ [k EXCEPT !.rdShut = TRUE, !.wrShut = TRUE].wrShut
           /\ [k EXCEPT !.inbound = @ + 1] \in Socket
           /\ [k EXCEPT !.inbound = @ + 1].broken = k.broken
           /\ [k EXCEPT !.inbound = @ + 1].wrShut = k.wrShut
           /\ [k EXCEPT !.eof = TRUE] \in Socket
           /\ [k EXCEPT !.eof = TRUE].broken = k.broken
           /\ [k EXCEPT !.eof = TRUE].wrShut = k.wrShut
           /\ [k EXCEPT !.broken = TRUE] \in Socket
           /\ [k EXCEPT !.broken = TRUE].broken
           /\ [k EXCEPT !.broken = TRUE].wrShut = k.wrShut
  <1>1. /\ [k EXCEPT !.inbound = 0] \in Socket
        /\ [k EXCEPT !.inbound = 0].broken = k.broken
        /\ [k EXCEPT !.inbound = 0].wrShut = k.wrShut
    BY DEF Socket
  <1>2. /\ [k EXCEPT !.rdShut = TRUE] \in Socket
        /\ [k EXCEPT !.rdShut = TRUE].broken = k.broken
        /\ [k EXCEPT !.rdShut = TRUE].wrShut = k.wrShut
    BY DEF Socket
  <1>3. /\ [k EXCEPT !.wrShut = TRUE] \in Socket
        /\ [k EXCEPT !.wrShut = TRUE].broken = k.broken
        /\ [k EXCEPT !.wrShut = TRUE].wrShut
    BY DEF Socket
  <1>4. /\ [k EXCEPT !.rdShut = TRUE, !.wrShut = TRUE] \in Socket
        /\ [k EXCEPT !.rdShut = TRUE, !.wrShut = TRUE].broken = k.broken
        /\ [k EXCEPT !.rdShut = TRUE, !.wrShut = TRUE].wrShut
    BY DEF Socket
  <1>5. /\ [k EXCEPT !.inbound = @ + 1] \in Socket
        /\ [k EXCEPT !.inbound = @ + 1].broken = k.broken
        /\ [k EXCEPT !.inbound = @ + 1].wrShut = k.wrShut
    BY DEF Socket
  <1>6. /\ [k EXCEPT !.eof = TRUE] \in Socket
        /\ [k EXCEPT !.eof = TRUE].broken = k.broken
        /\ [k EXCEPT !.eof = TRUE].wrShut = k.wrShut
    BY DEF Socket
  <1>7. /\ [k EXCEPT !.broken = TRUE] \in Socket
        /\ [k EXCEPT !.broken = TRUE].broken
        /\ [k EXCEPT !.broken = TRUE].wrShut = k.wrShut
    BY DEF Socket
  <1> QED
    BY <1>1, <1>2, <1>3, <1>4, <1>5, <1>6, <1>7

LEMMA WrittenKept ==
    ASSUME WrittenFits, UNCHANGED <<written, writeBuffer>>
    PROVE  WrittenFits'
  BY DEF WrittenFits, Iov

-----------------------------------------------------------------------------
(* Every action keeps the invariant.                                       *)

LEMMA StepChannelActive ==
    IInv /\ channelActive => IInv'
  <1>1. SUFFICES ASSUME IInv, channelActive
                 PROVE  IInv'
    OBVIOUS
  <1>2. /\ life = "new" /\ state' \in {state, "ACTIVE"} /\ life' \in {"alive", "destroyed"}
        /\ UNCHANGED <<use, writeBuffer, writeCompleteCallbacks, written, readyEvents, phase, tasks,
                       batch, kernel, wire, completed, disconnects, accepted, userOps>>
    BY <1>1 DEF channelActive, bufferVars, userVars
  <1>3. /\ state = "INACTIVE" /\ tasks = << >> /\ batch = << >> /\ writeBuffer = << >>
        /\ wire = << >> /\ accepted = 0 /\ ~ kernel.wrShut /\ readyEvents = {} /\ Quiet
    BY <1>1, <1>2 DEF IInv, Rounds
  <1>4. TypeOK'
    BY <1>1, <1>2 DEF IInv, TypeOK
  <1>5. Rounds'
    BY <1>1, <1>2, <1>3 DEF IInv, Rounds, Quiet
  <1>6. Ends'
    <2>1. SUFFICES ASSUME userOps = 0
                   PROVE  Up' \/ Down'
      BY <1>2 DEF Ends
    <2>2. Down /\ disconnects = 0
      BY <1>1, <1>2, <2>1 DEF IInv, Ends, Up, GoingDown, Down
    <2>3. CASE life' = "alive"
      <3>1. owned' /\ state' = "ACTIVE"
        BY <1>1, <2>3 DEF channelActive
      <3> QED
        BY <1>2, <1>3, <2>2, <2>3, <3>1, NoTasks DEF Up
    <2>4. CASE life' = "destroyed"
      <3>1. owned' = owned /\ state' = state
        BY <1>1, <2>4 DEF channelActive
      <3> QED
        BY <1>2, <2>2, <2>4, <3>1 DEF Down
    <2> QED
      BY <1>2, <2>3, <2>4
  <1>7. CallbacksInOrder'
    BY <1>1, <1>2, CallbacksKept DEF IInv, CanSend
  <1>8. WrittenFits'
    BY <1>1, <1>2, WrittenKept DEF IInv
  <1>9. Counted'
    <2>1. Len(wire) = 0 /\ Len(BytesIn(writeBuffer)) = 0
      BY <1>3, NoBytes, EmptySeq
    <2>2. written.bytes = 0 /\ ~ written.error
      BY <1>1, <1>3, QuietIsIdle DEF IInv
    <2>3. userOps = 0 => UpTo(completed, Len(wire))
      BY <1>1 DEF IInv, Counted
    <2> QED
      BY <1>2, <1>3, <2>1, <2>2, <2>3 DEF Counted
  <1> QED
    BY <1>4, <1>5, <1>6, <1>7, <1>8, <1>9 DEF IInv

LEMMA StepPoll ==
    IInv /\ Poll => IInv'
  <1>1. SUFFICES ASSUME IInv, Poll
                 PROVE  IInv'
    OBVIOUS
  <1>2. /\ phase = "poll" /\ phase' = "handle"
        /\ UNCHANGED <<use, state, owned, life, writeBuffer, writeCompleteCallbacks, written, tasks,
                       batch, kernel, wire, completed, disconnects, accepted, userOps>>
    BY <1>1 DEF Poll, bufferVars, userVars
  <1>3. /\ readyEvents' # {} => life = "alive"
        /\ "error" \in readyEvents' => HungUp
    BY <1>1 DEF Poll
  <1>4. batch = << >> /\ Quiet
    BY <1>1, <1>2 DEF IInv, Rounds
  <1>5. TypeOK'
    BY <1>1, <1>2 DEF IInv, TypeOK
  <1>6. Rounds'
    BY <1>1, <1>2, <1>3, <1>4 DEF IInv, Rounds, Quiet
  <1>7. Ends'
    BY <1>1, <1>2, EndsKept DEF IInv
  <1>8. CallbacksInOrder'
    BY <1>1, <1>2, CallbacksKept DEF IInv, CanSend
  <1>9. WrittenFits'
    BY <1>1, <1>2, WrittenKept DEF IInv
  <1>10. Counted'
    BY <1>1, <1>2, <1>3 DEF IInv, Counted, HungUp
  <1> QED
    BY <1>5, <1>6, <1>7, <1>8, <1>9, <1>10 DEF IInv

LEMMA StepErrorEvent ==
    IInv /\ handleErrorEvent => IInv'
  <1>1. SUFFICES ASSUME IInv, handleErrorEvent
                 PROVE  IInv'
    OBVIOUS
  <1>2. /\ Quiet /\ "error" \in readyEvents /\ readyEvents' \subseteq readyEvents
        /\ UNCHANGED <<use, owned, life, phase, batch, writeBuffer, writeCompleteCallbacks, written,
                       kernel, wire, completed, accepted, userOps>>
    BY <1>1 DEF handleErrorEvent, Handled, loopVars, bufferVars, userVars
  <1>3. life = "alive" /\ phase = "handle"
    BY <1>1, <1>2 DEF IInv, Rounds
  <1>4. CallbacksInOrder'
    BY <1>1, <1>2, CallbacksKept DEF IInv, CanSend
  <1>5. WrittenFits'
    BY <1>1, <1>2, WrittenKept DEF IInv
  <1>6. CASE state = "INACTIVE"
    <2>1. UNCHANGED <<state, tasks, disconnects>>
      BY <1>1, <1>6 DEF handleErrorEvent
    <2>2. TypeOK'
      BY <1>1, <1>2, <2>1 DEF IInv, TypeOK
    <2>3. Rounds'
      BY <1>1, <1>2, <1>3, <2>1 DEF IInv, Rounds, Quiet
    <2>4. Ends'
      BY <1>1, <1>2, <2>1, EndsKept DEF IInv
    <2>5. Counted'
      BY <1>1, <1>2, <2>1, CountedKept DEF IInv
    <2> QED
      BY <1>4, <1>5, <2>2, <2>3, <2>4, <2>5 DEF IInv
  <1>7. CASE state # "INACTIVE"
    <2>1. channelInActive(<< >>) /\ Completes(<< >>)
      BY <1>1, <1>7, EmptySeq DEF handleErrorEvent, Completes
    <2>2. state' = "INACTIVE" /\ tasks' \in Seq(Tasks) /\ disconnects' \in Nat /\ Ends'
      BY <1>1, <1>2, <1>7, <2>1, GoesDown DEF IInv, BatchStep
    <2>3. TypeOK'
      BY <1>1, <1>2, <2>2 DEF IInv, TypeOK
    <2>4. Rounds'
      BY <1>1, <1>2, <1>3, <2>2 DEF IInv, Rounds, Quiet
    <2>5. Counted'
      BY <1>1, <1>2, <1>7, <2>2 DEF IInv, Counted
    <2> QED
      BY <1>4, <1>5, <2>2, <2>3, <2>4, <2>5 DEF IInv
  <1> QED
    BY <1>6, <1>7

LEMMA StepReadEvent ==
    IInv /\ handleReadEvent => IInv'
  <1>1. SUFFICES ASSUME IInv, handleReadEvent
                 PROVE  IInv'
    OBVIOUS
  <1>2. /\ Quiet /\ "read" \in readyEvents /\ readyEvents' \subseteq readyEvents
        /\ UNCHANGED <<use, owned, life, phase, batch, writeCompleteCallbacks, written,
                       wire, completed, accepted, userOps>>
    BY <1>1 DEF handleReadEvent, Handled, loopVars, userVars
  <1>3. life = "alive" /\ phase = "handle" /\ IsBuffer(<< >>)
    BY <1>1, <1>2, EmptySeq DEF IInv, Rounds, IsBuffer
  <1>4. written.blocks = 0 /\ written.bytes = 0 /\ ~ written.error
    BY <1>1, <1>2, QuietIsIdle DEF IInv
  <1>5. /\ kernel' \in Socket /\ kernel'.broken = kernel.broken
        /\ kernel.wrShut => kernel'.wrShut
    <2>1. kernel' \in {kernel, [kernel EXCEPT !.inbound = 0], [kernel EXCEPT !.rdShut = TRUE],
                       [kernel EXCEPT !.rdShut = TRUE, !.wrShut = TRUE]}
      BY <1>1 DEF handleReadEvent, NothingRead, shutdown, shutdownRead
    <2> QED
      BY <1>1, <2>1, Sockets, ZenonT(60) DEF IInv, TypeOK
  <1>6. CASE UNCHANGED <<state, writeBuffer, tasks, disconnects>> /\ kernel'.wrShut = kernel.wrShut
    <2>1. TypeOK'
      BY <1>1, <1>2, <1>5, <1>6 DEF IInv, TypeOK
    <2>2. Rounds'
      BY <1>1, <1>2, <1>3, <1>6 DEF IInv, Rounds, Quiet
    <2>3. Ends'
      BY <1>1, <1>2, <1>6, EndsKept DEF IInv
    <2>4. CallbacksInOrder'
      BY <1>1, <1>2, <1>5, <1>6, CallbacksKept DEF IInv, CanSend
    <2>5. WrittenFits'
      BY <1>1, <1>2, <1>6, WrittenKept DEF IInv
    <2>6. Counted'
      BY <1>1, <1>2, <1>5, <1>6, CountedKept DEF IInv
    <2> QED
      BY <2>1, <2>2, <2>3, <2>4, <2>5, <2>6 DEF IInv
  <1>7. CASE writeBuffer = << >> /\ shutdown /\ state # "INACTIVE"
    <2>1. channelInActive(<< >>) /\ Completes(<< >>) /\ writeBuffer' = << >> /\ kernel'.wrShut
      BY <1>1, <1>7, EmptySeq DEF shutdown, Completes, IInv, TypeOK, Socket
    <2>2. state' = "INACTIVE" /\ tasks' \in Seq(Tasks) /\ disconnects' \in Nat /\ Ends'
      BY <1>1, <1>2, <1>7, <2>1, GoesDown DEF IInv, BatchStep
    <2>3. TypeOK'
      BY <1>1, <1>2, <1>3, <1>5, <2>1, <2>2 DEF IInv, TypeOK
    <2>4. Rounds'
      BY <1>1, <1>2, <1>3, <2>2 DEF IInv, Rounds, Quiet
    <2>5. CallbacksInOrder'
      BY <1>1, <1>2, <1>7, <2>1, CallbacksKept DEF IInv, CanSend
    <2>6. WrittenFits'
      BY <1>2, <1>3, <1>4, <2>1, IdleFits
    <2>7. Counted'
      <3>1. Len(BytesIn(writeBuffer)) = 0
        BY <1>7, NoBytes, EmptySeq
      <3>2. Len(wire) \in Nat /\ accepted \in Nat
        BY <1>1, LenProperties DEF IInv, TypeOK
      <3>3. userOps = 0 => Len(wire) = accepted
        BY <1>1, <1>4, <1>7, <3>1, <3>2 DEF IInv, Counted
      <3> QED
        BY <1>1, <1>2, <2>2, <3>3 DEF IInv, Counted
    <2> QED
      BY <2>2, <2>3, <2>4, <2>5, <2>6, <2>7 DEF IInv
  <1>8. CASE shutdownRead /\ state # "INACTIVE"
    <2>1. /\ UNCHANGED <<writeBuffer, tasks, disconnects>> /\ state' = "HALF_CLOSE"
          /\ kernel'.wrShut = kernel.wrShut
      BY <1>1, <1>8 DEF shutdownRead, IInv, TypeOK, Socket
    <2>2. TypeOK'
      BY <1>1, <1>2, <1>5, <2>1 DEF IInv, TypeOK
    <2>3. Rounds'
      BY <1>1, <1>2, <1>3, <2>1 DEF IInv, Rounds, Quiet
    <2>4. Ends'
      BY <1>1, <1>2, <1>8, <2>1 DEF IInv, Ends, Up, GoingDown, Down
    <2>5. CallbacksInOrder'
      BY <1>1, <1>2, <1>5, <2>1, CallbacksKept DEF IInv, CanSend
    <2>6. WrittenFits'
      BY <1>1, <1>2, <2>1, WrittenKept DEF IInv
    <2>7. Counted'
      BY <1>1, <1>2, <1>5, <1>8, <2>1 DEF IInv, Counted
    <2> QED
      BY <2>2, <2>3, <2>4, <2>5, <2>6, <2>7 DEF IInv
  <1>9. CASE /\ state # "INACTIVE" /\ kernel.broken /\ channelInActive(<< >>)
             /\ writeBuffer' = writeBuffer /\ kernel'.wrShut = kernel.wrShut
    <2>1. Completes(<< >>)
      BY EmptySeq DEF Completes
    <2>2. state' = "INACTIVE" /\ tasks' \in Seq(Tasks) /\ disconnects' \in Nat /\ Ends'
      BY <1>1, <1>2, <1>9, <2>1, GoesDown DEF IInv, BatchStep
    <2>3. TypeOK'
      BY <1>1, <1>2, <1>5, <1>9, <2>2 DEF IInv, TypeOK
    <2>4. Rounds'
      BY <1>1, <1>2, <1>3, <2>2 DEF IInv, Rounds, Quiet
    <2>5. CallbacksInOrder'
      BY <1>1, <1>2, <1>5, <1>9, CallbacksKept DEF IInv, CanSend
    <2>6. WrittenFits'
      BY <1>1, <1>2, <1>9, WrittenKept DEF IInv
    <2>7. Counted'
      BY <1>1, <1>2, <1>5, <1>9, <2>2 DEF IInv, Counted
    <2> QED
      BY <2>2, <2>3, <2>4, <2>5, <2>6, <2>7 DEF IInv
  <1>10. kernel'.wrShut = kernel.wrShut \/ (writeBuffer = << >> /\ shutdown)
    BY <1>1 DEF handleReadEvent, NothingRead, shutdownRead, IInv, TypeOK, Socket
  <1>11. doRead < 0 => kernel.broken
    BY <1>1 DEF doRead, IInv, TypeOK, Socket
  <1> QED
    BY <1>1, <1>6, <1>7, <1>8, <1>9, <1>10, <1>11 DEF handleReadEvent, NothingRead, handleReadError


LEMMA StepStartWrite ==
    IInv /\ StartWrite => IInv'
  <1>1. SUFFICES ASSUME IInv, StartWrite
                 PROVE  IInv'
    OBVIOUS
  <1>2. /\ Quiet /\ readyEvents = {"write"} /\ readyEvents' = {}
        /\ UNCHANGED <<use, state, owned, life, phase, batch, writeBuffer, writeCompleteCallbacks,
                       tasks, kernel, wire, completed, disconnects, accepted, userOps>>
    BY <1>1 DEF StartWrite, Handled, loopVars, bufferVars, userVars
  <1>3. /\ written' \in Writing /\ written'.blocks = 0 /\ written'.bytes = 0 /\ ~ written'.error
        /\ written'.active <=> state # "INACTIVE"
        /\ state = "INACTIVE" => written' = Idle
    BY <1>1 DEF StartWrite, Idle, Writing
  <1>4. life = "alive" /\ phase = "handle"
    BY <1>1, <1>2 DEF IInv, Rounds
  <1>5. TypeOK'
    BY <1>1, <1>2, <1>3 DEF IInv, TypeOK
  <1>6. Rounds'
    BY <1>1, <1>2, <1>3, <1>4 DEF IInv, Rounds, Quiet
  <1>7. Ends'
    BY <1>1, <1>2, EndsKept DEF IInv
  <1>8. CallbacksInOrder'
    BY <1>1, <1>2, CallbacksKept DEF IInv, CanSend
  <1>9. WrittenFits'
    BY <1>1, <1>2, <1>3, IdleFits DEF IInv, TypeOK
  <1>10. Counted'
    <2>1. written.bytes = 0
      BY <1>1, <1>2, QuietIsIdle DEF IInv
    <2> QED
      BY <1>1, <1>2, <1>3, <2>1, CountedKept DEF IInv
  <1> QED
    BY <1>5, <1>6, <1>7, <1>8, <1>9, <1>10 DEF IInv

LEMMA StepSwapTasks ==
    IInv /\ SwapTasks => IInv'
  <1>1. SUFFICES ASSUME IInv, SwapTasks
                 PROVE  IInv'
    OBVIOUS
  <1>2. /\ phase = "handle" /\ Quiet /\ readyEvents = {}
        /\ phase' = "tasks" /\ batch' = tasks /\ tasks' = << >>
        /\ UNCHANGED <<use, state, owned, life, writeBuffer, writeCompleteCallbacks, written,
                       readyEvents, kernel, wire, completed, disconnects, accepted, userOps>>
    BY <1>1 DEF SwapTasks, bufferVars, userVars
  <1>3. batch = << >>
    BY <1>1, <1>2 DEF IInv, Rounds
  <1>4. TypeOK'
    BY <1>1, <1>2, NoTasks DEF IInv, TypeOK
  <1>5. Rounds'
    BY <1>1, <1>2 DEF IInv, Rounds, Quiet
  <1>6. Ends'
    BY <1>1, <1>2, <1>3, NoTasks DEF IInv, Ends, Up, GoingDown, Down
  <1>7. CallbacksInOrder'
    BY <1>1, <1>2, CallbacksKept DEF IInv, CanSend
  <1>8. WrittenFits'
    BY <1>1, <1>2, WrittenKept DEF IInv
  <1>9. Counted'
    BY <1>1, <1>2, CountedKept DEF IInv
  <1> QED
    BY <1>4, <1>5, <1>6, <1>7, <1>8, <1>9 DEF IInv

(* A task that only the loop and the user see.                             *)
LEMMA StepRunTask ==
    IInv /\ (RunDeregister \/ RunComplete) => IInv'
  <1>1. SUFFICES ASSUME IInv, RunDeregister \/ RunComplete
                 PROVE  IInv'
    OBVIOUS
  <1>2. /\ phase = "tasks" /\ batch # << >> /\ batch' = Tail(batch)
        /\ UNCHANGED <<use, state, life, phase, writeBuffer, writeCompleteCallbacks, written,
                       readyEvents, tasks, kernel, wire, completed, disconnects, accepted, userOps>>
    BY <1>1 DEF RunDeregister, RunComplete, bufferVars, userVars
  <1>3. batch \in Seq(Tasks) /\ batch' \in Seq(Tasks) /\ life # "new"
    BY <1>1, <1>2, TailOfTasks DEF IInv, TypeOK, Rounds
  <1>4. TypeOK'
    BY <1>1, <1>2, <1>3 DEF IInv, TypeOK
  <1>5. Rounds'
    BY <1>1, <1>2, <1>3 DEF IInv, Rounds, Quiet
  <1>6. Ends'
    <2>1. SUFFICES ASSUME userOps = 0
                   PROVE  Up' \/ GoingDown' \/ Down'
      BY <1>2 DEF Ends
    <2>2. Up \/ GoingDown \/ Down
      BY <1>1, <2>1 DEF IInv, Ends
    <2>3. CASE Head(batch) = Deregister /\ owned' = FALSE
      <3>1. ~ NoDeregister(batch) /\ ~ OnlyWrites(batch)
        BY <1>2, <1>3, <2>3, TailOfTasks, TaskKinds
      <3>2. GoingDown /\ Ending(batch) /\ OnlyWrites(tasks)
        BY <2>2, <3>1 DEF Up, GoingDown, Down
      <3>3. OnlyWrites(batch')
        BY <1>2, <1>3, <2>3, <3>2, TailOfTasks
      <3> QED
        BY <1>2, <1>3, <2>3, <3>2, <3>3 DEF GoingDown, Down
    <2>4. CASE Head(batch).kind = "complete" /\ owned' = owned
      <3>1. Head(batch) # Deregister /\ ~ OnlyWrites(batch)
        BY <1>2, <1>3, <2>4, TailOfTasks, TaskKinds
      <3>2. (NoDeregister(batch) => NoDeregister(batch')) /\ (Ending(batch) => Ending(batch'))
        BY <1>2, <1>3, <3>1, TailOfTasks
      <3> QED
        BY <1>2, <2>2, <2>4, <3>1, <3>2 DEF Up, GoingDown, Down
    <2> QED
      BY <1>1, <2>3, <2>4 DEF RunDeregister, RunComplete
  <1>7. CallbacksInOrder'
    BY <1>1, <1>2, CallbacksKept DEF IInv, CanSend
  <1>8. WrittenFits'
    BY <1>1, <1>2, WrittenKept DEF IInv
  <1>9. Counted'
    BY <1>1, <1>2, CountedKept DEF IInv
  <1> QED
    BY <1>4, <1>5, <1>6, <1>7, <1>8, <1>9 DEF IInv

LEMMA StepEndTasks ==
    IInv /\ EndTasks => IInv'
  <1>1. SUFFICES ASSUME IInv, EndTasks
                 PROVE  IInv'
    OBVIOUS
  <1>2. /\ phase = "tasks" /\ batch = << >> /\ phase' = "poll"
        /\ UNCHANGED <<use, state, owned, batch, writeBuffer, writeCompleteCallbacks, written,
                       readyEvents, tasks, kernel, wire, completed, disconnects, accepted, userOps>>
    BY <1>1 DEF EndTasks, bufferVars, userVars
  <1>3. life' = life \/ (life = "alive" /\ life' = "destroyed" /\ ~ owned)
    BY <1>1 DEF EndTasks
  <1>4. readyEvents = {} /\ Quiet
    BY <1>1, <1>2 DEF IInv, Rounds
  <1>5. TypeOK'
    BY <1>1, <1>2, <1>3 DEF IInv, TypeOK
  <1>6. Rounds'
    BY <1>1, <1>2, <1>3, <1>4 DEF IInv, Rounds, Quiet
  <1>7. Ends'
    BY <1>1, <1>2, <1>3 DEF IInv, Ends, Up, GoingDown, Down
  <1>8. CallbacksInOrder'
    BY <1>1, <1>2, CallbacksKept DEF IInv, CanSend
  <1>9. WrittenFits'
    BY <1>1, <1>2, WrittenKept DEF IInv
  <1>10. Counted'
    BY <1>1, <1>2, CountedKept DEF IInv
  <1> QED
    BY <1>5, <1>6, <1>7, <1>8, <1>9, <1>10 DEF IInv

LEMMA StepPeer ==
    IInv /\ Peer => IInv'
  <1>1. SUFFICES ASSUME IInv, Peer
                 PROVE  IInv'
    OBVIOUS
  <1>2. /\ life = "alive"
        /\ UNCHANGED <<use, state, owned, life, phase, batch, writeBuffer, writeCompleteCallbacks,
                       written, readyEvents, tasks, wire, completed, disconnects, accepted, userOps>>
    BY <1>1 DEF Peer, loopVars, bufferVars, userVars
  <1>3. /\ kernel' \in Socket /\ kernel'.wrShut = kernel.wrShut
        /\ kernel.broken => kernel'.broken
    <2>1. kernel \in Socket
      BY <1>1 DEF IInv, TypeOK
    <2>2. kernel' \in {[kernel EXCEPT !.inbound = @ + 1], [kernel EXCEPT !.eof = TRUE],
                       [kernel EXCEPT !.broken = TRUE]}
      BY <1>1 DEF Peer
    <2> QED
      BY <2>1, <2>2, Sockets
  <1>4. TypeOK'
    BY <1>1, <1>2, <1>3 DEF IInv, TypeOK
  <1>5. Rounds'
    BY <1>1, <1>2 DEF IInv, Rounds, Quiet
  <1>6. Ends'
    BY <1>1, <1>2, EndsKept DEF IInv
  <1>7. CallbacksInOrder'
    BY <1>1, <1>2, <1>3, CallbacksKept DEF IInv, CanSend
  <1>8. WrittenFits'
    BY <1>1, <1>2, WrittenKept DEF IInv
  <1>9. Counted'
    BY <1>1, <1>2, <1>3, CountedKept DEF IInv
  <1> QED
    BY <1>4, <1>5, <1>6, <1>7, <1>8, <1>9 DEF IInv

LEMMA StepRemoteWrite ==
    ASSUME NEW length \in use.lengths
    PROVE  IInv /\ RemoteWrite(length) => IInv'
  <1>1. SUFFICES ASSUME IInv, RemoteWrite(length)
                 PROVE  IInv'
    OBVIOUS
  <1>2. /\ life = "alive" /\ tasks' = Append(tasks, WriteTask(length))
        /\ UNCHANGED <<use, state, owned, life, phase, batch, writeBuffer, writeCompleteCallbacks,
                       written, readyEvents, kernel, wire, completed, disconnects, accepted, userOps>>
    BY <1>1 DEF RemoteWrite, loopVars, bufferVars, userVars
  <1>3. tasks \in Seq(Tasks) /\ WriteTask(length) \in Tasks /\ WriteTask(length).kind = "write"
        /\ WriteTask(length) # Deregister
    BY <1>1, TaskKinds, SocketChannelAssumption DEF IInv, TypeOK
  <1>4. /\ tasks' \in Seq(Tasks)
        /\ NoDeregister(tasks) => NoDeregister(tasks')
        /\ OnlyWrites(tasks) => OnlyWrites(tasks')
        /\ Ending(tasks) => Ending(tasks')
    BY <1>2, <1>3, AppendToTasks
  <1>5. TypeOK'
    BY <1>1, <1>2, <1>4 DEF IInv, TypeOK
  <1>6. Rounds'
    BY <1>1, <1>2 DEF IInv, Rounds, Quiet
  <1>7. Ends'
    BY <1>1, <1>2, <1>4 DEF IInv, Ends, Up, GoingDown, Down
  <1>8. CallbacksInOrder'
    BY <1>1, <1>2, CallbacksKept DEF IInv, CanSend
  <1>9. WrittenFits'
    BY <1>1, <1>2, WrittenKept DEF IInv
  <1>10. Counted'
    BY <1>1, <1>2, CountedKept DEF IInv
  <1> QED
    BY <1>5, <1>6, <1>7, <1>8, <1>9, <1>10 DEF IInv

LEMMA StepUserShutdown ==
    ASSUME NEW op
    PROVE  IInv /\ UserShutdown(op) => IInv'
  <1>1. SUFFICES ASSUME IInv, UserShutdown(op)
                 PROVE  IInv'
    OBVIOUS
  <1>2. /\ life = "alive" /\ Quiet /\ userOps' = userOps + 1
        /\ shutdown \/ shutdownRead \/ shutdownWrite
        /\ UNCHANGED <<use, owned, life, phase, batch, writeCompleteCallbacks, written,
                       readyEvents, wire, completed, accepted>>
    BY <1>1 DEF UserShutdown, loopVars, userVars
  <1>3. userOps' \in Nat /\ userOps' # 0
    BY <1>1, <1>2 DEF IInv, TypeOK
  <1>4. /\ state' \in {"INACTIVE", "HALF_CLOSE"} /\ tasks' \in Seq(Tasks) /\ disconnects' \in Nat
    <2>1. CASE shutdown
      <3>1. channelInActive(<< >>) /\ Completes(<< >>)
        BY <2>1, EmptySeq DEF shutdown, Completes
      <3> QED
        BY <1>1, <3>1, DeregisterPosted DEF IInv
    <2>2. CASE shutdownRead \/ shutdownWrite
      BY <1>1, <2>2 DEF shutdownRead, shutdownWrite, IInv, TypeOK
    <2> QED
      BY <1>2, <2>1, <2>2
  <1>5. kernel' \in Socket /\ kernel'.broken = kernel.broken
        /\ \/ writeBuffer' = << >> /\ kernel'.wrShut
           \/ writeBuffer' = writeBuffer /\ kernel'.wrShut = kernel.wrShut
    <2>1. kernel \in Socket
      BY <1>1 DEF IInv, TypeOK
    <2>2. CASE shutdown
      BY <2>1, <2>2, Sockets DEF shutdown
    <2>3. CASE shutdownRead
      BY <2>1, <2>3, Sockets DEF shutdownRead
    <2>4. CASE shutdownWrite
      BY <2>1, <2>4, Sockets DEF shutdownWrite
    <2> QED
      BY <1>2, <2>2, <2>3, <2>4
  <1>6. TypeOK'
    <2>1. IsBuffer(writeBuffer')
      BY <1>1, <1>5, EmptySeq DEF IInv, TypeOK, IsBuffer
    <2> QED
      BY <1>1, <1>2, <1>3, <1>4, <1>5, <2>1 DEF IInv, TypeOK
  <1>7. Rounds'
    BY <1>1, <1>2 DEF IInv, Rounds, Quiet
  <1>8. Ends' /\ Counted'
    BY <1>3 DEF Ends, Counted
  <1>9. CallbacksInOrder'
    BY <1>1, <1>2, <1>5 DEF IInv, CallbacksInOrder, CanSend
  <1>10. WrittenFits'
    <2>1. written.blocks = 0 /\ written.bytes = 0
      BY <1>1, <1>2, QuietIsIdle DEF IInv
    <2> QED
      BY <1>2, <1>6, <2>1, IdleFits DEF TypeOK
  <1> QED
    BY <1>6, <1>7, <1>8, <1>9, <1>10 DEF IInv


LEMMA Prefix ==
    ASSUME NEW s \in Seq(Byte), NEW n \in 0 .. Len(s)
    PROVE  SubSeq(s, 1, n) \in Seq(Byte) /\ Len(SubSeq(s, 1, n)) = n
  <1>1. Len(s) \in Nat /\ \A i \in 1 .. Len(s) : s[i] \in Byte
    BY LenProperties, ElementOfSeq
  <1>2. \A i \in 1 .. n : s[i] \in Byte
    BY <1>1
  <1> QED
    BY <1>1, <1>2, SubSeqProperties

(* The blocks that a call of ::writev() is given.                          *)
LEMMA Chunk ==
    ASSUME TypeOK, WrittenFits, LeftBlocks > 0
    PROVE  /\ Len(writeBuffer) \in Nat /\ written.blocks \in Nat
           /\ ChunkBlocks \in Nat /\ ChunkBlocks > 0
           /\ written.blocks + ChunkBlocks \in 0 .. Len(writeBuffer)
           /\ Iov(written.blocks + 1, written.blocks + ChunkBlocks) \in Seq(Byte)
           /\ Len(Iov(1, written.blocks + ChunkBlocks)) =
                Len(Iov(1, written.blocks))
                  + Len(Iov(written.blocks + 1, written.blocks + ChunkBlocks))
           /\ Len(Iov(1, written.blocks + ChunkBlocks)) <= Len(Iov(1, Len(writeBuffer)))
           /\ Len(Iov(1, written.blocks)) \in Nat
           /\ Len(Iov(written.blocks + 1, written.blocks + ChunkBlocks)) \in Nat
           /\ Len(Iov(1, Len(writeBuffer))) \in Nat
  <1>b. PICK b, c, n : b = written.blocks /\ c = ChunkBlocks /\ n = Len(writeBuffer)
    OBVIOUS
  <1>1. n \in Nat /\ b \in Nat /\ use.kMaxCountOfWriteVOnce \in Nat \ {0}
    BY <1>b, Iovecs, SocketChannelAssumption DEF TypeOK, Writing
  <1>2. c \in Nat /\ c > 0 /\ b + c <= n
    BY <1>b, <1>1 DEF LeftBlocks, ChunkBlocks
  <1>3. PICK e : e = b + c
    OBVIOUS
  <1>4. b \in 0 .. n /\ e \in b .. n /\ e \in 0 .. n /\ n \in e .. n
    BY <1>1, <1>2, <1>3
  <1>5. /\ Iov(b + 1, e) \in Seq(Byte) /\ Len(Iov(b + 1, e)) \in Nat /\ Len(Iov(1, b)) \in Nat
        /\ Len(Iov(1, e)) = Len(Iov(1, b)) + Len(Iov(b + 1, e))
    BY <1>b, <1>4, Iovecs DEF TypeOK
  <1>6. /\ Len(Iov(1, n)) = Len(Iov(1, e)) + Len(Iov(e + 1, n)) /\ Len(Iov(e + 1, n)) \in Nat
        /\ Len(Iov(1, e)) \in Nat
    BY <1>b, <1>4, Iovecs DEF TypeOK
  <1>7. Len(Iov(1, e)) <= Len(Iov(1, n)) /\ Len(Iov(1, n)) \in Nat
    BY <1>6
  <1> QED
    BY <1>b, <1>1, <1>2, <1>3, <1>4, <1>5, <1>7

LEMMA StepWritevChunk ==
    IInv /\ WritevChunk => IInv'
  <1>1. SUFFICES ASSUME IInv, WritevChunk
                 PROVE  IInv'
    OBVIOUS
  <1>2. /\ written.active /\ ~ written.error /\ LeftBlocks > 0
        /\ UNCHANGED <<use, state, owned, life, phase, batch, writeBuffer, writeCompleteCallbacks,
                       readyEvents, tasks, kernel, completed, disconnects, accepted, userOps>>
    BY <1>1 DEF WritevChunk, loopVars, bufferVars, userVars
  <1>3. state # "INACTIVE" /\ readyEvents = {} /\ phase = "handle" /\ life = "alive"
    BY <1>1, <1>2 DEF IInv, Rounds, Quiet
  <1>4. /\ written \in Writing /\ written.bytes \in Nat /\ wire \in Seq(Byte) /\ Len(wire) \in Nat
        /\ accepted \in Nat /\ IsBuffer(writeBuffer)
    BY <1>1, LenProperties DEF IInv, TypeOK, Writing
  <1>5. Ends'
    BY <1>1, <1>2, EndsKept DEF IInv
  <1>6. CallbacksInOrder'
    BY <1>1, <1>2, CallbacksKept DEF IInv, CanSend
  <1>7. CASE CanSend
    <2>b. PICK b, c, n : b = written.blocks /\ c = ChunkBlocks /\ n = Len(writeBuffer)
      OBVIOUS
    <2>d. PICK data : data = Iov(b + 1, b + c)
      OBVIOUS
    <2>1. PICK sent \in 0 .. Len(data) :
            /\ wire' = wire \o SubSeq(data, 1, sent)
            /\ written' = [written EXCEPT !.bytes = @ + sent,
                                          !.blocks = IF sent = 0 \/ sent < ExpectedWriteLen
                                                       THEN Len(writeBuffer) ELSE @ + ChunkBlocks]
      BY <1>1, <1>7, <2>b, <2>d DEF WritevChunk
    <2>2. /\ n \in Nat /\ b \in Nat /\ c \in Nat /\ b + c \in 0 .. n
          /\ data \in Seq(Byte) /\ Len(data) \in Nat
          /\ Len(Iov(1, b + c)) = Len(Iov(1, b)) + Len(data)
          /\ Len(Iov(1, b + c)) <= Len(Iov(1, n))
          /\ Len(Iov(1, b)) \in Nat /\ Len(Iov(1, n)) \in Nat
      BY <1>1, <1>2, <2>b, <2>d, Chunk DEF IInv
    <2>3. /\ written'.bytes = written.bytes + sent /\ written'.blocks \in {n, b + c}
          /\ written'.active /\ ~ written'.error /\ written' \in Writing
      <3>1. PICK k : k = IF sent = 0 \/ sent < ExpectedWriteLen THEN n ELSE b + c
        OBVIOUS
      <3>2. k \in {n, b + c} /\ k \in Nat /\ written.bytes + sent \in Nat
        BY <1>4, <2>2, <3>1
      <3>3. written' = [written EXCEPT !.bytes = written.bytes + sent, !.blocks = k]
        BY <1>4, <2>b, <2>1, <3>1 DEF Writing
      <3> QED
        BY <1>2, <1>4, <3>2, <3>3 DEF Writing
    <2>4. wire' \in Seq(Byte) /\ Len(wire') = Len(wire) + sent
      <3>1. SubSeq(data, 1, sent) \in Seq(Byte) /\ Len(SubSeq(data, 1, sent)) = sent
        BY <2>2, Prefix
      <3> QED
        BY <1>4, <2>1, <3>1, ConcatProperties
    <2>5. TypeOK'
      BY <1>1, <1>2, <2>3, <2>4 DEF IInv, TypeOK
    <2>6. Rounds'
      BY <1>1, <1>2, <1>3, <2>3 DEF IInv, Rounds, Quiet
    <2>7. WrittenFits'
      <3>1. written.bytes <= Len(Iov(1, b))
        BY <1>1, <2>b DEF IInv, WrittenFits
      <3>2. /\ written'.blocks <= n
            /\ \/ written'.blocks = n /\ written'.bytes <= Len(Iov(1, n))
               \/ written'.blocks = b + c /\ written'.bytes <= Len(Iov(1, b + c))
        BY <1>4, <2>2, <2>3, <3>1
      <3> QED
        BY <1>2, <2>b, <3>2 DEF WrittenFits, Iov
    <2>8. Counted'
      <3>1. SUFFICES ASSUME userOps = 0
                     PROVE  Counted'
        BY <1>2 DEF Counted
      <3>2. /\ ~ kernel.wrShut /\ UpTo(completed, Len(wire))
            /\ Len(wire) + Len(BytesIn(writeBuffer)) = accepted + written.bytes
        BY <1>1, <1>3, <3>1 DEF IInv, Counted
      <3>3. UpTo(completed, Len(wire'))
        <4>1. completed \in Seq(Byte) /\ Len(wire') \in Nat /\ Len(wire) <= Len(wire')
          BY <1>1, <1>4, <2>2, <2>4 DEF IInv, TypeOK
        <4> QED
          BY <1>4, <3>2, <4>1, UpToMore
      <3>4. Len(wire') + Len(BytesIn(writeBuffer)) = accepted + written'.bytes
        <4>1. PICK w, x, y, B : /\ w = Len(wire) /\ x = written.bytes /\ y = Len(wire')
                                /\ B = Len(BytesIn(writeBuffer))
          OBVIOUS
        <4>2. w \in Nat /\ x \in Nat /\ B \in Nat /\ accepted \in Nat /\ sent \in Nat
          BY <1>4, <2>2, <4>1, Iovecs
        <4>3. y = w + sent /\ written'.bytes = x + sent /\ w + B = accepted + x
          BY <2>3, <2>4, <3>2, <4>1
        <4>4. y + B = accepted + (x + sent)
          BY <4>2, <4>3
        <4> QED
          BY <4>1, <4>3, <4>4
      <3> QED
        BY <1>2, <1>3, <2>3, <3>2, <3>3, <3>4 DEF Counted
    <2> QED
      BY <1>5, <1>6, <2>5, <2>6, <2>7, <2>8 DEF IInv
  <1>8. CASE ~ CanSend
    <2>1. wire' = wire /\ written' = [written EXCEPT !.error = TRUE]
      BY <1>1, <1>8 DEF WritevChunk
    <2>2. /\ written'.bytes = written.bytes /\ written'.blocks = written.blocks
          /\ written'.active /\ written' \in Writing
      BY <1>2, <1>4, <2>1 DEF Writing
    <2>3. TypeOK'
      BY <1>1, <1>2, <2>1, <2>2 DEF IInv, TypeOK
    <2>4. Rounds'
      BY <1>1, <1>2, <1>3, <2>1, <2>2 DEF IInv, Rounds, Quiet
    <2>5. WrittenFits'
      BY <1>1, <1>2, <2>2 DEF IInv, WrittenFits, Iov
    <2>6. Counted'
      BY <1>1, <1>2, <1>3, <1>8, <2>1, <2>2 DEF IInv, Counted, CanSend
    <2> QED
      BY <1>5, <1>6, <2>3, <2>4, <2>5, <2>6 DEF IInv
  <1> QED
    BY <1>7, <1>8

LEMMA Posted ==
    ASSUME NEW s \in Seq(Byte)
    PROVE  Completes([i \in 1 .. Len(s) |-> Complete(s[i])])
  <1>1. PICK q : q = [i \in 1 .. Len(s) |-> Complete(s[i])]
    OBVIOUS
  <1>2. Len(s) \in Nat /\ \A i \in 1 .. Len(s) : s[i] \in Byte
    BY LenProperties, ElementOfSeq
  <1>3. \A i \in 1 .. Len(s) : Complete(s[i]) \in Tasks /\ Complete(s[i]).kind = "complete"
    BY <1>2, TaskKinds
  <1>4. q \in Seq(Tasks)
    BY <1>1, <1>2, <1>3, IsASeq
  <1>5. Len(q) = Len(s)
    <2>1. DOMAIN q = 1 .. Len(s)
      BY <1>1
    <2> QED
      BY <1>2, <1>4, <2>1, LenProperties
  <1>6. \A i \in 1 .. Len(q) : q[i].kind = "complete"
    BY <1>1, <1>3, <1>5
  <1> QED
    BY <1>1, <1>4, <1>6 DEF Completes

LEMMA WrittenWithin ==
    ASSUME TypeOK, WrittenFits
    PROVE  written.bytes <= Len(BytesIn(writeBuffer))
  <1>1. /\ written.blocks \in Nat /\ written.blocks <= Len(writeBuffer) /\ written.bytes \in Nat
        /\ written.bytes <= Len(Iov(1, written.blocks)) /\ Len(writeBuffer) \in Nat
    BY Iovecs DEF WrittenFits, TypeOK, Writing
  <1>2. PICK k, n : k = written.blocks /\ n = Len(writeBuffer)
    OBVIOUS
  <1>3. k \in 0 .. n /\ n \in k .. n
    BY <1>1, <1>2
  <1>4. /\ Len(Iov(1, n)) = Len(Iov(1, k)) + Len(Iov(k + 1, n))
        /\ Len(Iov(1, k)) \in Nat /\ Len(Iov(k + 1, n)) \in Nat
        /\ Iov(1, n) = BytesIn(writeBuffer)
    BY <1>2, <1>3, Iovecs DEF TypeOK
  <1>5. Len(Iov(1, k)) <= Len(Iov(1, n)) /\ Len(Iov(1, n)) \in Nat
    BY <1>4
  <1> QED
    BY <1>1, <1>2, <1>4, <1>5

LEMMA StepFinishWrite ==
    IInv /\ FinishWrite => IInv'
  <1>1. SUFFICES ASSUME IInv, FinishWrite
                 PROVE  IInv'
    OBVIOUS
  <1>2. /\ written.active /\ written' = Idle
        /\ UNCHANGED <<use, owned, life, phase, batch, readyEvents, kernel, wire, accepted, userOps>>
    BY <1>1 DEF FinishWrite, loopVars, userVars
  <1>3. state # "INACTIVE" /\ readyEvents = {} /\ phase = "handle" /\ life = "alive"
    BY <1>1, <1>2 DEF IInv, Rounds, Quiet
  <1>4. written'.blocks = 0 /\ written'.bytes = 0 /\ ~ written'.active /\ ~ written'.error
        /\ written' \in Writing
    BY <1>2, IdleIs
  <1>5. PICK B : B = Len(BytesIn(writeBuffer))
    OBVIOUS
  <1>6. /\ written.bytes \in Nat /\ Len(wire) \in Nat /\ accepted \in Nat /\ IsBuffer(writeBuffer)
        /\ B \in Nat
    BY <1>1, <1>5, LenProperties, Iovecs DEF IInv, TypeOK, Writing
  <1>7. userOps = 0 => /\ ~ kernel.wrShut /\ UpTo(completed, Len(wire))
                       /\ written.error => kernel.broken
                       /\ Len(wire) + B = accepted + written.bytes
    BY <1>1, <1>3, <1>5 DEF IInv, Counted
  <1>8. CASE /\ written.error /\ channelInActive(<< >>)
             /\ UNCHANGED <<writeBuffer, writeCompleteCallbacks, completed>>
    <2>1. Completes(<< >>)
      BY EmptySeq DEF Completes
    <2>2. state' = "INACTIVE" /\ tasks' \in Seq(Tasks) /\ disconnects' \in Nat /\ Ends'
      BY <1>1, <1>2, <1>3, <1>8, <2>1, GoesDown DEF IInv, BatchStep
    <2>3. TypeOK'
      BY <1>1, <1>2, <1>4, <1>8, <2>2 DEF IInv, TypeOK
    <2>4. Rounds'
      BY <1>1, <1>2, <1>3, <1>4, <2>2 DEF IInv, Rounds, Quiet
    <2>5. CallbacksInOrder'
      BY <1>1, <1>2, <1>8, CallbacksKept DEF IInv, CanSend
    <2>6. WrittenFits'
      BY <1>4, <2>3, IdleFits DEF TypeOK
    <2>7. Counted'
      BY <1>2, <1>7, <1>8, <2>2 DEF Counted
    <2> QED
      BY <2>2, <2>3, <2>4, <2>5, <2>6, <2>7 DEF IInv
  <1>9. CASE written.bytes = B /\ AllSent
    <2>p. PICK posted : posted = [i \in 1 .. Len(writeCompleteCallbacks) |->
                                     Complete(writeCompleteCallbacks[i])]
      OBVIOUS
    <2>1. /\ writeBuffer' = << >> /\ writeCompleteCallbacks' = << >>
          /\ completed' = completed \o writeCompleteCallbacks
          /\ \/ channelInActive(posted)
             \/ tasks' = tasks \o posted /\ state' = state /\ disconnects' = disconnects
      BY <1>9, <2>p DEF AllSent
    <2>2. /\ Completes(posted) /\ writeCompleteCallbacks \in Seq(Byte) /\ completed \in Seq(Byte)
      BY <1>1, <2>p, Posted DEF IInv, TypeOK
    <2>3. /\ tasks' \in Seq(Tasks) /\ disconnects' \in Nat /\ Ends'
          /\ state' \in {"INACTIVE", state}
      <3>1. CASE channelInActive(posted)
        BY <1>1, <1>2, <1>3, <2>2, <3>1, GoesDown DEF IInv, BatchStep
      <3>2. CASE tasks' = tasks \o posted /\ state' = state /\ disconnects' = disconnects
        <4>1. tasks' \in Seq(Tasks) /\ (NoDeregister(tasks) => NoDeregister(tasks'))
          BY <1>1, <2>2, <3>2, ConcatTasks DEF IInv, TypeOK
        <4> QED
          BY <1>1, <1>2, <1>3, <3>2, <4>1 DEF IInv, TypeOK, Ends, Up, GoingDown, Down
      <3> QED
        BY <2>1, <3>1, <3>2
    <2>4. /\ completed' \in Seq(Byte) /\ Rising(completed') /\ UpTo(completed', accepted)
      BY <1>1, <2>1, <2>2, ConcatMessages DEF IInv, CallbacksInOrder
    <2>5. TypeOK'
      <3>1. IsBuffer(writeBuffer')
        BY <2>1, EmptySeq DEF IsBuffer
      <3> QED
        BY <1>1, <1>2, <1>4, <2>1, <2>3, <2>4, <3>1, NoMessages DEF IInv, TypeOK
    <2>6. Rounds'
      BY <1>1, <1>2, <1>3, <1>4, <2>3 DEF IInv, Rounds, Quiet
    <2>7. CallbacksInOrder'
      BY <1>2, <2>1, <2>4, NoMessages DEF CallbacksInOrder
    <2>8. WrittenFits'
      BY <1>4, <2>5, IdleFits DEF TypeOK
    <2>9. Counted'
      <3>1. Len(BytesIn(writeBuffer')) = 0
        BY <2>1, NoBytes, EmptySeq
      <3>2. userOps = 0 => Len(wire) = accepted
        BY <1>6, <1>7, <1>9
      <3> QED
        BY <1>2, <1>3, <1>4, <1>6, <1>7, <2>4, <3>1, <3>2 DEF Counted
    <2> QED
      BY <2>3, <2>5, <2>6, <2>7, <2>8, <2>9 DEF IInv
  <1>10. CASE /\ written.bytes # B /\ writeBuffer' = removeSentBuffer(written.bytes)
              /\ UNCHANGED <<writeCompleteCallbacks, tasks, completed, state, disconnects>>
    <2>1. written.bytes < B
      BY <1>1, <1>5, <1>6, <1>10, WrittenWithin DEF IInv
    <2>2. /\ IsBuffer(writeBuffer') /\ writeBuffer' # << >>
          /\ BytesIn(writeBuffer') = Drop(BytesIn(writeBuffer), written.bytes)
      BY <1>5, <1>6, <1>10, <2>1, Removed
    <2>3. Len(BytesIn(writeBuffer')) = B - written.bytes
      <3>1. BytesIn(writeBuffer) \in Seq(Byte)
        BY <1>6, Iovecs
      <3>2. PICK s : s = BytesIn(writeBuffer)
        OBVIOUS
      <3>3. s \in Seq(Byte) /\ Len(s) = B /\ written.bytes <= B
        BY <1>5, <1>6, <2>1, <3>1, <3>2
      <3>4. Len(Drop(s, written.bytes)) = B - written.bytes
        BY <1>6, <3>3, DropLength
      <3> QED
        BY <2>2, <3>2, <3>4
    <2>4. TypeOK'
      BY <1>1, <1>2, <1>4, <1>10, <2>2 DEF IInv, TypeOK
    <2>5. Rounds'
      BY <1>1, <1>2, <1>3, <1>4, <1>10 DEF IInv, Rounds, Quiet
    <2>6. Ends'
      BY <1>1, <1>2, <1>10, EndsKept DEF IInv
    <2>7. CallbacksInOrder'
      BY <1>1, <1>2, <1>10, <2>2 DEF IInv, CallbacksInOrder
    <2>8. WrittenFits'
      BY <1>4, <2>2, IdleFits
    <2>9. Counted'
      <3>1. userOps = 0 => Len(wire) + (B - written.bytes) = accepted + 0
        BY <1>6, <1>7
      <3> QED
        BY <1>2, <1>3, <1>4, <1>7, <1>10, <2>3, <3>1 DEF Counted
    <2> QED
      BY <2>4, <2>5, <2>6, <2>7, <2>8, <2>9 DEF IInv
  <1> QED
    BY <1>1, <1>5, <1>8, <1>9, <1>10 DEF FinishWrite, handleWriteError, bufferVars


LEMMA BytesAre ==
    ASSUME NEW a \in Nat, NEW n \in Nat
    PROVE  Bytes(a, n) \in Seq(Byte) /\ Len(Bytes(a, n)) = n
           /\ \A i \in 1 .. n : Bytes(a, n)[i] = a + i - 1
  <1>1. \A i \in 1 .. n : a + i - 1 \in Nat
    OBVIOUS
  <1>2. [i \in 1 .. n |-> a + i - 1] \in Seq(Nat)
    BY <1>1, IsASeq
  <1>3. DOMAIN [i \in 1 .. n |-> a + i - 1] = 1 .. n
    OBVIOUS
  <1>4. Len([i \in 1 .. n |-> a + i - 1]) = n
    BY <1>2, <1>3, LenProperties
  <1>5. \A i \in 1 .. n : [j \in 1 .. n |-> a + j - 1][i] = a + i - 1
    OBVIOUS
  <1> QED
    BY <1>2, <1>4, <1>5 DEF Bytes, Byte

(* The loop's own state while write() runs.                                *)
WriteFrame == /\ UNCHANGED <<use, owned, life, phase, written, readyEvents, kernel, userOps>>
              /\ BatchStep

(* A message, or what the kernel did not take of it, is buffered.          *)
LEMMA WriteBuffers ==
    ASSUME IInv, Quiet, WriteFrame, NEW m \in Nat, accepted < m, accepted' = m,
           NEW rest \in Seq(Byte), rest # << >>, writeBuffer' = WithAppended(rest),
           writeCompleteCallbacks' = Append(writeCompleteCallbacks, m), completed' = completed
    PROVE  /\ IsBuffer(writeBuffer') /\ writeBuffer' # << >>
           /\ Len(BytesIn(writeBuffer')) = Len(BytesIn(writeBuffer)) + Len(rest)
           /\ writeCompleteCallbacks' \in Seq(Byte)
           /\ CallbacksInOrder' /\ WrittenFits'
  <1>1. /\ accepted \in Nat /\ IsBuffer(writeBuffer) /\ completed \in Seq(Byte)
        /\ writeCompleteCallbacks \in Seq(Byte)
    BY DEF IInv, TypeOK
  <1>2. /\ IsBuffer(writeBuffer') /\ writeBuffer' # << >> /\ BytesIn(writeBuffer) \in Seq(Byte)
        /\ BytesIn(writeBuffer') = BytesIn(writeBuffer) \o rest
    BY <1>1, Appended
  <1>3. Len(BytesIn(writeBuffer')) = Len(BytesIn(writeBuffer)) + Len(rest)
    BY <1>2, ConcatProperties
  <1>4. /\ Rising(completed) /\ Rising(writeCompleteCallbacks) /\ UpTo(completed, accepted)
        /\ UpTo(writeCompleteCallbacks, accepted) /\ Before(completed, writeCompleteCallbacks)
    BY DEF IInv, CallbacksInOrder
  <1>5. /\ writeCompleteCallbacks' \in Seq(Byte) /\ Rising(writeCompleteCallbacks')
        /\ UpTo(writeCompleteCallbacks', m) /\ Before(completed, writeCompleteCallbacks')
    BY <1>1, <1>4, AppendMessage
  <1>6. UpTo(completed, m)
    BY <1>1, <1>4, UpToMore
  <1>7. CallbacksInOrder'
    BY <1>2, <1>4, <1>5, <1>6 DEF CallbacksInOrder
  <1>8. WrittenFits'
    <2>1. written.blocks = 0 /\ written.bytes = 0
      BY QuietIsIdle DEF IInv
    <2> QED
      BY <1>2, <2>1, IdleFits DEF WriteFrame
  <1> QED
    BY <1>2, <1>3, <1>5, <1>7, <1>8

LEMMA StepDoWrite ==
    ASSUME IInv, Quiet, life = "alive", WriteFrame, NEW length \in Nat \ {0}, doWrite(length)
    PROVE  IInv'
  <1>m. PICK m : m = accepted + length
    OBVIOUS
  <1>d. PICK data : data = Bytes(accepted + 1, length)
    OBVIOUS
  <1>1. /\ accepted \in Nat /\ m \in Nat /\ accepted < m /\ IsBuffer(writeBuffer)
        /\ wire \in Seq(Byte) /\ Len(wire) \in Nat /\ tasks \in Seq(Tasks) /\ batch \in Seq(Tasks)
        /\ completed \in Seq(Byte) /\ writeCompleteCallbacks \in Seq(Byte)
    BY <1>m, LenProperties DEF IInv, TypeOK
  <1>2. data \in Seq(Byte) /\ Len(data) = length /\ data # << >>
    <2>1. data \in Seq(Byte) /\ Len(data) = length
      BY <1>d, <1>1, BytesAre
    <2> QED
      BY <2>1, EmptySeq
  <1>3. /\ UNCHANGED <<use, owned, life, phase, written, readyEvents, kernel, userOps>>
        /\ BatchStep
    BY DEF WriteFrame
  <1>4. /\ batch' \in Seq(Tasks)
        /\ NoDeregister(batch) => NoDeregister(batch')
        /\ OnlyWrites(batch) => OnlyWrites(batch')
        /\ Ending(batch) => Ending(batch')
        /\ batch = << >> => batch' = << >>
    BY <1>1, <1>3, BatchSteps
  <1>5. written.blocks = 0 /\ written.bytes = 0 /\ ~ written.error
    BY QuietIsIdle DEF IInv
  <1>6. Rounds'
    BY <1>3, <1>4 DEF IInv, Rounds, Quiet
  <1>7. state # "INACTIVE" /\ userOps = 0 =>
          /\ ~ kernel.wrShut /\ ("error" \in readyEvents => kernel.broken)
          /\ UpTo(completed, Len(wire))
          /\ Len(wire) + Len(BytesIn(writeBuffer)) = accepted
    BY <1>1, <1>5 DEF IInv, Counted
  <1>8. CASE /\ state = "INACTIVE"
             /\ UNCHANGED <<state, writeBuffer, writeCompleteCallbacks, tasks, wire, accepted,
                            completed, disconnects>>
    <2>1. TypeOK'
      BY <1>3, <1>4, <1>8 DEF IInv, TypeOK
    <2>2. Ends'
      BY <1>3, <1>4, <1>8 DEF IInv, Ends, Up, GoingDown, Down
    <2>3. CallbacksInOrder'
      BY <1>3, <1>8, CallbacksKept DEF IInv, CanSend
    <2>4. WrittenFits'
      BY <1>3, <1>8, WrittenKept DEF IInv
    <2>5. Counted'
      BY <1>3, <1>8, CountedKept DEF IInv
    <2> QED
      BY <1>6, <2>1, <2>2, <2>3, <2>4, <2>5 DEF IInv
  <1>9. ASSUME state # "INACTIVE", accepted' = m,
               NEW sent \in 0 .. length, NEW rest \in Seq(Byte), Len(rest) = length - sent,
               rest # << >>, wire' \in Seq(Byte), Len(wire') = Len(wire) + sent,
               writeBuffer' = WithAppended(rest),
               writeCompleteCallbacks' = Append(writeCompleteCallbacks, m),
               UNCHANGED <<state, tasks, completed, disconnects>>
        PROVE  IInv'
    <2>1. /\ IsBuffer(writeBuffer')
          /\ Len(BytesIn(writeBuffer')) = Len(BytesIn(writeBuffer)) + Len(rest)
          /\ writeCompleteCallbacks' \in Seq(Byte)
          /\ CallbacksInOrder' /\ WrittenFits'
      BY <1>1, <1>9, WriteBuffers
    <2>2. TypeOK'
      BY <1>1, <1>3, <1>4, <1>9, <2>1 DEF IInv, TypeOK
    <2>3. Ends'
      BY <1>3, <1>4, <1>9 DEF IInv, Ends, Up, GoingDown, Down
    <2>4. Counted'
      <3>1. PICK w, B : w = Len(wire) /\ B = Len(BytesIn(writeBuffer))
        OBVIOUS
      <3>2. w \in Nat /\ B \in Nat /\ sent \in Nat
        BY <1>1, <3>1, Iovecs
      <3>3. userOps = 0 => w + B = accepted
        BY <1>7, <1>9, <3>1
      <3>4. Len(wire') = w + sent /\ Len(BytesIn(writeBuffer')) = B + (length - sent)
        BY <1>9, <2>1, <3>1
      <3>5. userOps = 0 => (w + sent) + (B + (length - sent)) = m + 0
        BY <1>m, <1>1, <3>2, <3>3
      <3>6. userOps = 0 => UpTo(completed, w + sent)
        <4>1. w + sent \in Nat /\ w <= w + sent
          BY <3>2
        <4> QED
          BY <1>1, <1>7, <1>9, <3>1, <4>1, UpToMore
      <3> QED
        BY <1>3, <1>5, <1>7, <1>9, <3>4, <3>5, <3>6 DEF Counted
    <2> QED
      BY <1>6, <2>1, <2>2, <2>3, <2>4 DEF IInv
  <1>10. CASE /\ state # "INACTIVE" /\ accepted' = m /\ writeBuffer # << >>
              /\ appendBuffer(data)
              /\ writeCompleteCallbacks' = Append(writeCompleteCallbacks, m)
              /\ UNCHANGED <<state, tasks, wire, completed, disconnects>>
    <2>1. 0 \in 0 .. length /\ length - 0 = length /\ Len(wire) + 0 = Len(wire)
      BY <1>1
    <2>2. writeBuffer' = WithAppended(data)
      BY <1>10 DEF appendBuffer
    <2> QED
      BY <1>1, <1>2, <1>9, <1>10, <2>1, <2>2
  <1>11. CASE /\ state # "INACTIVE" /\ accepted' = m /\ CanSend
              /\ \E sent \in 0 .. length - 1 :
                     /\ wire' = wire \o SubSeq(data, 1, sent)
                     /\ appendBuffer(SubSeq(data, sent + 1, length))
              /\ writeCompleteCallbacks' = Append(writeCompleteCallbacks, m)
              /\ UNCHANGED <<state, tasks, completed, disconnects>>
    <2>1. PICK sent \in 0 .. length - 1 : /\ wire' = wire \o SubSeq(data, 1, sent)
                                          /\ appendBuffer(SubSeq(data, sent + 1, length))
      BY <1>11
    <2>2. PICK rest : rest = Drop(data, sent)
      OBVIOUS
    <2>3. sent \in Nat /\ sent <= length /\ sent \in 0 .. length /\ length - sent # 0
      BY <2>1
    <2>4. rest \in Seq(Byte) /\ Len(rest) = length - sent
      BY <1>2, <2>2, <2>3, DropLength
    <2>5. rest # << >>
      BY <2>3, <2>4, EmptySeq
    <2>6. SubSeq(data, 1, sent) \in Seq(Byte) /\ Len(SubSeq(data, 1, sent)) = sent
      BY <1>2, <2>3, Prefix
    <2>7. wire' \in Seq(Byte) /\ Len(wire') = Len(wire) + sent
      BY <1>1, <2>1, <2>6, ConcatProperties
    <2>8. writeBuffer' = WithAppended(rest)
      BY <1>2, <2>1, <2>2 DEF appendBuffer, Drop
    <2> QED
      BY <1>9, <1>11, <2>3, <2>4, <2>5, <2>7, <2>8
  <1>12. CASE /\ state # "INACTIVE" /\ accepted' = m /\ writeBuffer = << >> /\ CanSend
              /\ wire' = wire \o data
              /\ completed' = Append(completed, m)
              /\ tasks' = Append(tasks, Complete(m))
              /\ UNCHANGED <<state, writeBuffer, writeCompleteCallbacks, disconnects>>
    <2>1. wire' \in Seq(Byte) /\ Len(wire') = Len(wire) + length
      BY <1>1, <1>2, <1>12, ConcatProperties
    <2>2. /\ Rising(completed) /\ UpTo(completed, accepted) /\ writeCompleteCallbacks = << >>
      BY <1>12 DEF IInv, CallbacksInOrder
    <2>3. completed' \in Seq(Byte) /\ Rising(completed') /\ UpTo(completed', m)
      BY <1>1, <1>12, <2>2, AppendMessage
    <2>4. tasks' \in Seq(Tasks) /\ (NoDeregister(tasks) => NoDeregister(tasks'))
      <3>1. Complete(m) \in Tasks /\ Complete(m) # Deregister
        BY <1>1, TaskKinds DEF Byte
      <3> QED
        BY <1>1, <1>12, <3>1, AppendToTasks
    <2>5. TypeOK'
      BY <1>1, <1>3, <1>4, <1>12, <2>1, <2>3, <2>4 DEF IInv, TypeOK
    <2>6. Ends'
      BY <1>3, <1>4, <1>12, <2>4 DEF IInv, Ends, Up, GoingDown, Down
    <2>7. CallbacksInOrder'
      BY <1>12, <2>2, <2>3, NoMessages DEF CallbacksInOrder
    <2>8. WrittenFits'
      BY <1>3, <1>12, WrittenKept DEF IInv
    <2>9. Counted'
      <3>1. Len(BytesIn(writeBuffer)) = 0
        BY <1>12, NoBytes, EmptySeq
      <3>2. userOps = 0 => Len(wire) = accepted
        BY <1>1, <1>7, <1>12, <3>1
      <3>3. userOps = 0 => Len(wire') = m /\ Len(wire') + 0 = m + 0
        BY <1>m, <1>1, <2>1, <3>2
      <3> QED
        BY <1>3, <1>5, <1>7, <1>12, <2>3, <3>1, <3>3 DEF Counted
    <2> QED
      BY <1>6, <2>5, <2>6, <2>7, <2>8, <2>9 DEF IInv
  <1>13. CASE /\ state # "INACTIVE" /\ accepted' = m /\ writeBuffer = << >> /\ ~ CanSend
              /\ channelInActive(<< >>)
              /\ appendBuffer(<<0>> \o data)
              /\ writeCompleteCallbacks' = Append(writeCompleteCallbacks, m)
              /\ UNCHANGED <<wire, completed>>
    <2>1. PICK rest : rest = <<0>> \o data
      OBVIOUS
    <2>2. rest \in Seq(Byte) /\ rest # << >>
      <3>1. <<0>> \in Seq(Byte) /\ Len(<<0>>) = 1
        BY DEF Byte
      <3>2. rest \in Seq(Byte) /\ Len(rest) = 1 + length
        BY <1>2, <2>1, <3>1, ConcatProperties
      <3> QED
        BY <3>2, EmptySeq
    <2>3. Completes(<< >>)
      BY EmptySeq DEF Completes
    <2>4. state' = "INACTIVE" /\ tasks' \in Seq(Tasks) /\ disconnects' \in Nat /\ Ends'
      BY <1>3, <1>13, <2>3, GoesDown DEF IInv
    <2>5. writeBuffer' = WithAppended(rest)
      BY <1>13, <2>1 DEF appendBuffer
    <2>6. /\ IsBuffer(writeBuffer')
          /\ writeCompleteCallbacks' \in Seq(Byte)
          /\ CallbacksInOrder' /\ WrittenFits'
      BY <1>1, <1>13, <2>2, <2>5, WriteBuffers
    <2>7. TypeOK'
      BY <1>1, <1>3, <1>4, <1>13, <2>4, <2>6 DEF IInv, TypeOK
    <2>8. Counted'
      BY <1>3, <1>7, <1>13, <2>4 DEF Counted, CanSend
    <2> QED
      BY <1>6, <2>4, <2>6, <2>7, <2>8 DEF IInv
  <1> QED
    BY <1>m, <1>d, <1>8, <1>10, <1>11, <1>12, <1>13
       DEF doWrite, doWriteDirectly, handleWriteError, bufferVars

LEMMA StepWrite ==
    ASSUME NEW length \in use.lengths
    PROVE  IInv /\ Write(length) => IInv'
  <1>1. SUFFICES ASSUME IInv, Write(length)
                 PROVE  IInv'
    OBVIOUS
  <1>2. length \in Nat \ {0}
    BY <1>1, SocketChannelAssumption DEF IInv, TypeOK
  <1>3. life = "alive" /\ Quiet /\ doWrite(length) /\ WriteFrame
    BY <1>1 DEF Write, WriteFrame, BatchStep, loopVars
  <1> QED
    BY <1>1, <1>2, <1>3, StepDoWrite

LEMMA StepRunWrite ==
    IInv /\ RunWrite => IInv'
  <1>1. SUFFICES ASSUME IInv, RunWrite
                 PROVE  IInv'
    OBVIOUS
  <1>2. /\ phase = "tasks" /\ batch # << >> /\ Head(batch).kind = "write" /\ batch' = Tail(batch)
        /\ UNCHANGED <<use, owned, life, phase, written, readyEvents, kernel, userOps>>
    BY <1>1 DEF RunWrite
  <1>3. batch \in Seq(Tasks) /\ life # "new" /\ Quiet /\ BatchStep
    BY <1>1, <1>2 DEF IInv, TypeOK, Rounds, BatchStep
  <1>4. CASE life = "destroyed"
    <2>1. UNCHANGED <<state, writeBuffer, writeCompleteCallbacks, tasks, wire, accepted, completed,
                      disconnects>>
      BY <1>1, <1>4 DEF RunWrite, bufferVars
    <2>2. /\ batch' \in Seq(Tasks)
          /\ OnlyWrites(batch) => OnlyWrites(batch')
      BY <1>3, BatchSteps
    <2>3. TypeOK'
      BY <1>1, <1>2, <2>1, <2>2 DEF IInv, TypeOK
    <2>4. Rounds'
      BY <1>1, <1>2, <1>4, <2>1 DEF IInv, Rounds, Quiet
    <2>5. Ends'
      BY <1>1, <1>2, <1>4, <2>1, <2>2 DEF IInv, Ends, Up, GoingDown, Down
    <2>6. CallbacksInOrder'
      BY <1>1, <1>2, <2>1, CallbacksKept DEF IInv, CanSend
    <2>7. WrittenFits'
      BY <1>1, <1>2, <2>1, WrittenKept DEF IInv
    <2>8. Counted'
      BY <1>1, <1>2, <2>1, CountedKept DEF IInv
    <2> QED
      BY <2>3, <2>4, <2>5, <2>6, <2>7, <2>8 DEF IInv
  <1>5. CASE life # "destroyed"
    <2>1. life = "alive" /\ doWrite(Head(batch).message) /\ WriteFrame
      BY <1>1, <1>2, <1>3, <1>5 DEF RunWrite, WriteFrame, IInv, TypeOK
    <2>2. Head(batch).message \in Nat \ {0}
      BY <1>2, <1>3, TailOfTasks, TaskKinds
    <2> QED
      BY <1>1, <1>3, <2>1, <2>2, StepDoWrite
  <1> QED
    BY <1>4, <1>5


LEMMA InitInvariant ==
    Init => IInv
  <1>1. SUFFICES ASSUME Init
                 PROVE  IInv
    OBVIOUS
  <1>2. TypeOK
    <2>1. IsBuffer(<< >>) /\ << >> \in Seq(Tasks) /\ << >> \in Seq(Byte)
      BY EmptySeq DEF IsBuffer
    <2>2. kernel \in Socket
      BY <1>1 DEF Init, Socket
    <2> QED
      BY <1>1, <2>1, <2>2, IdleIs DEF Init, TypeOK
  <1>3. Rounds
    BY <1>1, IdleIs DEF Init, Rounds, Quiet
  <1>4. Ends
    BY <1>1, NoTasks DEF Init, Ends, Down
  <1>5. CallbacksInOrder
    BY <1>1, NoMessages DEF Init, CallbacksInOrder
  <1>6. WrittenFits
    <2>1. Iov(1, 0) = << >> /\ Len(writeBuffer) \in Nat
      BY <1>2, Iovecs DEF TypeOK
    <2>2. written.blocks = 0 /\ written.bytes = 0
      BY <1>1, IdleIs DEF Init
    <2> QED
      BY <2>1, <2>2, EmptySeq DEF WrittenFits
  <1>7. Counted
    BY <1>1, NoMessages, EmptySeq DEF Init, Counted
  <1> QED
    BY <1>2, <1>3, <1>4, <1>5, <1>6, <1>7 DEF IInv

LEMMA StutterInvariant ==
    IInv /\ UNCHANGED vars => IInv'
  <1>1. SUFFICES ASSUME IInv, UNCHANGED vars
                 PROVE  IInv'
    OBVIOUS
  <1>2. UNCHANGED <<use, state, owned, life, writeBuffer, writeCompleteCallbacks, written,
                    readyEvents, phase, tasks, batch, kernel, wire, accepted, completed,
                    disconnects, userOps>>
    BY <1>1 DEF vars
  <1>3. TypeOK'
    BY <1>1, <1>2 DEF IInv, TypeOK
  <1>4. Rounds'
    BY <1>1, <1>2 DEF IInv, Rounds, Quiet
  <1>5. Ends'
    BY <1>1, <1>2, EndsKept DEF IInv
  <1>6. CallbacksInOrder'
    BY <1>1, <1>2, CallbacksKept DEF IInv, CanSend
  <1>7. WrittenFits'
    BY <1>1, <1>2, WrittenKept DEF IInv
  <1>8. Counted'
    BY <1>1, <1>2, CountedKept DEF IInv
  <1> QED
    BY <1>3, <1>4, <1>5, <1>6, <1>7, <1>8 DEF IInv

LEMMA NextInvariant ==
    IInv /\ [Next]_vars => IInv'
  BY StutterInvariant, StepChannelActive, StepPoll, StepErrorEvent, StepReadEvent, StepStartWrite,
     StepWritevChunk, StepFinishWrite, StepSwapTasks, StepRunTask, StepRunWrite, StepEndTasks,
     StepWrite, StepRemoteWrite, StepUserShutdown, StepPeer
     DEF Next, LoopStep

(* Whatever the kernel, the peer and the user do, the channel keeps its    *)
(* invariant: one deregister() task, callbacks in order, bytes counted.    *)
THEOREM Invariance ==
    Spec => []IInv
  BY InitInvariant, NextInvariant, PTL DEF Spec

(* No step takes a shutdown call of the user back.                         *)
LEMMA UserOpsStay ==
    TypeOK /\ [Next]_vars /\ userOps' = 0 => userOps = 0
  <1>1. SUFFICES ASSUME TypeOK, [Next]_vars, userOps' = 0
                 PROVE  userOps = 0
    OBVIOUS
  <1>2. CASE \E op \in use.userOps : UserShutdown(op)
    <2>1. userOps \in Nat /\ userOps' = userOps + 1
      BY <1>1, <1>2 DEF UserShutdown, TypeOK
    <2> QED
      BY <1>1, <2>1
  <1>3. CASE ~ \E op \in use.userOps : UserShutdown(op)
    BY <1>1, <1>3
       DEF Next, LoopStep, vars, userVars, channelActive, Poll, handleErrorEvent, handleReadEvent,
           StartWrite, WritevChunk, FinishWrite, SwapTasks, RunDeregister, RunComplete, RunWrite,
           EndTasks, Write, RemoteWrite, Peer
  <1> QED
    BY <1>2, <1>3

(* Only the end of a batch destroys a channel that was active, and only    *)
(* one that the loop has let go.                                           *)
LEMMA DestroyedUnowned ==
    [Next]_vars /\ life = "alive" /\ life' = "destroyed" => ~ owned
  BY DEF Next, LoopStep, vars, loopVars, channelActive, Poll, handleErrorEvent, handleReadEvent,
         StartWrite, WritevChunk, FinishWrite, SwapTasks, RunDeregister, RunComplete, RunWrite,
         EndTasks, Write, RemoteWrite, UserShutdown, Peer

(* One Disconnect; the deregister() task finds the channel in the loop, as *)
(* deregisterChannel() asserts, and the destructor finds it INACTIVE.      *)
THEOREM OneEnd ==
    Spec => EndsOnce
  <1>1. IInv /\ IInv' /\ [Next]_vars =>
          [userOps' = 0 =>
             /\ disconnects' <= 1
             /\ batch # << >> /\ batch' = Tail(batch) /\ Head(batch) = Deregister => owned
             /\ life = "alive" /\ life' = "destroyed" => state = "INACTIVE"]_vars
    <2>1. SUFFICES ASSUME IInv, IInv', [Next]_vars, userOps' = 0
                   PROVE  /\ disconnects' <= 1
                          /\ batch # << >> /\ Head(batch) = Deregister => owned
                          /\ life = "alive" /\ life' = "destroyed" => state = "INACTIVE"
      OBVIOUS
    <2>2. userOps = 0
      BY <2>1, UserOpsStay DEF IInv
    <2>3. Up \/ GoingDown \/ Down
      BY <2>1, <2>2 DEF IInv, Ends
    <2>4. disconnects' <= 1
      BY <2>1 DEF IInv, Ends, Up, GoingDown, Down
    <2>5. batch # << >> /\ Head(batch) = Deregister => owned
      <3>1. batch \in Seq(Tasks)
        BY <2>1 DEF IInv, TypeOK
      <3>2. batch # << >> /\ Head(batch) = Deregister => ~ OnlyWrites(batch)
        BY <3>1, TailOfTasks, TaskKinds
      <3> QED
        BY <2>3, <3>2 DEF Up, GoingDown, Down
    <2>6. life = "alive" /\ life' = "destroyed" => state = "INACTIVE"
      BY <2>1, <2>3, DestroyedUnowned DEF Up, GoingDown, Down
    <2> QED
      BY <2>4, <2>5, <2>6
  <1> QED
    BY <1>1, Invariance, PTL DEF Spec, EndsOnce

(* The tasks that hold the raw `this' of the channel, other than writes of *)
(* other threads, run while the channel exists.                            *)
THEOREM TasksFindTheChannel ==
    Spec => NoUseAfterFree
  <1>1. IInv /\ [Next]_vars =>
          [batch # << >> /\ batch' = Tail(batch) /\ Head(batch).kind # "write" /\ userOps' = 0
             => life = "alive"]_vars
    <2>1. SUFFICES ASSUME IInv, [Next]_vars, userOps' = 0, batch # << >>, Head(batch).kind # "write"
                   PROVE  life = "alive"
      OBVIOUS
    <2>2. userOps = 0
      BY <2>1, UserOpsStay DEF IInv
    <2>3. ~ OnlyWrites(batch)
      BY <2>1, TailOfTasks DEF IInv, TypeOK
    <2> QED
      BY <2>1, <2>2, <2>3 DEF IInv, Ends, Up, GoingDown, Down
  <1> QED
    BY <1>1, Invariance, PTL DEF Spec, NoUseAfterFree


-----------------------------------------------------------------------------
(* The bytes on the wire and in the buffer                                 *)

LEMMA DropNothing ==
    ASSUME NEW s \in Seq(Byte)
    PROVE  Drop(s, 0) = s
  <1>1. SubSeq(s, 1, Len(s)) = s
    BY SubSeqFull
  <1> QED
    BY <1>1 DEF Drop

LEMMA DropFront ==
    ASSUME NEW x \in Seq(Byte), NEW y \in Seq(Byte)
    PROVE  Drop(x \o y, Len(x)) = y
  <1>l. PICK lx, ly : lx = Len(x) /\ ly = Len(y)
    OBVIOUS
  <1>1. lx \in Nat /\ ly \in Nat /\ x \o y \in Seq(Byte) /\ Len(x \o y) = lx + ly
    BY <1>l, LenProperties, ConcatProperties
  <1>2. CASE y = << >>
    <2>1. ly = 0
      BY <1>l, <1>2, EmptySeq
    <2>2. SubSeq(x \o y, lx + 1, lx + ly) = << >>
      BY <1>1, <2>1, SubSeqEmpty
    <2> QED
      BY <1>l, <1>1, <1>2, <2>2 DEF Drop
  <1>3. CASE y # << >>
    <2>1. ly # 0
      BY <1>l, <1>3, EmptySeq
    <2>2. lx + 1 \in lx + 1 .. lx + ly /\ lx + ly \in lx + 1 .. lx + ly
      BY <1>1, <2>1
    <2>3. SubSeq(x \o y, lx + 1, lx + ly) = SubSeq(y, (lx + 1) - lx, (lx + ly) - lx)
      BY <1>l, <2>2, SubSeqOfConcat2
    <2>4. (lx + 1) - lx = 1 /\ (lx + ly) - lx = ly
      BY <1>1
    <2>5. SubSeq(y, 1, ly) = y
      BY <1>l, SubSeqFull
    <2> QED
      BY <1>l, <1>1, <2>3, <2>4, <2>5 DEF Drop
  <1> QED
    BY <1>2, <1>3

LEMMA Cut ==
    ASSUME NEW s \in Seq(Byte), NEW k \in 0 .. Len(s)
    PROVE  /\ SubSeq(s, 1, k) \o Drop(s, k) = s
           /\ SubSeq(s, 1, k) \in Seq(Byte) /\ Drop(s, k) \in Seq(Byte)
  <1>l. PICK n : n = Len(s)
    OBVIOUS
  <1>1. n \in Nat /\ k \in Nat /\ k <= n /\ 1 \in 1 .. n + 1 /\ k \in 1 - 1 .. n /\ n \in k .. n
    BY <1>l, LenProperties
  <1>2. SubSeq(s, 1, k) \o SubSeq(s, k + 1, n) = SubSeq(s, 1, n)
    BY <1>l, <1>1, ConcatAdjacentSubSeq
  <1>3. SubSeq(s, 1, n) = s
    BY <1>l, SubSeqFull
  <1>4. SubSeq(s, 1, k) \in Seq(Byte) /\ Drop(s, k) \in Seq(Byte)
    BY <1>l, <1>1, Prefix, DropLength
  <1> QED
    BY <1>l, <1>2, <1>3, <1>4 DEF Drop

(* What is sent of a chunk in the middle comes first of what was left.     *)
LEMMA SentPart ==
    ASSUME NEW x \in Seq(Byte), NEW d \in Seq(Byte), NEW r \in Seq(Byte), NEW k \in 0 .. Len(d)
    PROVE  Drop((x \o d) \o r, Len(x)) = SubSeq(d, 1, k) \o Drop((x \o d) \o r, Len(x) + k)
  <1>a. PICK a : a = (x \o d) \o r
    OBVIOUS
  <1>l. PICK lx, ld : lx = Len(x) /\ ld = Len(d)
    OBVIOUS
  <1>f. PICK f, g : f = SubSeq(d, 1, k) /\ g = Drop(d, k)
    OBVIOUS
  <1>1. lx \in Nat /\ ld \in Nat /\ k \in Nat /\ k <= ld
    BY <1>l, LenProperties
  <1>2. x \o d \in Seq(Byte) /\ d \o r \in Seq(Byte) /\ Len(x \o d) = lx + ld
    BY <1>l, ConcatProperties
  <1>3. Drop(a, lx) = d \o r
    <2>1. a = x \o (d \o r)
      BY <1>a, Associative
    <2> QED
      BY <1>l, <1>2, <2>1, DropFront
  <1>4. d = f \o g /\ f \in Seq(Byte) /\ g \in Seq(Byte)
    BY <1>f, Cut
  <1>5. Drop(a, lx + k) = g \o r
    <2>1. CASE k = ld
      <3>1. Drop(a, lx + ld) = r
        BY <1>a, <1>2, DropFront
      <3>2. Len(g) = 0
        BY <1>l, <1>f, <1>1, <2>1, DropLength
      <3>3. g = << >>
        BY <1>4, <3>2, EmptySeq
      <3>4. << >> \o r = r
        BY ConcatEmptySeq
      <3> QED
        BY <2>1, <3>1, <3>3, <3>4
    <2>2. CASE k # ld
      <3>1. PICK n : n = lx + k
        OBVIOUS
      <3>2. n \in Nat /\ lx <= n /\ n < lx + ld /\ n - lx = k
        BY <1>1, <2>2, <3>1
      <3>3. Drop(a, n) = Drop(d, n - lx) \o r
        <4>1. Len(x) <= n /\ n < Len(x) + Len(d)
          BY <1>l, <3>2
        <4>2. Drop((x \o d) \o r, n) = Drop(d, n - Len(x)) \o r
          BY <3>2, <4>1, DropWithin
        <4> QED
          BY <1>a, <1>l, <4>2
      <3> QED
        BY <1>f, <3>1, <3>2, <3>3
    <2> QED
      BY <2>1, <2>2
  <1>6. d \o r = f \o (g \o r)
    BY <1>4, Associative, SMTT(60)
  <1> QED
    BY <1>a, <1>l, <1>f, <1>3, <1>5, <1>6

LEMMA BytesJoin ==
    ASSUME NEW a \in Nat, NEW n \in Nat
    PROVE  Bytes(1, a) \o Bytes(a + 1, n) = Bytes(1, a + n)
  <1>p. PICK p, q, r, c : /\ p = Bytes(1, a) /\ q = Bytes(a + 1, n) /\ r = Bytes(1, a + n)
                          /\ c = p \o q
    OBVIOUS
  <1>1. p \in Seq(Byte) /\ Len(p) = a /\ \A i \in 1 .. a : p[i] = 1 + i - 1
    <2>1. 1 \in Nat
      OBVIOUS
    <2>2. /\ Bytes(1, a) \in Seq(Byte) /\ Len(Bytes(1, a)) = a
          /\ \A i \in 1 .. a : Bytes(1, a)[i] = 1 + i - 1
      BY <2>1, BytesAre, Zenon
    <2> QED
      BY <1>p, <2>2, Zenon
  <1>2. q \in Seq(Byte) /\ Len(q) = n /\ \A i \in 1 .. n : q[i] = (a + 1) + i - 1
    <2>1. PICK b : b = a + 1
      OBVIOUS
    <2>2. b \in Nat
      BY <2>1
    <2>3. /\ Bytes(b, n) \in Seq(Byte) /\ Len(Bytes(b, n)) = n
          /\ \A i \in 1 .. n : Bytes(b, n)[i] = b + i - 1
      BY <2>2, BytesAre, Zenon
    <2> QED
      BY <1>p, <2>1, <2>3, Zenon
  <1>3. r \in Seq(Byte) /\ Len(r) = a + n /\ \A i \in 1 .. a + n : r[i] = 1 + i - 1
    <2>1. PICK m : m = a + n
      OBVIOUS
    <2>2. 1 \in Nat /\ m \in Nat
      BY <2>1
    <2>3. /\ Bytes(1, m) \in Seq(Byte) /\ Len(Bytes(1, m)) = m
          /\ \A i \in 1 .. m : Bytes(1, m)[i] = 1 + i - 1
      BY <2>2, BytesAre, Zenon
    <2> QED
      BY <1>p, <2>1, <2>3, Zenon
  <1>4. c \in Seq(Byte) /\ Len(c) = a + n
        /\ \A i \in 1 .. a + n : c[i] = IF i <= a THEN p[i] ELSE q[i - a]
    BY <1>p, <1>1, <1>2, ConcatProperties
  <1>5. \A i \in 1 .. a + n : c[i] = r[i]
    BY <1>1, <1>2, <1>3, <1>4
  <1>6. c = r
    BY <1>3, <1>4, <1>5, SeqEqual
  <1> QED
    BY <1>p, <1>6

-----------------------------------------------------------------------------
(* Every action keeps the bytes in order.                                  *)

LEMMA InOrderKept ==
    ASSUME InOrder, UNCHANGED <<use, wire, writeBuffer, accepted>>,
           written'.blocks = written.blocks, written'.bytes = written.bytes,
           userOps' = 0 /\ state' # "INACTIVE" => userOps = 0 /\ state # "INACTIVE"
    PROVE  InOrder'
  BY DEF InOrder, Iov

LEMMA InOrderAgain ==
    ASSUME written'.blocks = 0, written'.bytes = 0, IsBuffer(writeBuffer'),
           userOps' = 0 /\ state' # "INACTIVE" =>
               wire' \o BytesIn(writeBuffer') = Bytes(1, accepted')
    PROVE  InOrder'
  <1>1. SubSeq(writeBuffer', 1, 0) = << >>
    BY SubSeqEmpty
  <1>2. BytesIn(SubSeq(writeBuffer', 1, 0)) = << >>
    BY <1>1, NoBytes
  <1>3. Len(BytesIn(SubSeq(writeBuffer', 1, 0))) = 0
    BY <1>2, EmptySeq
  <1>4. BytesIn(writeBuffer') \in Seq(Byte)
    BY BytesType DEF IsBuffer
  <1>5. Drop(BytesIn(writeBuffer'), 0) = BytesIn(writeBuffer')
    BY <1>4, DropNothing
  <1> QED
    BY <1>3, <1>5 DEF InOrder, Iov

LEMMA InOrderIdle ==
    ASSUME IInv, InOrder, Quiet, userOps = 0, state # "INACTIVE"
    PROVE  wire \o BytesIn(writeBuffer) = Bytes(1, accepted)
  <1>1. written.bytes = 0
    BY QuietIsIdle DEF IInv
  <1>2. BytesIn(writeBuffer) \in Seq(Byte)
    BY Iovecs DEF IInv, TypeOK
  <1>3. Drop(BytesIn(writeBuffer), 0) = BytesIn(writeBuffer)
    BY <1>2, DropNothing
  <1> QED
    BY <1>1, <1>3 DEF InOrder


(* The steps that leave the bytes alone, or end the connection.            *)
LEMMA InOrderElsewhere ==
    ASSUME IInv, InOrder,
           \/ UNCHANGED vars \/ Poll \/ handleErrorEvent \/ handleReadEvent \/ StartWrite
           \/ SwapTasks \/ RunDeregister \/ RunComplete \/ EndTasks \/ Peer
           \/ \E length \in use.lengths : RemoteWrite(length)
    PROVE  InOrder'
  <1>1. CASE UNCHANGED <<use, wire, writeBuffer, accepted, state, userOps, written>>
    BY <1>1, InOrderKept
  <1>2. CASE UNCHANGED vars
    BY <1>1, <1>2 DEF vars
  <1>3. CASE Poll \/ SwapTasks \/ RunDeregister \/ RunComplete \/ EndTasks
    BY <1>1, <1>3 DEF Poll, SwapTasks, RunDeregister, RunComplete, EndTasks, userVars, bufferVars
  <1>4. CASE Peer \/ \E length \in use.lengths : RemoteWrite(length)
    BY <1>1, <1>4 DEF Peer, RemoteWrite, userVars, bufferVars
  <1>5. CASE handleErrorEvent
    <2>1. /\ UNCHANGED <<use, wire, writeBuffer, accepted, userOps, written>>
          /\ state' \in {state, "INACTIVE"}
      BY <1>5 DEF handleErrorEvent, userVars, bufferVars, channelInActive
    <2> QED
      BY <2>1, InOrderKept
  <1>6. CASE handleReadEvent
    <2>1. /\ UNCHANGED <<use, wire, accepted, userOps, written>>
          /\ \/ state' = "INACTIVE"
             \/ writeBuffer' = writeBuffer /\ (state' = state \/ state # "INACTIVE")
      BY <1>6 DEF handleReadEvent, NothingRead, shutdown, shutdownRead, handleReadError,
                  channelInActive, userVars
    <2>2. CASE state' = "INACTIVE"
      BY <2>2 DEF InOrder
    <2>3. CASE writeBuffer' = writeBuffer /\ (state' = state \/ state # "INACTIVE")
      BY <2>1, <2>3, InOrderKept
    <2> QED
      BY <2>1, <2>2, <2>3
  <1>7. CASE StartWrite
    <2>1. UNCHANGED <<use, wire, writeBuffer, accepted, state, userOps>> /\ Quiet
          /\ written'.blocks = 0 /\ written'.bytes = 0
      BY <1>7 DEF StartWrite, userVars, bufferVars, Idle
    <2>2. written.blocks = 0 /\ written.bytes = 0
      BY <2>1, QuietIsIdle DEF IInv
    <2> QED
      BY <2>1, <2>2, InOrderKept
  <1> QED
    BY <1>2, <1>3, <1>4, <1>5, <1>6, <1>7

LEMMA InOrderActive ==
    ASSUME IInv, IInv', channelActive
    PROVE  InOrder'
  <1>1. life = "new" /\ UNCHANGED <<wire, writeBuffer, accepted, written>>
    BY DEF channelActive, bufferVars, userVars
  <1>2. writeBuffer = << >> /\ wire = << >> /\ accepted = 0 /\ Quiet
    BY <1>1 DEF IInv, Rounds
  <1>3. written.blocks = 0 /\ written.bytes = 0
    BY <1>2, QuietIsIdle DEF IInv
  <1>4. << >> \o << >> = Bytes(1, 0)
    <2>1. Bytes(1, 0) \in Seq(Byte) /\ Len(Bytes(1, 0)) = 0
      BY BytesAre
    <2>2. Bytes(1, 0) = << >>
      BY <2>1, EmptySeq
    <2>3. << >> \o << >> = << >>
      OBVIOUS
    <2> QED
      BY <2>2, <2>3
  <1> QED
    BY <1>1, <1>2, <1>3, <1>4, NoBytes, InOrderAgain DEF IInv, TypeOK

LEMMA InOrderDoWrite ==
    ASSUME IInv, IInv', InOrder, Quiet, UNCHANGED <<use, written, userOps>>,
           NEW length \in Nat \ {0}, doWrite(length)
    PROVE  InOrder'
  <1>m. PICK m : m = accepted + length
    OBVIOUS
  <1>d. PICK data : data = Bytes(accepted + 1, length)
    OBVIOUS
  <1>b. PICK b : b = BytesIn(writeBuffer)
    OBVIOUS
  <1>1. /\ accepted \in Nat /\ IsBuffer(writeBuffer) /\ wire \in Seq(Byte) /\ b \in Seq(Byte)
        /\ IsBuffer(writeBuffer')
    BY <1>b, Iovecs DEF IInv, TypeOK
  <1>2. written'.blocks = 0 /\ written'.bytes = 0
    BY QuietIsIdle DEF IInv
  <1>3. data \in Seq(Byte) /\ Len(data) = length /\ data # << >>
    <2>1. data \in Seq(Byte) /\ Len(data) = length
      BY <1>d, <1>1, BytesAre
    <2> QED
      BY <2>1, EmptySeq
  <1>4. SUFFICES ASSUME userOps = 0, state # "INACTIVE", state' # "INACTIVE"
                 PROVE  wire' \o BytesIn(writeBuffer') = Bytes(1, accepted')
    <2>1. CASE state = "INACTIVE"
      <3>1. UNCHANGED <<state, wire, writeBuffer, accepted>>
        BY <2>1 DEF doWrite, bufferVars
      <3> QED
        BY <2>1, <3>1 DEF InOrder
    <2>2. CASE state # "INACTIVE"
      BY <1>1, <1>2, <1>4, <2>2, InOrderAgain
    <2> QED
      BY <2>1, <2>2
  <1>5. accepted' = m
    BY <1>m, <1>4 DEF doWrite
  <1>6. wire \o b = Bytes(1, accepted)
    BY <1>b, <1>4, InOrderIdle
  <1>7. (wire \o b) \o data = Bytes(1, m)
    BY <1>m, <1>d, <1>1, <1>6, BytesJoin
  <1>8. CASE writeBuffer' = WithAppended(data) /\ wire' = wire
    <2>1. BytesIn(writeBuffer') = b \o data
      BY <1>b, <1>1, <1>3, <1>8, Appended
    <2>2. wire \o (b \o data) = (wire \o b) \o data
      BY <1>1, <1>3, Associative
    <2> QED
      BY <1>5, <1>7, <1>8, <2>1, <2>2
  <1>9. CASE writeBuffer = << >> /\ writeBuffer' = writeBuffer /\ wire' = wire \o data
    <2>1. b = << >>
      BY <1>b, <1>9, NoBytes
    <2>2. wire \o << >> = wire /\ wire \o data \in Seq(Byte)
      BY <1>1, <1>3, ConcatEmptySeq, ConcatProperties
    <2>3. (wire \o data) \o << >> = wire \o data
      BY <2>2, ConcatEmptySeq
    <2> QED
      BY <1>b, <1>5, <1>7, <1>9, <2>1, <2>2, <2>3
  <1>10. CASE /\ writeBuffer = << >>
              /\ \E sent \in 0 .. length - 1 :
                     /\ wire' = wire \o SubSeq(data, 1, sent)
                     /\ writeBuffer' = WithAppended(SubSeq(data, sent + 1, length))
    <2>1. PICK sent \in 0 .. length - 1 :
                     /\ wire' = wire \o SubSeq(data, 1, sent)
                     /\ writeBuffer' = WithAppended(SubSeq(data, sent + 1, length))
      BY <1>10
    <2>2. PICK f, g : f = SubSeq(data, 1, sent) /\ g = Drop(data, sent)
      OBVIOUS
    <2>3. sent \in 0 .. Len(data) /\ sent \in Nat /\ sent <= length /\ length - sent # 0
      BY <1>3, <2>1
    <2>4. f \o g = data /\ f \in Seq(Byte) /\ g \in Seq(Byte)
      BY <1>3, <2>2, <2>3, Cut
    <2>5. g # << >>
      <3>1. Len(g) = length - sent
        BY <1>3, <2>2, <2>3, DropLength
      <3> QED
        BY <2>3, <3>1, EmptySeq
    <2>6. BytesIn(writeBuffer') = b \o g
      <3>1. writeBuffer' = WithAppended(g)
        BY <1>3, <2>1, <2>2 DEF Drop
      <3> QED
        BY <1>b, <1>1, <2>4, <2>5, <3>1, Appended
    <2>7. b = << >>
      BY <1>b, <1>10, NoBytes
    <2>8. << >> \o g = g /\ wire \o << >> = wire
      BY <1>1, <2>4, ConcatEmptySeq
    <2>9. (wire \o f) \o g = wire \o (f \o g)
      BY <1>1, <2>4, Associative
    <2> QED
      BY <1>5, <1>7, <2>1, <2>2, <2>4, <2>6, <2>7, <2>8, <2>9
  <1> QED
    <2>1. ~ handleWriteError
      BY <1>4 DEF handleWriteError, channelInActive
    <2> QED
      BY <1>d, <1>4, <1>8, <1>9, <1>10, <2>1 DEF doWrite, doWriteDirectly, appendBuffer, bufferVars

(* A call of ::writev() goes on where the one before has ended: before the *)
(* second call ExpectedWriteLen is wrong, and with FewBlocks it is the     *)
(* last.                                                                   *)
LEMMA InOrderChunk ==
    ASSUME IInv, InOrder, FewBlocks, WritevChunk
    PROVE  InOrder'
  <1>1. /\ written.active /\ LeftBlocks > 0
        /\ UNCHANGED <<use, state, writeBuffer, accepted, userOps>>
    BY DEF WritevChunk, bufferVars, userVars
  <1>2. SUFFICES ASSUME userOps = 0, state # "INACTIVE"
                 PROVE  InOrder'
    BY <1>1 DEF InOrder
  <1>3. CASE ~ CanSend
    <2>1. wire' = wire /\ written' = [written EXCEPT !.error = TRUE]
      BY <1>3 DEF WritevChunk
    <2>2. written'.bytes = written.bytes /\ written'.blocks = written.blocks
      BY <2>1 DEF IInv, TypeOK, Writing
    <2> QED
      BY <1>1, <2>1, <2>2, InOrderKept
  <1>4. CASE CanSend
    <2>b. PICK b, c, n, K : /\ b = written.blocks /\ c = ChunkBlocks /\ n = Len(writeBuffer)
                            /\ K = use.kMaxCountOfWriteVOnce
      OBVIOUS
    <2>d. PICK x, data : x = Iov(1, b) /\ data = Iov(b + 1, b + c)
      OBVIOUS
    <2>1. PICK sent \in 0 .. Len(data) :
            /\ wire' = wire \o SubSeq(data, 1, sent)
            /\ written' = [written EXCEPT !.bytes = @ + sent,
                                          !.blocks = IF sent = 0 \/ sent < ExpectedWriteLen
                                                       THEN Len(writeBuffer) ELSE @ + ChunkBlocks]
      BY <1>4, <2>b, <2>d DEF WritevChunk
    <2>2. /\ n \in Nat /\ b \in Nat /\ c \in Nat /\ c > 0 /\ b + c \in 0 .. n /\ b # n
          /\ data \in Seq(Byte) /\ Len(data) \in Nat
      BY <1>1, <2>b, <2>d, Chunk DEF IInv
    <2>3. K \in Nat \ {0} /\ n <= 2 * K /\ c = IF n - b < K THEN n - b ELSE K
      BY <2>b, SocketChannelAssumption DEF IInv, TypeOK, FewBlocks, ChunkBlocks, LeftBlocks
    <2>4. /\ written.bytes = Len(x) /\ b \in {0, K}
          /\ wire \o Drop(BytesIn(writeBuffer), Len(x)) = Bytes(1, accepted)
      BY <1>2, <2>b, <2>d, <2>2 DEF InOrder
    <2>5. /\ written'.bytes = written.bytes + sent
          /\ written'.blocks = IF sent = 0 \/ sent < ExpectedWriteLen THEN n ELSE b + c
      BY <2>b, <2>1 DEF IInv, TypeOK, Writing
    <2>6. PICK e, r : e = b + c /\ r = Iov(e + 1, n)
      OBVIOUS
    <2>7. b \in 0 .. n /\ e \in 0 .. n /\ e \in b .. n /\ n \in e .. n /\ IsBuffer(writeBuffer)
      BY <2>2, <2>6 DEF IInv, TypeOK
    <2>8. /\ x \in Seq(Byte) /\ Len(x) \in Nat /\ Iov(1, e) = x \o data
          /\ Len(Iov(1, e)) = Len(x) + Len(data)
      BY <2>b, <2>d, <2>6, <2>7, Iovecs
    <2>9. r \in Seq(Byte) /\ BytesIn(writeBuffer) = (x \o data) \o r
      <3>1. r \in Seq(Byte) /\ Iov(1, n) = Iov(1, e) \o r /\ Iov(1, n) = BytesIn(writeBuffer)
        BY <2>b, <2>6, <2>7, Iovecs
      <3> QED
        BY <2>8, <3>1
    <2>10. /\ written'.blocks # n =>
                /\ written'.blocks \in {0, K}
                /\ written'.bytes = Len(Iov(1, written'.blocks))
      <3>1. SUFFICES ASSUME written'.blocks # n
                     PROVE  /\ written'.blocks \in {0, K}
                            /\ written'.bytes = Len(Iov(1, written'.blocks))
        OBVIOUS
      <3>2. ~ (sent < ExpectedWriteLen) /\ written'.blocks = e
        BY <2>5, <2>6, <3>1
      <3>3. b = 0 /\ e = K /\ c = K
        BY <2>2, <2>3, <2>4, <2>6, <3>1, <3>2
      <3>4. b + c = c
        BY <2>2, <3>3
      <3>5. ExpectedWriteLen = Len(data)
        BY <2>b, <2>d, <3>4 DEF ExpectedWriteLen
      <3>6. sent = Len(data)
        BY <2>2, <3>2, <3>5
      <3> QED
        BY <2>4, <2>5, <2>8, <3>2, <3>3, <3>6
    <2>11. wire' \o Drop(BytesIn(writeBuffer), written'.bytes) = Bytes(1, accepted)
      <3>1. PICK f, a : f = SubSeq(data, 1, sent) /\ a = (x \o data) \o r
        OBVIOUS
      <3>2. PICK k : k = Len(x) + sent
        OBVIOUS
      <3>3. Drop(a, Len(x)) = f \o Drop(a, k)
        BY <2>2, <2>8, <2>9, <3>1, <3>2, SentPart
      <3>4. f \in Seq(Byte) /\ Drop(a, k) \in Seq(Byte)
        <4>1. f \in Seq(Byte)
          BY <2>2, <3>1, Prefix
        <4>2. a \in Seq(Byte) /\ Len(a) = Len(x) + Len(data) + Len(r) /\ Len(r) \in Nat
          BY <2>2, <2>8, <2>9, <3>1, ConcatProperties, LenProperties
        <4>3. k \in Nat /\ k <= Len(a)
          BY <2>2, <2>8, <3>2, <4>2
        <4> QED
          BY <4>1, <4>2, <4>3, DropLength
      <3>5. (wire \o f) \o Drop(a, k) = wire \o (f \o Drop(a, k))
        BY <3>4, Associative DEF IInv, TypeOK
      <3> QED
        BY <2>1, <2>4, <2>5, <2>9, <3>1, <3>2, <3>3, <3>5
    <2> QED
      BY <1>1, <2>b, <2>10, <2>11 DEF InOrder, Iov
  <1> QED
    BY <1>3, <1>4

LEMMA InOrderFinish ==
    ASSUME IInv, IInv', InOrder, FinishWrite
    PROVE  InOrder'
  <1>1. written' = Idle /\ UNCHANGED <<use, wire, accepted, userOps>>
    BY DEF FinishWrite, userVars
  <1>2. written'.blocks = 0 /\ written'.bytes = 0 /\ IsBuffer(writeBuffer')
    BY <1>1, IdleIs DEF IInv, TypeOK
  <1>3. written.active /\ state # "INACTIVE"
    BY DEF FinishWrite, IInv, Rounds, Quiet
  <1>4. SUFFICES ASSUME userOps = 0, state' # "INACTIVE"
                 PROVE  wire \o BytesIn(writeBuffer') = Bytes(1, accepted)
    BY <1>1, <1>2, InOrderAgain
  <1>5. wire \o Drop(BytesIn(writeBuffer), written.bytes) = Bytes(1, accepted)
    BY <1>3, <1>4 DEF InOrder
  <1>6. /\ BytesIn(writeBuffer) \in Seq(Byte) /\ Len(BytesIn(writeBuffer)) \in Nat
        /\ written.bytes \in Nat /\ IsBuffer(writeBuffer)
    BY Iovecs DEF IInv, TypeOK, Writing
  <1>7. CASE written.bytes = Len(BytesIn(writeBuffer)) /\ AllSent
    <2>1. PICK s : s = BytesIn(writeBuffer)
      OBVIOUS
    <2>2. Drop(s, Len(s)) = << >>
      <3>1. SubSeq(s, Len(s) + 1, Len(s)) = << >>
        BY <1>6, <2>1, SubSeqEmpty
      <3> QED
        BY <3>1 DEF Drop
    <2>3. BytesIn(writeBuffer') = << >>
      BY <1>7, NoBytes DEF AllSent
    <2> QED
      BY <1>5, <1>7, <2>1, <2>2, <2>3
  <1>8. CASE /\ written.bytes # Len(BytesIn(writeBuffer))
             /\ writeBuffer' = removeSentBuffer(written.bytes)
    <2>1. written.bytes < Len(BytesIn(writeBuffer))
      BY <1>6, <1>8, WrittenWithin DEF IInv
    <2>2. BytesIn(writeBuffer') = Drop(BytesIn(writeBuffer), written.bytes)
      BY <1>6, <1>8, <2>1, Removed
    <2> QED
      BY <1>5, <2>2
  <1>9. ~ handleWriteError
    BY <1>4 DEF handleWriteError, channelInActive
  <1> QED
    BY <1>7, <1>8, <1>9 DEF FinishWrite

LEMMA InOrderNext ==
    ASSUME IInv, IInv', InOrder, FewBlocks, [Next]_vars
    PROVE  InOrder'
  <1>1. CASE \E op \in use.userOps : UserShutdown(op)
    <2>1. userOps' # 0
      BY <1>1 DEF UserShutdown, IInv, TypeOK
    <2> QED
      BY <2>1 DEF InOrder
  <1>2. CASE \E length \in use.lengths : Write(length)
    <2>1. PICK length \in use.lengths : Write(length)
      BY <1>2
    <2>2. length \in Nat \ {0}
      BY SocketChannelAssumption DEF IInv, TypeOK
    <2> QED
      BY <2>1, <2>2, InOrderDoWrite DEF Write
  <1>3. CASE RunWrite
    <2>1. /\ phase = "tasks" /\ batch # << >> /\ Head(batch).kind = "write"
          /\ UNCHANGED <<use, written, userOps>>
      BY <1>3 DEF RunWrite
    <2>2. Quiet /\ Head(batch).message \in Nat \ {0}
      BY <2>1, TailOfTasks, TaskKinds DEF IInv, Rounds, TypeOK
    <2>3. CASE life = "destroyed"
      <3>1. UNCHANGED <<state, writeBuffer, wire, accepted>>
        BY <1>3, <2>3 DEF RunWrite, bufferVars
      <3> QED
        BY <2>1, <3>1, InOrderKept
    <2>4. CASE life # "destroyed"
      BY <1>3, <2>1, <2>2, <2>4, InOrderDoWrite DEF RunWrite
    <2> QED
      BY <2>3, <2>4
  <1> QED
    BY <1>1, <1>2, <1>3, InOrderElsewhere, InOrderActive, InOrderChunk, InOrderFinish
       DEF Next, LoopStep

(* However the kernel cuts write() and writev() short, no byte is lost,    *)
(* doubled or moved while the connection is up, as long as the buffer has  *)
(* at most as many blocks as two calls of ::writev() take.  (With more,    *)
(* ExpectedWriteLen is too small, see StreamIntact.)                       *)
THEOREM BytesKeptInOrder ==
    Spec /\ []FewBlocks => []NoByteLost
  <1>1. Init => InOrder
    BY DEF Init, InOrder
  <1>2. IInv /\ IInv' /\ FewBlocks /\ InOrder /\ [Next]_vars => InOrder'
    BY InOrderNext
  <1>3. IInv /\ InOrder => NoByteLost
    BY InOrderIdle DEF NoByteLost
  <1> QED
    BY <1>1, <1>2, <1>3, Invariance, PTL DEF Spec

-----------------------------------------------------------------------------
(* What was sent, also when the connection is down: the bytes of write(),  *)
(* from the first on.                                                      *)

InStream == userOps = 0 => StreamIntact

(* A connection goes down only in steps that send nothing.                 *)
LEMMA EndSendsNothing ==
    ASSUME IInv, [Next]_vars, state' = "INACTIVE"
    PROVE  wire' = wire
  <1>1. ASSUME NEW length, doWrite(length)
        PROVE  wire' = wire
    BY <1>1 DEF doWrite, doWriteDirectly
  <1>2. CASE RunWrite
    BY <1>1, <1>2 DEF RunWrite
  <1>3. CASE \E length \in use.lengths : Write(length)
    BY <1>1, <1>3 DEF Write
  <1>4. ~ WritevChunk
    BY DEF WritevChunk, IInv, Rounds, Quiet
  <1>5. CASE ~ RunWrite /\ ~ \E length \in use.lengths : Write(length)
    BY <1>4, <1>5
       DEF Next, LoopStep, vars, channelActive, Poll, handleErrorEvent, handleReadEvent,
           StartWrite, FinishWrite, SwapTasks, RunDeregister, RunComplete, EndTasks,
           RemoteWrite, UserShutdown, Peer
  <1> QED
    BY <1>2, <1>3, <1>5

LEMMA WrittenWithinNext ==
    TypeOK' /\ WrittenFits' => (written.bytes <= Len(BytesIn(writeBuffer)))'
  <1>1. TypeOK /\ WrittenFits => written.bytes <= Len(BytesIn(writeBuffer))
    BY WrittenWithin
  <1> QED
    BY <1>1, PTL

LEMMA InStreamNext ==
    ASSUME IInv, IInv', InOrder', InStream, [Next]_vars
    PROVE  InStream'
  <1>1. SUFFICES ASSUME userOps' = 0
                 PROVE  \A i \in 1 .. Len(wire') : wire'[i] = i
    BY DEF InStream, StreamIntact
  <1>2. CASE state' = "INACTIVE"
    <2>1. wire' = wire
      BY <1>2, EndSendsNothing
    <2>2. userOps = 0
      BY <1>1, UserOpsStay DEF IInv
    <2> QED
      BY <2>1, <2>2 DEF InStream, StreamIntact
  <1>3. CASE state' # "INACTIVE"
    <2>1. PICK w, n, m, d : /\ w = wire' /\ n = accepted' /\ m = written'.bytes
                            /\ d = Drop(BytesIn(writeBuffer'), m)
      OBVIOUS
    <2>2. w \in Seq(Byte) /\ n \in Nat /\ m \in Nat
      BY <2>1 DEF IInv, TypeOK, Writing
    <2>3. d \in Seq(Byte)
      <3>1. BytesIn(writeBuffer') \in Seq(Byte)
        BY BytesType DEF IInv, TypeOK, IsBuffer
      <3>2. m <= Len(BytesIn(writeBuffer'))
        BY <2>1, WrittenWithinNext DEF IInv
      <3> QED
        BY <2>1, <2>2, <3>1, <3>2, DropLength
    <2>4. w \o d = Bytes(1, n)
      BY <1>1, <1>3, <2>1 DEF InOrder
    <2>5. Len(Bytes(1, n)) = n /\ \A i \in 1 .. n : Bytes(1, n)[i] = 1 + i - 1
      BY <2>2, BytesAre
    <2>6. PICK lw, ld : lw = Len(w) /\ ld = Len(d)
      OBVIOUS
    <2>7. /\ lw \in Nat /\ ld \in Nat /\ n = lw + ld
          /\ \A i \in 1 .. lw + ld : (w \o d)[i] = IF i <= lw THEN w[i] ELSE d[i - lw]
      BY <2>2, <2>3, <2>4, <2>5, <2>6, ConcatProperties, LenProperties
    <2>8. ASSUME NEW i \in 1 .. lw
          PROVE  w[i] = i
      <3>1. i \in 1 .. lw + ld /\ i \in 1 .. n /\ i <= lw /\ 1 + i - 1 = i
        BY <2>7
      <3> QED
        BY <2>4, <2>5, <2>7, <3>1
    <2> QED
      BY <2>1, <2>6, <2>8
  <1> QED
    BY <1>2, <1>3

LEMMA FrontOfStream ==
    ASSUME NEW w \in Seq(Byte), \A i \in 1 .. Len(w) : w[i] = i,
           NEW n \in Nat, n <= Len(w)
    PROVE  IsPrefix(Bytes(1, n), w) /\ (n = Len(w) => w = Bytes(1, n))
  <1>b. PICK b, f : b = Bytes(1, n) /\ f = SubSeq(w, 1, n)
    OBVIOUS
  <1>1. b \in Seq(Byte) /\ Len(b) = n /\ \A i \in 1 .. n : b[i] = 1 + i - 1
    BY <1>b, BytesAre
  <1>2. Len(w) \in Nat /\ n \in 0 .. Len(w)
    BY LenProperties
  <1>3. f \in Seq(Byte) /\ Len(f) = n /\ \A i \in 1 .. n : f[i] = w[i]
    BY <1>b, <1>2, Prefix
  <1>4. \A i \in 1 .. n : f[i] = b[i]
    BY <1>1, <1>2, <1>3
  <1>5. f = b
    BY <1>1, <1>3, <1>4, SeqEqual
  <1>6. SubSeq(b, 1, n) = b /\ SubSeq(w, 1, Len(w)) = w
    BY <1>1, SubSeqFull
  <1> QED
    BY <1>b, <1>1, <1>5, <1>6 DEF IsPrefix

(* While the buffer never holds more blocks than two calls of ::writev()   *)
(* take, what was sent are the bytes of write() from the first on.         *)
LEMMA StreamKept ==
    Spec /\ []FewBlocks => []InStream
  <1>1. Init => InOrder /\ InStream
    BY EmptySeq DEF Init, InOrder, InStream, StreamIntact
  <1>2. IInv /\ IInv' /\ FewBlocks /\ InOrder /\ InStream /\ [Next]_vars
            => InOrder' /\ InStream'
    BY InOrderNext, InStreamNext
  <1> QED
    BY <1>1, <1>2, Invariance, PTL DEF Spec

(* Completion callbacks are posted in order, each after the kernel took    *)
(* every byte up to the last of the message, in its place, for messages    *)
(* and partial writes of every length, as long as the buffer has at most   *)
(* as many blocks as two calls of ::writev() take.                         *)
THEOREM CallbacksTellTheTruth ==
    Spec /\ []FewBlocks => []CompletionTruth
  <1>1. IInv /\ InStream => CompletionTruth
    <2>1. SUFFICES ASSUME IInv, InStream
                   PROVE  CompletionTruth
      OBVIOUS
    <2>2. ASSUME userOps = 0, NEW i \in 1 .. Len(completed)
          PROVE  IsPrefix(Bytes(1, completed[i]), wire)
      <3>1. completed[i] \in Nat /\ wire \in Seq(Byte)
        BY <2>1, ElementOfSeq DEF IInv, TypeOK, Byte
      <3>2. completed[i] <= Len(wire)
        BY <2>1, <2>2 DEF IInv, Counted, UpTo
      <3> QED
        BY <2>1, <2>2, <3>1, <3>2, FrontOfStream DEF InStream, StreamIntact
    <2>3. \A i \in 1 .. Len(completed) - 1 : completed[i] < completed[i + 1]
      <3>1. Len(completed) \in Nat
        BY <2>1, LenProperties DEF IInv, TypeOK
      <3>2. \A i \in 1 .. Len(completed) - 1 :
                i \in 1 .. Len(completed) /\ i + 1 \in 1 .. Len(completed) /\ i < i + 1
        BY <3>1
      <3> QED
        BY <2>1, <3>2 DEF IInv, CallbacksInOrder, Rising
    <2> QED
      BY <2>2, <2>3 DEF CompletionTruth
  <1> QED
    BY <1>1, StreamKept, Invariance, PTL

(* A connection that was not broken goes INACTIVE only with the bytes of   *)
(* write() sent, in order, also when handleReadEvent() saw the peer's FIN  *)
(* before, as long as the buffer has at most as many blocks as two calls   *)
(* of ::writev() take.                                                     *)
THEOREM CleanEnds ==
    Spec /\ []FewBlocks => []CleanEndSendsAll
  <1>1. IInv /\ InStream => CleanEndSendsAll
    <2>1. SUFFICES ASSUME IInv, InStream, state = "INACTIVE", ~ kernel.broken, userOps = 0
                   PROVE  wire = Bytes(1, accepted)
      BY DEF CleanEndSendsAll
    <2>2. Len(wire) = accepted /\ accepted \in Nat /\ wire \in Seq(Byte)
      BY <2>1 DEF IInv, Counted, TypeOK
    <2>3. accepted <= Len(wire)
      BY <2>2
    <2> QED
      BY <2>1, <2>2, <2>3, FrontOfStream DEF InStream, StreamIntact
  <1> QED
    BY <1>1, StreamKept, Invariance, PTL


-----------------------------------------------------------------------------
(* The assertion of handleWriteEvent()                                     *)

(* Epoll is asked for write events, and a write event waits, only while    *)
(* there are bytes to send.                                                *)
AskedWithData ==
    userOps = 0 /\ state # "INACTIVE" /\ ("write" \in events \/ "write" \in readyEvents)
        => writeBuffer # << >>

LEMMA AskedDoWrite ==
    ASSUME IInv, AskedWithData, userOps' = userOps, readyEvents' = readyEvents,
           NEW length \in Nat \ {0}, doWrite(length)
    PROVE  AskedWithData'
  <1>1. CASE UNCHANGED <<state, events, writeBuffer>>
    BY <1>1 DEF AskedWithData
  <1>2. CASE state' = "INACTIVE"
    BY <1>2 DEF AskedWithData
  <1>3. ASSUME NEW data \in Seq(Byte), data # << >>, appendBuffer(data)
        PROVE  AskedWithData'
    <2>1. writeBuffer' # << >>
      BY <1>3, Appended DEF appendBuffer, IInv, TypeOK
    <2> QED
      BY <2>1 DEF AskedWithData
  <1>4. PICK data : data = Bytes(accepted + 1, length)
    OBVIOUS
  <1>5. data \in Seq(Byte) /\ Len(data) = length /\ data # << >>
    <2>1. accepted + 1 \in Nat
      BY DEF IInv, TypeOK
    <2>2. data \in Seq(Byte) /\ Len(data) = length
      BY <1>4, <2>1, BytesAre
    <2> QED
      BY <2>2, EmptySeq
  <1>6. ASSUME NEW sent \in 0 .. length - 1, appendBuffer(SubSeq(data, sent + 1, length))
        PROVE  AskedWithData'
    <2>1. sent \in Nat /\ sent <= length /\ length - sent # 0
      BY <1>6
    <2>2. Drop(data, sent) \in Seq(Byte) /\ Len(Drop(data, sent)) = length - sent
      BY <1>5, <2>1, DropLength
    <2>3. Drop(data, sent) # << >>
      BY <2>1, <2>2, EmptySeq
    <2>4. appendBuffer(Drop(data, sent))
      BY <1>5, <1>6 DEF Drop
    <2> QED
      BY <1>3, <2>2, <2>3, <2>4
  <1> QED
    BY <1>1, <1>2, <1>3, <1>4, <1>5, <1>6
       DEF doWrite, doWriteDirectly, handleWriteError, channelInActive, epollVars, bufferVars

LEMMA AskedNext ==
    ASSUME IInv, AskedWithData, [Next]_vars
    PROVE  AskedWithData'
  <1>1. CASE /\ UNCHANGED <<state, events, writeBuffer, userOps>>
             /\ readyEvents' \subseteq readyEvents \cup {"error", "read"} \cup events
    BY <1>1 DEF AskedWithData
  <1>2. CASE state' = "INACTIVE" \/ writeBuffer' # << >>
    BY <1>2 DEF AskedWithData
  <1>3. CASE UNCHANGED vars
    BY <1>1, <1>3 DEF vars
  <1>4. CASE channelActive
    <2>1. readyEvents' = {} /\ events' = {"read"}
      BY <1>4 DEF channelActive, IInv, Rounds
    <2> QED
      BY <2>1 DEF AskedWithData
  <1>5. CASE Poll
    <2>1. UNCHANGED <<state, events, writeBuffer, userOps>>
      BY <1>5 DEF Poll, epollVars, bufferVars, userVars
    <2>2. "write" \in readyEvents' => "write" \in events
      BY <1>5 DEF Poll
    <2> QED
      BY <2>1, <2>2 DEF AskedWithData
  <1>6. CASE handleErrorEvent
    <2>1. /\ UNCHANGED <<events, writeBuffer, userOps>>
          /\ readyEvents' \subseteq readyEvents
          /\ state' = state \/ state' = "INACTIVE"
      BY <1>6 DEF handleErrorEvent, Handled, channelInActive, epollVars, bufferVars, userVars
    <2> QED
      BY <1>1, <1>2, <2>1
  <1>7. CASE handleReadEvent
    <2>1. /\ readyEvents' \subseteq readyEvents /\ userOps' = userOps
          /\ \/ state' = "INACTIVE"
             \/ UNCHANGED <<state, events, writeBuffer>>
             \/ writeBuffer # << >> /\ writeBuffer' = writeBuffer
      BY <1>7 DEF handleReadEvent, Handled, NothingRead, shutdown, shutdownRead, handleReadError,
                  channelInActive, epollVars, userVars
    <2> QED
      BY <1>1, <1>2, <2>1
  <1>8. CASE StartWrite \/ WritevChunk
    <2>1. UNCHANGED <<state, events, writeBuffer, userOps>> /\ readyEvents' \subseteq readyEvents
      BY <1>8 DEF StartWrite, WritevChunk, Handled, epollVars, bufferVars, userVars
    <2> QED
      BY <1>1, <2>1
  <1>9. CASE FinishWrite
    <2>1. written.active /\ readyEvents' = readyEvents /\ userOps' = userOps
      BY <1>9 DEF FinishWrite, userVars
    <2>2. readyEvents = {} /\ state # "INACTIVE"
      BY <2>1 DEF IInv, Rounds, Quiet
    <2>3. CASE handleWriteError
      BY <1>2, <2>3 DEF handleWriteError, channelInActive
    <2>4. CASE AllSent
      <3>1. state' = "INACTIVE" \/ events' = {"read"}
        BY <2>4 DEF AllSent, channelInActive, modify
      <3> QED
        BY <2>1, <2>2, <3>1 DEF AskedWithData
    <2>5. CASE /\ written.bytes # Len(BytesIn(writeBuffer))
               /\ writeBuffer' = removeSentBuffer(written.bytes)
      <3>1. /\ IsBuffer(writeBuffer) /\ written.bytes \in Nat
            /\ Len(BytesIn(writeBuffer)) \in Nat /\ written.bytes <= Len(BytesIn(writeBuffer))
        BY Iovecs, WrittenWithin DEF IInv, TypeOK, Writing
      <3>2. written.bytes < Len(BytesIn(writeBuffer))
        BY <2>5, <3>1
      <3>3. writeBuffer' # << >>
        BY <2>5, <3>1, <3>2, Removed
      <3> QED
        BY <1>2, <3>3
    <2> QED
      BY <1>9, <2>3, <2>4, <2>5 DEF FinishWrite
  <1>10. CASE SwapTasks \/ RunDeregister \/ RunComplete \/ EndTasks
    <2>1. UNCHANGED <<state, events, writeBuffer, userOps, readyEvents>>
      BY <1>10 DEF SwapTasks, RunDeregister, RunComplete, EndTasks, epollVars, bufferVars, userVars
    <2> QED
      BY <1>1, <2>1
  <1>11. CASE Peer \/ \E length \in use.lengths : RemoteWrite(length)
    <2>1. UNCHANGED <<state, events, writeBuffer, userOps, readyEvents>>
      BY <1>11 DEF Peer, RemoteWrite, epollVars, bufferVars, userVars
    <2> QED
      BY <1>1, <2>1
  <1>12. CASE \E op \in use.userOps : UserShutdown(op)
    <2>1. userOps' # 0
      BY <1>12 DEF UserShutdown, IInv, TypeOK
    <2> QED
      BY <2>1 DEF AskedWithData
  <1>13. CASE \E length \in use.lengths : Write(length)
    <2>1. PICK length \in use.lengths : Write(length)
      BY <1>13
    <2>2. length \in Nat \ {0}
      BY SocketChannelAssumption DEF IInv, TypeOK
    <2> QED
      BY <2>1, <2>2, AskedDoWrite DEF Write
  <1>14. CASE RunWrite
    <2>1. /\ batch # << >> /\ Head(batch).kind = "write"
          /\ UNCHANGED <<userOps, readyEvents>>
      BY <1>14 DEF RunWrite
    <2>2. Head(batch).message \in Nat \ {0}
      BY <2>1, TailOfTasks, TaskKinds DEF IInv, TypeOK
    <2>3. CASE life = "destroyed"
      <3>1. UNCHANGED <<state, events, writeBuffer>>
        BY <1>14, <2>3 DEF RunWrite, epollVars, bufferVars
      <3> QED
        BY <1>1, <2>1, <3>1
    <2>4. CASE life # "destroyed"
      BY <1>14, <2>1, <2>2, <2>4, AskedDoWrite DEF RunWrite
    <2> QED
      BY <2>3, <2>4
  <1> QED
    BY <1>3, <1>4, <1>5, <1>6, <1>7, <1>8, <1>9, <1>10, <1>11, <1>12, <1>13, <1>14 DEF Next, LoopStep

(* handleWriteEvent() finds bytes to send, as it asserts, on a channel     *)
(* whose user calls no shutdown function.                                  *)
THEOREM WriteEventsFindData ==
    Spec /\ [](userOps = 0) => WriteEventHasData
  <1>1. Init => AskedWithData
    BY DEF Init, AskedWithData
  <1>2. IInv /\ AskedWithData /\ [Next]_vars => AskedWithData'
    BY AskedNext
  <1>3. IInv /\ AskedWithData /\ userOps = 0 /\ [Next]_vars
          => [Quiet /\ ~ Quiet' => writeBuffer # << >>]_vars
    <2>1. SUFFICES ASSUME IInv, AskedWithData, userOps = 0, [Next]_vars, Quiet, ~ Quiet'
                   PROVE  writeBuffer # << >>
      OBVIOUS
    <2>2. StartWrite
      <3>1. written' # written /\ ~ written.active
        BY <2>1 DEF Quiet
      <3> QED
        BY <2>1, <3>1, IdleIs
           DEF Next, LoopStep, vars, Quiet, channelActive, Poll, handleErrorEvent, handleReadEvent,
               WritevChunk, FinishWrite, SwapTasks, RunDeregister, RunComplete, RunWrite,
               EndTasks, Write, RemoteWrite, UserShutdown, Peer
    <2>3. readyEvents = {"write"} /\ (state = "INACTIVE" => Quiet')
      BY <2>2 DEF StartWrite, Idle, Quiet
    <2> QED
      BY <2>1, <2>3 DEF AskedWithData
  <1> QED
    BY <1>1, <1>2, <1>3, Invariance, PTL DEF Spec, WriteEventHasData

=============================================================================
