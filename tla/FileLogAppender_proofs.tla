----------------------- MODULE FileLogAppender_proofs -----------------------
(***************************************************************************)
(* Proofs about FileLogAppender, for messages of any number and length,    *)
(* any sizes of buffers and files and any clock: the exchange of buffers   *)
(* loses, repeats and reorders no message, the oldest buffers are kept     *)
(* when some are dropped, and daily files are never overwritten.           *)
(***************************************************************************)
EXTENDS FileLogAppender, SequenceLemmas, TLAPS

-----------------------------------------------------------------------------
(* The inductive invariant.                                                *)

Message == [id : Nat, length : Nat]

TypeOK == /\ cacheBuffer \in Seq(Message)
          /\ buffers \in Seq(Seq(Message)) /\ work \in Seq(Seq(Message))
          /\ file \in Seq(Message) /\ written \in Seq(Message) /\ appended \in Seq(Message)
          /\ archive \in [DOMAIN archive -> Seq(Message)]
          /\ now \in Nat /\ time \in Nat /\ lastRollTime \in Nat
          /\ spc \in {"check", "wait", "swapped", "file", "ended"}

(* What sync() has in hand at each of its steps.  The warning about        *)
(* dropped buffers is only among the buffers that go to the file.          *)
Rounds == /\ spc \in {"check", "wait"} => spare
          /\ spc \in {"check", "wait", "ended"} => work = << >>
          /\ spc = "swapped" => 0 \notin Ids(FlattenSeq(work))
          /\ 0 \notin Ids(FlattenSeq(buffers)) /\ 0 \notin Ids(cacheBuffer)

(* A sequence of messages that is in order, and one that comes before      *)
(* another.                                                                *)
Rising(s) == \A i \in 1 .. Len(s) : IsMessage(s[i]) => \A j \in 1 .. i - 1 : s[j].id < s[i].id
Before(s, t) == \A p \in Ids(s), q \in Ids(t) : q # 0 => p < q
Known(s, all) == \A i \in 1 .. Len(s) : IsMessage(s[i]) => s[i] = all[s[i].id]

Accounts(s, all, gone) == /\ gone \subseteq 0 .. Len(all)
                          /\ Ids(s) \ {0} = 1 .. Len(all) \ gone
                          /\ Rising(s)
                          /\ Known(s, all)

(* The contents of the files rolled in the first n seconds.                *)
RolledFile(files, s) == IF s \in DOMAIN files THEN files[s] ELSE << >>
Rolled(files, n) == FlattenSeq([s \in 1 .. n |-> RolledFile(files, s - 1)])

(* A daily file gets the name of a second that no file has yet.            *)
Archived == /\ DOMAIN archive \subseteq 0 .. lastRollTime
            /\ lastRollTime <= time /\ now <= time
            /\ spc = "file" => lastRollTime <= now
            /\ logFileType # "ROLLING_FILE" => Rolled(archive, time + 1) \o file = written

IInv == TypeOK /\ Rounds /\ Accounts(Trail, appended, lost) /\ Archived

-----------------------------------------------------------------------------
(* Sequences of messages.                                                  *)

(* Concatenation of messages, folded: the provers reason about brackets    *)
(* from associativity alone.                                               *)
Cat(s, t) == s \o t

LEMMA CatType ==
    \A x, y \in Seq(Message) : Cat(x, y) \in Seq(Message)
  BY ConcatProperties DEF Cat

LEMMA CatAssoc ==
    \A x, y, z \in Seq(Message) : Cat(Cat(x, y), z) = Cat(x, Cat(y, z))
  <1>1. \A x, y, z \in Seq(Message) : (x \o y) \o z = x \o (y \o z)
    BY Associativity
  <1> QED
    BY <1>1, Zenon DEF Cat

LEMMA CatEmpty ==
    \A x \in Seq(Message) : Cat(x, << >>) = x /\ Cat(<< >>, x) = x
  <1>1. \A x \in Seq(Message) : x \o << >> = x /\ << >> \o x = x
    BY ConcatEmptySeq
  <1> QED
    BY <1>1, Zenon DEF Cat

LEMMA CatOne ==
    ASSUME NEW s \in Seq(Message), NEW m \in Message
    PROVE  <<m>> \in Seq(Message) /\ Append(s, m) = Cat(s, <<m>>)
  <1>1. <<m>> \in Seq(Message) /\ Append(s, m) = s \o <<m>>
    BY AppendIsConcat
  <1> QED
    BY <1>1, Zenon DEF Cat

LEMMA CatAppend ==
    ASSUME NEW s \in Seq(Message), NEW t \in Seq(Message), NEW m \in Message
    PROVE  Cat(s, Append(t, m)) = Append(Cat(s, t), m)
  <1>1. s \o Append(t, m) = Append(s \o t, m)
    BY ConcatAppend
  <1> QED
    BY <1>1, Zenon DEF Cat

(* Where the elements of s and t are in s \o t.                             *)
LEMMA Positions ==
    ASSUME NEW s \in Seq(Message), NEW t \in Seq(Message), NEW m, NEW n, NEW u,
           m = Len(s), n = Len(t), u = s \o t
    PROVE  /\ m \in Nat /\ n \in Nat /\ Len(u) = m + n
           /\ \A i \in 1 .. m : i \in 1 .. m + n /\ u[i] = s[i]
           /\ \A i \in 1 .. n : m + i \in 1 .. m + n /\ u[m + i] = t[i]
           /\ \A i \in 1 .. m + n : \/ i \in 1 .. m /\ u[i] = s[i]
                                    \/ i - m \in 1 .. n /\ u[i] = t[i - m]
  <1>1. m \in Nat /\ n \in Nat
    BY LenProperties
  <1>2. Len(u) = m + n /\ \A i \in 1 .. m + n : u[i] = IF i <= m THEN s[i] ELSE t[i - m]
    BY ConcatProperties
  <1>3. \A i \in 1 .. m : i \in 1 .. m + n /\ u[i] = s[i]
    BY <1>1, <1>2
  <1>4. \A i \in 1 .. n : m + i \in 1 .. m + n /\ u[m + i] = t[i]
    BY <1>1, <1>2
  <1>5. \A i \in 1 .. m + n : \/ i \in 1 .. m /\ u[i] = s[i]
                              \/ i - m \in 1 .. n /\ u[i] = t[i - m]
    BY <1>1, <1>2
  <1> QED
    BY <1>1, <1>2, <1>3, <1>4, <1>5

LEMMA IdsConcat ==
    ASSUME NEW s \in Seq(Message), NEW t \in Seq(Message)
    PROVE  Ids(Cat(s, t)) = Ids(s) \cup Ids(t)
  <1> PICK m, n, u : m = Len(s) /\ n = Len(t) /\ u = Cat(s, t)
    OBVIOUS
  <1>1. /\ m \in Nat /\ n \in Nat /\ Len(u) = m + n
        /\ \A i \in 1 .. m : i \in 1 .. m + n /\ u[i] = s[i]
        /\ \A i \in 1 .. n : m + i \in 1 .. m + n /\ u[m + i] = t[i]
        /\ \A i \in 1 .. m + n : \/ i \in 1 .. m /\ u[i] = s[i]
                                 \/ i - m \in 1 .. n /\ u[i] = t[i - m]
    BY Positions DEF Cat
  <1>2. ASSUME NEW x \in Ids(u)
        PROVE  x \in Ids(s) \cup Ids(t)
    <2>1. PICK i \in 1 .. m + n : x = u[i].id
      BY <1>1 DEF Ids
    <2>2. CASE i \in 1 .. m /\ u[i] = s[i]
      BY <2>1, <2>2 DEF Ids
    <2>3. CASE i - m \in 1 .. n /\ u[i] = t[i - m]
      BY <2>1, <2>3 DEF Ids
    <2> QED
      BY <1>1, <2>2, <2>3
  <1>3. ASSUME NEW x \in Ids(s)
        PROVE  x \in Ids(u)
    BY <1>1 DEF Ids
  <1>4. ASSUME NEW x \in Ids(t)
        PROVE  x \in Ids(u)
    <2>1. PICK i \in 1 .. n : x = t[i].id
      BY DEF Ids
    <2>2. m + i \in 1 .. Len(u) /\ u[m + i] = t[i]
      BY <1>1
    <2> QED
      BY <2>1, <2>2 DEF Ids
  <1> QED
    BY <1>2, <1>3, <1>4

LEMMA IdsType ==
    ASSUME NEW s \in Seq(Message)
    PROVE  Ids(s) \subseteq Nat
  <1>1. \A i \in 1 .. Len(s) : s[i] \in Message
    BY ElementOfSeq
  <1>2. \A m \in Message : m.id \in Nat
    BY DEF Message
  <1> QED
    BY <1>1, <1>2 DEF Ids

LEMMA IdsEmpty ==
    Ids(<< >>) = {}
  BY DEF Ids

LEMMA IdsOne ==
    ASSUME NEW m
    PROVE  Ids(<<m>>) = {m.id}
  BY DEF Ids

LEMMA RisingConcat ==
    ASSUME NEW s \in Seq(Message), NEW t \in Seq(Message)
    PROVE  Rising(Cat(s, t)) <=> Rising(s) /\ Rising(t) /\ Before(s, t)
  <1> PICK m, n, u : m = Len(s) /\ n = Len(t) /\ u = Cat(s, t)
    OBVIOUS
  <1>1. /\ m \in Nat /\ n \in Nat /\ Len(u) = m + n
        /\ \A i \in 1 .. m : i \in 1 .. m + n /\ u[i] = s[i]
        /\ \A i \in 1 .. n : m + i \in 1 .. m + n /\ u[m + i] = t[i]
        /\ \A i \in 1 .. m + n : \/ i \in 1 .. m /\ u[i] = s[i]
                                 \/ i - m \in 1 .. n /\ u[i] = t[i - m]
    BY Positions DEF Cat
  <1>2. ASSUME Rising(u)
        PROVE  Rising(s) /\ Rising(t) /\ Before(s, t)
    <2>0. \A i \in 1 .. m + n : u[i].id # 0 => \A j \in 1 .. i - 1 : u[j].id < u[i].id
      BY <1>1, <1>2 DEF Rising, IsMessage
    <2>1. Rising(s)
      <3> SUFFICES ASSUME NEW i \in 1 .. m, s[i].id # 0, NEW j \in 1 .. i - 1
                   PROVE  s[j].id < s[i].id
        BY DEF Rising, IsMessage
      <3>1. j \in 1 .. m
        BY <1>1
      <3> QED
        BY <1>1, <2>0, <3>1
    <2>2. Rising(t)
      <3> SUFFICES ASSUME NEW i \in 1 .. n, t[i].id # 0, NEW j \in 1 .. i - 1
                   PROVE  t[j].id < t[i].id
        BY DEF Rising, IsMessage
      <3>1. j \in 1 .. n /\ m + j \in 1 .. (m + i) - 1
        BY <1>1
      <3>2. /\ m + i \in 1 .. m + n /\ u[m + i] = t[i]
            /\ u[m + j] = t[j]
        BY <1>1, <3>1
      <3> QED
        BY <3>1, <3>2, <2>0
    <2>3. Before(s, t)
      <3> SUFFICES ASSUME NEW j \in 1 .. m, NEW i \in 1 .. n, t[i].id # 0
                   PROVE  s[j].id < t[i].id
        BY DEF Before, Ids
      <3>1. j \in 1 .. (m + i) - 1
        BY <1>1
      <3>2. /\ m + i \in 1 .. m + n /\ u[m + i] = t[i]
            /\ u[j] = s[j]
        BY <1>1
      <3> QED
        BY <3>1, <3>2, <2>0
    <2> QED
      BY <2>1, <2>2, <2>3
  <1>3. ASSUME Rising(s), Rising(t), Before(s, t)
        PROVE  Rising(u)
    <2> SUFFICES ASSUME NEW i \in 1 .. m + n, u[i].id # 0, NEW j \in 1 .. i - 1
                 PROVE  u[j].id < u[i].id
      BY <1>1 DEF Rising, IsMessage
    <2>1. j \in 1 .. m + n
      BY <1>1
    <2>2. CASE i \in 1 .. m /\ u[i] = s[i]
      <3>1. j \in 1 .. m /\ u[j] = s[j]
        BY <1>1, <2>2
      <3> QED
        BY <1>3, <2>2, <3>1 DEF Rising, IsMessage
    <2>3. CASE i - m \in 1 .. n /\ u[i] = t[i - m]
      <3>1. CASE j \in 1 .. m /\ u[j] = s[j]
        BY <1>3, <2>3, <3>1 DEF Before, Ids
      <3>2. CASE j - m \in 1 .. n /\ u[j] = t[j - m]
        <4>1. j - m \in 1 .. (i - m) - 1
          BY <1>1, <3>2
        <4> QED
          BY <1>3, <2>3, <3>2, <4>1 DEF Rising, IsMessage
      <3> QED
        BY <1>1, <2>1, <3>1, <3>2
    <2> QED
      BY <1>1, <2>2, <2>3
  <1> QED
    BY <1>2, <1>3

LEMMA KnownConcat ==
    ASSUME NEW s \in Seq(Message), NEW t \in Seq(Message), NEW all
    PROVE  Known(Cat(s, t), all) <=> Known(s, all) /\ Known(t, all)
  <1> PICK m, n, u : m = Len(s) /\ n = Len(t) /\ u = Cat(s, t)
    OBVIOUS
  <1>1. /\ m \in Nat /\ n \in Nat /\ Len(u) = m + n
        /\ \A i \in 1 .. m : i \in 1 .. m + n /\ u[i] = s[i]
        /\ \A i \in 1 .. n : m + i \in 1 .. m + n /\ u[m + i] = t[i]
        /\ \A i \in 1 .. m + n : \/ i \in 1 .. m /\ u[i] = s[i]
                                 \/ i - m \in 1 .. n /\ u[i] = t[i - m]
    BY Positions DEF Cat
  <1>2. ASSUME Known(u, all)
        PROVE  Known(s, all) /\ Known(t, all)
    <2>1. Known(s, all)
      BY <1>1, <1>2 DEF Known
    <2>2. Known(t, all)
      <3> SUFFICES ASSUME NEW i \in 1 .. n, IsMessage(t[i])
                   PROVE  t[i] = all[t[i].id]
        BY DEF Known
      <3>1. m + i \in 1 .. Len(u) /\ u[m + i] = t[i]
        BY <1>1
      <3> QED
        BY <1>2, <3>1 DEF Known
    <2> QED
      BY <2>1, <2>2
  <1>3. ASSUME Known(s, all), Known(t, all)
        PROVE  Known(u, all)
    <2> SUFFICES ASSUME NEW i \in 1 .. m + n, IsMessage(u[i])
                 PROVE  u[i] = all[u[i].id]
      BY <1>1 DEF Known
    <2>1. CASE i \in 1 .. m /\ u[i] = s[i]
      BY <1>3, <2>1 DEF Known
    <2>2. CASE i - m \in 1 .. n /\ u[i] = t[i - m]
      BY <1>3, <2>2 DEF Known
    <2> QED
      BY <1>1, <2>1, <2>2
  <1> QED
    BY <1>2, <1>3

(* Sequences of which nothing is a message of append().                    *)
LEMMA NoMessages ==
    ASSUME NEW y \in Seq(Message), Ids(y) \subseteq {0}, NEW all
    PROVE  Rising(y) /\ Known(y, all) /\ \A s : Before(s, y)
  <1>1. \A i \in 1 .. Len(y) : ~ IsMessage(y[i])
    BY DEF Ids, IsMessage
  <1> QED
    BY <1>1 DEF Rising, Known, Before

(* Messages in the middle are lost, or replaced by a warning.              *)
LEMMA DropMiddle ==
    ASSUME NEW a \in Seq(Message), NEW x \in Seq(Message), NEW y \in Seq(Message),
           NEW c \in Seq(Message), NEW all \in Seq(Message), NEW gone,
           Accounts(Cat(Cat(a, x), c), all, gone), Ids(y) \subseteq {0}
    PROVE  Accounts(Cat(Cat(a, y), c), all, gone \cup Ids(x))
  <1>n. Len(all) \in Nat
    BY LenProperties
  <1>1. Cat(a, x) \in Seq(Message) /\ Cat(a, y) \in Seq(Message)
    BY CatType
  <1>2. /\ Ids(Cat(Cat(a, x), c)) = (Ids(a) \cup Ids(x)) \cup Ids(c)
        /\ Ids(Cat(Cat(a, y), c)) = (Ids(a) \cup Ids(y)) \cup Ids(c)
    <2>1. /\ Ids(Cat(Cat(a, x), c)) = Ids(Cat(a, x)) \cup Ids(c)
          /\ Ids(Cat(Cat(a, y), c)) = Ids(Cat(a, y)) \cup Ids(c)
      BY <1>1, IdsConcat
    <2>2. Ids(Cat(a, x)) = Ids(a) \cup Ids(x) /\ Ids(Cat(a, y)) = Ids(a) \cup Ids(y)
      BY IdsConcat
    <2> QED
      BY <2>1, <2>2
  <1>3. Rising(a) /\ Rising(x) /\ Before(a, x) /\ Rising(c) /\ Before(Cat(a, x), c)
    BY <1>1, RisingConcat DEF Accounts
  <1>4. Known(a, all) /\ Known(c, all)
    BY <1>1, KnownConcat DEF Accounts
  <1>5. Rising(y) /\ Known(y, all) /\ Before(a, y)
    BY NoMessages
  <1>6. /\ Ids(a) \subseteq Nat /\ Ids(x) \subseteq Nat /\ Ids(c) \subseteq Nat
        /\ Ids(Cat(a, x)) = Ids(a) \cup Ids(x) /\ Ids(Cat(a, y)) = Ids(a) \cup Ids(y)
    BY IdsType, IdsConcat
  <1>7. Before(Cat(a, y), c)
    BY <1>3, <1>6 DEF Before
  <1>8. Rising(Cat(Cat(a, y), c))
    <2>1. Rising(Cat(a, y))
      BY <1>3, <1>5, RisingConcat
    <2> QED
      BY <1>1, <1>3, <1>7, <2>1, RisingConcat
  <1>9. Known(Cat(Cat(a, y), c), all)
    <2>1. Known(Cat(a, y), all)
      BY <1>4, <1>5, KnownConcat
    <2> QED
      BY <1>1, <1>4, <2>1, KnownConcat
  <1>10. \A q \in Ids(x) : q # 0 => q \notin Ids(a) /\ q \notin Ids(c)
    <2>1. \A q \in Ids(x) : q # 0 => q \notin Ids(a)
      BY <1>3, <1>6 DEF Before
    <2>2. \A q \in Ids(x) : q # 0 => q \notin Ids(c)
      BY <1>3, <1>6 DEF Before
    <2> QED
      BY <2>1, <2>2
  <1>11. ((Ids(a) \cup Ids(x)) \cup Ids(c)) \ {0} = 1 .. Len(all) \ gone /\ gone \subseteq 0 .. Len(all)
    BY <1>2 DEF Accounts
  <1>12. Ids(x) \subseteq 0 .. Len(all)
    BY <1>11, <1>n
  <1>13. ((Ids(a) \cup Ids(y)) \cup Ids(c)) \ {0} = 1 .. Len(all) \ (gone \cup Ids(x))
    BY <1>10, <1>11
  <1> QED
    BY <1>2, <1>8, <1>9, <1>11, <1>12, <1>13 DEF Accounts

(* One more message.                                                       *)
LEMMA AddOne ==
    ASSUME NEW s \in Seq(Message), NEW all \in Seq(Message), NEW gone, NEW m \in Message,
           Accounts(s, all, gone), m.id = Len(all) + 1
    PROVE  Accounts(Append(s, m), Append(all, m), gone)
  <1> PICK n, more : n = Len(all) /\ more = Append(all, m)
    OBVIOUS
  <1>1. n \in Nat /\ Len(more) = n + 1 /\ more[n + 1] = m /\ \A i \in 1 .. n : more[i] = all[i]
    BY LenProperties, AppendProperties
  <1>2. <<m>> \in Seq(Message) /\ Append(s, m) = Cat(s, <<m>>) /\ Ids(<<m>>) = {n + 1}
    BY CatOne, IdsOne
  <1>3. Ids(Cat(s, <<m>>)) = Ids(s) \cup {n + 1} /\ Ids(s) \subseteq Nat
    <2>1. Ids(Cat(s, <<m>>)) = Ids(s) \cup Ids(<<m>>)
      BY <1>2, IdsConcat
    <2> QED
      BY <1>2, <2>1, IdsType
  <1>4. Ids(s) \ {0} = 1 .. n \ gone /\ gone \subseteq 0 .. n /\ Rising(s) /\ Known(s, all)
    BY DEF Accounts
  <1>5. Rising(Cat(s, <<m>>))
    <2>1. Before(s, <<m>>)
      <3>1. \A i \in Ids(s) : i < n + 1
        BY <1>1, <1>3, <1>4
      <3> QED
        BY <1>2, <3>1 DEF Before
    <2>2. Rising(<<m>>)
      BY DEF Rising
    <2> QED
      BY <1>2, <1>4, <2>1, <2>2, RisingConcat
  <1>6. Known(Cat(s, <<m>>), more)
    <2>1. Known(s, more)
      <3> SUFFICES ASSUME NEW i \in 1 .. Len(s), IsMessage(s[i])
                   PROVE  s[i] = more[s[i].id]
        BY DEF Known
      <3>1. s[i].id \in Ids(s) /\ s[i].id # 0
        BY DEF Ids, IsMessage
      <3> QED
        BY <1>1, <1>4, <3>1 DEF Known
    <2>2. Known(<<m>>, more)
      BY <1>1 DEF Known
    <2> QED
      BY <1>2, <2>1, <2>2, KnownConcat
  <1>7. (Ids(s) \cup {n + 1}) \ {0} = 1 .. n + 1 \ gone /\ gone \subseteq 0 .. n + 1
    BY <1>1, <1>4
  <1> QED
    BY <1>1, <1>2, <1>3, <1>5, <1>6, <1>7 DEF Accounts

-----------------------------------------------------------------------------
(* Buffers.                                                                *)

LEMMA EmptyLength ==
    length(<< >>) = 0
  <1> DEFINE D == DOMAIN << >>
  <1>1. D = {} /\ SUBSET D = {{}}
    OBVIOUS
  <1> QED
    BY <1>1 DEF length, FoldLeft, MapThenFoldSet

(* A message that does not fit is the first of an empty buffer.            *)
LEMMA FitsEmpty ==
    ASSUME NEW m \in Message, m.length \in Lengths
    PROVE  writeBytes(<< >>, m) = <<m>>
  <1>1. kLogBufferPieceSize - length(<< >>) > m.length
    <2>1. kLogBufferPieceSize \in Nat /\ Lengths \subseteq 1 .. kLogBufferPieceSize - 1
      BY FileLogAppenderAssumption, Zenon
    <2>2. \A k \in Nat : \A l \in 1 .. k - 1 : k - 0 > l
      OBVIOUS
    <2>3. kLogBufferPieceSize - 0 > m.length
      BY <2>1, <2>2
    <2> QED
      BY <2>3, EmptyLength, Zenon
  <1>2. Append(<< >>, m) = <<m>>
    OBVIOUS
  <1> QED
    BY <1>1, <1>2 DEF writeBytes, writableBytes

-----------------------------------------------------------------------------
(* Rolled files.                                                           *)

LEMMA RolledEmpty ==
    ASSUME NEW files
    PROVE  Rolled(files, 0) = << >>
  BY FlattenEmpty DEF Rolled

LEMMA RolledType ==
    ASSUME NEW files, files \in [DOMAIN files -> Seq(Message)], NEW n \in Nat
    PROVE  /\ RolledFile(files, n) \in Seq(Message)
           /\ [s \in 1 .. n |-> RolledFile(files, s - 1)] \in Seq(Seq(Message))
           /\ Rolled(files, n) \in Seq(Message)
  <1>1. \A s : RolledFile(files, s) \in Seq(Message)
    BY DEF RolledFile
  <1>2. [s \in 1 .. n |-> RolledFile(files, s - 1)] \in Seq(Seq(Message))
    BY <1>1, IsASeq
  <1>3. Rolled(files, n) \in Seq(Message)
    BY <1>2, FlattenType DEF Rolled
  <1> QED
    BY <1>1, <1>2, <1>3

LEMMA RolledNext ==
    ASSUME NEW files, files \in [DOMAIN files -> Seq(Message)], NEW n \in Nat
    PROVE  Rolled(files, n + 1) = Rolled(files, n) \o RolledFile(files, n)
  <1> DEFINE s == [i \in 1 .. n |-> RolledFile(files, i - 1)]
             t == [i \in 1 .. n + 1 |-> RolledFile(files, i - 1)]
  <1>1. s \in Seq(Seq(Message)) /\ RolledFile(files, n) \in Seq(Message)
    BY RolledType
  <1>2. Len(s) = n
    BY <1>1
  <1>3. t = Append(s, RolledFile(files, n))
    BY <1>1, <1>2
  <1>4. FlattenSeq(Append(s, RolledFile(files, n))) = FlattenSeq(s) \o RolledFile(files, n)
    <2> HIDE DEF s
    <2> QED
      BY <1>1, FlattenAppend
  <1> QED
    BY <1>3, <1>4 DEF Rolled

LEMMA RolledSame ==
    ASSUME NEW f, NEW g, NEW n \in Nat, \A s \in 0 .. n - 1 : RolledFile(f, s) = RolledFile(g, s)
    PROVE  Rolled(f, n) = Rolled(g, n)
  <1>1. [s \in 1 .. n |-> RolledFile(f, s - 1)] = [s \in 1 .. n |-> RolledFile(g, s - 1)]
    <2>1. \A s \in 1 .. n : s - 1 \in 0 .. n - 1
      OBVIOUS
    <2> QED
      BY <2>1
  <1> QED
    BY <1>1 DEF Rolled

(* No file is rolled at a second for which there is none.                  *)
LEMMA RolledNothing ==
    ASSUME NEW files, files \in [DOMAIN files -> Seq(Message)], NEW n \in Nat,
           n \notin DOMAIN files
    PROVE  Rolled(files, n + 1) = Rolled(files, n)
  <1>1. RolledFile(files, n) = << >>
    BY DEF RolledFile
  <1>2. Rolled(files, n) \in Seq(Message)
    BY RolledType
  <1> QED
    BY <1>1, <1>2, RolledNext, ConcatEmptySeq

LEMMA RolledNone ==
    ASSUME NEW files, files \in [DOMAIN files -> Seq(Message)], DOMAIN files = {}, NEW n \in Nat
    PROVE  Rolled(files, n) = << >>
  <1> DEFINE T == {k \in Nat : Rolled(files, k) = << >>}
  <1>1. 0 \in T
    BY RolledEmpty
  <1>2. \A k \in Nat : k \in T => k + 1 \in T
    <2>1. \A k \in Nat : Rolled(files, k + 1) = Rolled(files, k)
      BY RolledNothing
    <2> QED
      BY <2>1
  <1>3. Nat \subseteq T
    <2> HIDE DEF T
    <2> QED
      BY <1>1, <1>2, Induction
  <1> QED
    BY <1>3

(* A file with a name later than all others comes last.                    *)
LEMMA RollLatest ==
    ASSUME NEW files, files \in [DOMAIN files -> Seq(Message)], NEW n \in Nat,
           DOMAIN files \subseteq 0 .. n - 1, NEW v \in Seq(Message), NEW k \in Nat, k > n
    PROVE  Rolled(Renamed(files, n, v), k) = Cat(Rolled(files, k), v)
  <1> PICK more : more = Renamed(files, n, v)
    OBVIOUS
  <1>1. /\ more \in [DOMAIN more -> Seq(Message)] /\ DOMAIN more = DOMAIN files \cup {n}
        /\ more[n] = v /\ \A s \in DOMAIN files : more[s] = files[s]
    <2>1. more = [x \in DOMAIN files \cup {n} |-> IF x = n THEN v ELSE files[x]]
      BY DEF Renamed
    <2>2. \A s \in DOMAIN files : s # n
      OBVIOUS
    <2> QED
      BY <2>1, <2>2
  <1>2. RolledFile(more, n) = v /\ \A s : s # n => RolledFile(more, s) = RolledFile(files, s)
    BY <1>1 DEF RolledFile
  <1> DEFINE T == {t \in Nat : t > n => Rolled(more, t) = Rolled(files, t) \o v}
  <1>3. 0 \in T
    OBVIOUS
  <1>4. \A t \in Nat : t \in T => t + 1 \in T
    <2> TAKE t \in Nat
    <2> HAVE t \in T
    <2>h. t > n => Rolled(more, t) = Rolled(files, t) \o v
      OBVIOUS
    <2> SUFFICES ASSUME t + 1 > n
                 PROVE  Rolled(more, t + 1) = Rolled(files, t + 1) \o v
      OBVIOUS
    <2>1. CASE t = n
      <3>1. Rolled(more, n) = Rolled(files, n)
        BY <1>2, RolledSame
      <3>2. Rolled(more, n + 1) = Rolled(more, n) \o RolledFile(more, n)
        BY <1>1, RolledNext
      <3>3. Rolled(files, n + 1) = Rolled(files, n)
        BY RolledNothing
      <3> QED
        BY <1>2, <2>1, <3>1, <3>2, <3>3
    <2>2. CASE t > n
      <3>1. Rolled(more, t) = Rolled(files, t) \o v
        BY <2>2, <2>h
      <3>2. t \notin DOMAIN files /\ t \notin DOMAIN more
        BY <1>1, <2>2
      <3>3. Rolled(files, t + 1) = Rolled(files, t) /\ Rolled(more, t + 1) = Rolled(more, t)
        BY <1>1, <3>2, RolledNothing
      <3> QED
        BY <3>1, <3>3
    <2> QED
      BY <2>1, <2>2
  <1>5. Nat \subseteq T
    <2> HIDE DEF T
    <2> QED
      BY <1>3, <1>4, Induction
  <1>6. Rolled(more, k) = Rolled(files, k) \o v
    BY <1>5
  <1> QED
    BY <1>6, Zenon DEF Cat

-----------------------------------------------------------------------------
(* The parts of Trail, in and out of brackets.                             *)

LEMMA TrailParts ==
    ASSUME TypeOK
    PROVE  /\ FlattenSeq(work) \in Seq(Message) /\ FlattenSeq(buffers) \in Seq(Message)
           /\ Trail = Cat(Cat(Cat(written, FlattenSeq(work)), FlattenSeq(buffers)), cacheBuffer)
           /\ Trail \in Seq(Message)
  <1>1. FlattenSeq(work) \in Seq(Message) /\ FlattenSeq(buffers) \in Seq(Message)
    BY FlattenType DEF TypeOK
  <1>2. Trail = Cat(Cat(Cat(written, FlattenSeq(work)), FlattenSeq(buffers)), cacheBuffer)
    BY DEF Trail, Cat
  <1>3. written \in Seq(Message) /\ cacheBuffer \in Seq(Message)
    BY DEF TypeOK
  <1> QED
    BY <1>1, <1>2, <1>3, CatType

LEMMA Regroup ==
    ASSUME NEW a \in Seq(Message), NEW b \in Seq(Message), NEW x \in Seq(Message),
           NEW d \in Seq(Message), NEW e \in Seq(Message)
    PROVE  Cat(Cat(Cat(a, Cat(b, x)), d), e) = Cat(Cat(Cat(a, b), x), Cat(d, e))
  BY CatType, CatAssoc

LEMMA RegroupMore ==
    ASSUME NEW a \in Seq(Message), NEW b \in Seq(Message), NEW x \in Seq(Message),
           NEW r \in Seq(Message), NEW d \in Seq(Message), NEW e \in Seq(Message)
    PROVE  Cat(Cat(Cat(a, Cat(Cat(b, x), r)), d), e) = Cat(Cat(Cat(a, b), x), Cat(r, Cat(d, e)))
  <1>1. /\ Cat(b, x) \in Seq(Message) /\ Cat(d, e) \in Seq(Message) /\ Cat(a, b) \in Seq(Message)
        /\ Cat(Cat(a, b), x) \in Seq(Message) /\ Cat(a, Cat(b, x)) = Cat(Cat(a, b), x)
    BY CatType, CatAssoc
  <1>2. Cat(a, Cat(Cat(b, x), r)) = Cat(Cat(Cat(a, b), x), r)
    BY <1>1, CatAssoc
  <1>3. Cat(Cat(Cat(a, b), x), r) \in Seq(Message)
    BY <1>1, CatType
  <1>4. Cat(Cat(Cat(Cat(Cat(a, b), x), r), d), e) = Cat(Cat(Cat(Cat(a, b), x), r), Cat(d, e))
    BY <1>3, CatAssoc
  <1>5. Cat(Cat(Cat(Cat(a, b), x), r), Cat(d, e)) = Cat(Cat(Cat(a, b), x), Cat(r, Cat(d, e)))
    BY <1>1, CatAssoc
  <1> QED
    BY <1>2, <1>4, <1>5

-----------------------------------------------------------------------------
(* One lemma per action.                                                   *)

LEMMA InitIInv ==
    ASSUME Init
    PROVE  IInv
  <1>0. kSecondsPerDay \in Nat
    BY FileLogAppenderAssumption
  <1>1. TypeOK
    <2>1. << >> \in Seq(Message) /\ << >> \in Seq(Seq(Message)) /\ << >> \in [DOMAIN << >> -> Seq(Message)]
      BY EmptySeq
    <2> QED
      BY <1>0, <2>1 DEF Init, TypeOK
  <1>2. Ids(<< >>) = {} /\ FlattenSeq(<< >>) = << >>
    BY IdsEmpty, FlattenEmpty
  <1>3. Rounds
    BY <1>2 DEF Init, Rounds
  <1>4. Accounts(Trail, appended, lost)
    <2>1. Trail = << >>
      BY <1>2 DEF Init, Trail
    <2> QED
      BY <1>2, <2>1 DEF Init, Accounts, Rising, Known
  <1>5. Archived
    <2>1. time + 1 \in Nat /\ DOMAIN archive = {}
      BY <1>0 DEF Init
    <2>2. Rolled(archive, time + 1) = << >>
      BY <1>1, <2>1, RolledNone DEF TypeOK
    <2> QED
      BY <1>0, <2>2 DEF Init, Archived
  <1> QED
    BY <1>1, <1>3, <1>4, <1>5 DEF IInv

(* What the actions that move no message leave alone.                      *)
LEMMA NoMessageMoves ==
    ASSUME IInv, UNCHANGED <<sharedVars, work, written, lost>>
    PROVE  Accounts(Trail, appended, lost)'
  <1>1. Trail' = Trail /\ appended' = appended /\ lost' = lost
    BY DEF sharedVars, Trail
  <1>2. Accounts(Trail, appended, lost)
    BY DEF IInv
  <1> QED
    BY <1>1, <1>2 DEF Accounts

(* append(): the message becomes the last of the trail.                    *)
LEMMA AppendPreserves ==
    ASSUME IInv, NEW len \in Lengths, append(len)
    PROVE  IInv'
  <1> PICK m : m = NewMessage(len)
    OBVIOUS
  <1> PICK w, W, B : w = written /\ W = FlattenSeq(work) /\ B = FlattenSeq(buffers)
    OBVIOUS
  <1>l. len \in Nat
    BY FileLogAppenderAssumption
  <1>0. /\ TypeOK /\ Rounds /\ Accounts(Trail, appended, lost) /\ Archived
    BY DEF IInv
  <1>1. /\ m \in Message /\ m.id = Len(appended) + 1 /\ m.length = len /\ m.id # 0
    <2>1. Len(appended) \in Nat
      BY <1>0, LenProperties DEF TypeOK
    <2> QED
      BY <1>l, <2>1 DEF NewMessage, Message
  <1>2. /\ appended' = Append(appended, m)
        /\ UNCHANGED <<settings, spc, syncVars, fileVars>>
        /\ \/ cacheBuffer' = Append(cacheBuffer, m) /\ buffers' = buffers
           \/ buffers' = Append(buffers, cacheBuffer) /\ cacheBuffer' = <<m>>
    <2>1. AppendIf(writableBytes(cacheBuffer) > len, m)
      BY DEF append
    <2>2. CASE writableBytes(cacheBuffer) > len
      BY <1>1, <2>1, <2>2 DEF AppendIf, writeBytes
    <2>3. CASE ~ (writableBytes(cacheBuffer) > len)
      <3>1. writeBytes(<< >>, m) = <<m>>
        BY <1>1, FitsEmpty
      <3> QED
        BY <2>1, <2>3, <3>1 DEF AppendIf
    <2> QED
      BY <2>2, <2>3
  <1>3. /\ w \in Seq(Message) /\ W \in Seq(Message) /\ B \in Seq(Message) /\ cacheBuffer \in Seq(Message)
        /\ appended \in Seq(Message) /\ buffers \in Seq(Seq(Message))
        /\ Trail = Cat(Cat(Cat(w, W), B), cacheBuffer) /\ Trail \in Seq(Message)
    BY <1>0, TrailParts DEF TypeOK
  <1>4. /\ Cat(Cat(w, W), B) \in Seq(Message) /\ Cat(w, W) \in Seq(Message)
        /\ <<m>> \in Seq(Message) /\ Append(Trail, m) = Cat(Trail, <<m>>)
        /\ Append(cacheBuffer, m) = Cat(cacheBuffer, <<m>>)
    BY <1>1, <1>3, CatType, CatOne
  <1>5. /\ buffers' \in Seq(Seq(Message)) /\ cacheBuffer' \in Seq(Message)
        /\ Trail' = Append(Trail, m)
        /\ 0 \notin Ids(FlattenSeq(buffers)') /\ 0 \notin Ids(cacheBuffer')
    <2>w. written' = w /\ FlattenSeq(work') = W
      BY <1>2 DEF fileVars, syncVars
    <2>z. 0 \notin Ids(B) /\ 0 \notin Ids(cacheBuffer)
      BY <1>0 DEF Rounds
    <2>m. 0 \notin Ids(<<m>>)
      BY <1>1, IdsOne
    <2>1. CASE cacheBuffer' = Append(cacheBuffer, m) /\ buffers' = buffers
      <3>1. cacheBuffer' = Cat(cacheBuffer, <<m>>) /\ FlattenSeq(buffers)' = B
        BY <1>4, <2>1
      <3>2. Trail' = Cat(Cat(Cat(w, W), B), Cat(cacheBuffer, <<m>>))
        BY <2>w, <3>1 DEF Trail, Cat
      <3>3. Trail' = Append(Trail, m)
        <4>1. Trail' = Cat(Cat(Cat(w, W), B), Append(cacheBuffer, m))
          BY <1>4, <3>2, Zenon
        <4>2. /\ Cat(Cat(w, W), B) \in Seq(Message) /\ cacheBuffer \in Seq(Message)
          BY <1>3, <1>4
        <4>3. Cat(Cat(Cat(w, W), B), Append(cacheBuffer, m)) = Append(Cat(Cat(Cat(w, W), B), cacheBuffer), m)
          BY <1>1, <4>2, CatAppend
        <4> QED
          BY <1>3, <4>1, <4>3, Zenon
      <3>4. Ids(Cat(cacheBuffer, <<m>>)) = Ids(cacheBuffer) \cup Ids(<<m>>)
        BY <1>3, <1>4, IdsConcat
      <3>5. 0 \notin Ids(Cat(cacheBuffer, <<m>>)) /\ Cat(cacheBuffer, <<m>>) \in Seq(Message)
        BY <1>3, <1>4, <2>z, <2>m, <3>4, CatType
      <3> QED
        BY <1>3, <2>1, <2>z, <3>1, <3>3, <3>5, Zenon
    <2>2. CASE buffers' = Append(buffers, cacheBuffer) /\ cacheBuffer' = <<m>>
      <3>1. FlattenSeq(Append(buffers, cacheBuffer)) = Cat(B, cacheBuffer)
        BY <1>3, FlattenAppend DEF Cat
      <3>2. Append(buffers, cacheBuffer) \in Seq(Seq(Message))
        BY <1>3, AppendProperties
      <3>3. FlattenSeq(buffers)' = Cat(B, cacheBuffer)
        BY <2>2, <3>1
      <3>4. Trail' = Cat(Cat(Cat(w, W), Cat(B, cacheBuffer)), <<m>>)
        BY <2>w, <2>2, <3>3 DEF Trail, Cat
      <3>5. Trail' = Append(Trail, m)
        BY <1>3, <1>4, <3>4, CatAssoc
      <3>6. Ids(Cat(B, cacheBuffer)) = Ids(B) \cup Ids(cacheBuffer)
        BY <1>3, IdsConcat
      <3>7. 0 \notin Ids(Cat(B, cacheBuffer))
        BY <2>z, <3>6
      <3> QED
        BY <1>4, <2>2, <2>m, <3>2, <3>3, <3>5, <3>7, Zenon
    <2> QED
      BY <1>2, <2>1, <2>2
  <1>6. TypeOK'
    <2>1. Append(appended, m) \in Seq(Message)
      BY <1>1, <1>3, AppendProperties
    <2> QED
      BY <1>0, <1>2, <1>5, <2>1 DEF TypeOK, settings, syncVars, fileVars
  <1>7. Rounds'
    BY <1>0, <1>2, <1>5 DEF Rounds, syncVars
  <1>8. Accounts(Trail, appended, lost)'
    <2>1. Accounts(Append(Trail, m), Append(appended, m), lost)
      BY <1>0, <1>1, <1>3, AddOne
    <2>2. lost' = lost
      BY <1>2 DEF fileVars
    <2> QED
      BY <1>2, <1>5, <2>1, <2>2 DEF Accounts
  <1>9. Archived'
    BY <1>0, <1>2 DEF Archived, settings, syncVars, fileVars
  <1> QED
    BY <1>6, <1>7, <1>8, <1>9 DEF IInv

LEMMA SettingPreserves ==
    ASSUME IInv, \/ \E size \in RollingSizes : setLogFileRollingSize(size)
                 \/ Destroy
    PROVE  IInv'
  <1>0. UNCHANGED <<logFileType, time, sharedVars, spc, syncVars, fileVars>>
    BY DEF setLogFileRollingSize, Destroy
  <1>1. Accounts(Trail, appended, lost)'
    BY <1>0, NoMessageMoves DEF syncVars, fileVars
  <1>2. TypeOK'
    BY <1>0 DEF IInv, TypeOK, sharedVars, syncVars, fileVars
  <1>3. Rounds'
    BY <1>0 DEF IInv, Rounds, sharedVars, syncVars
  <1>4. Archived'
    BY <1>0 DEF IInv, Archived, syncVars, fileVars
  <1> QED
    BY <1>1, <1>2, <1>3, <1>4 DEF IInv

(* A second passes in which no file has been rolled.                       *)
LEMMA TickPreserves ==
    ASSUME IInv, Tick
    PROVE  IInv'
  <1>0. /\ time' = time + 1
        /\ UNCHANGED <<logFileType, sharedVars, spc, syncVars, fileVars>>
    BY DEF Tick
  <1>1. Accounts(Trail, appended, lost)'
    BY <1>0, NoMessageMoves DEF syncVars, fileVars
  <1>2. TypeOK'
    BY <1>0 DEF IInv, TypeOK, sharedVars, syncVars, fileVars
  <1>3. Rounds'
    BY <1>0 DEF IInv, Rounds, sharedVars, syncVars
  <1>4. Archived'
    <2>1. /\ time \in Nat /\ lastRollTime \in Nat /\ now \in Nat /\ lastRollTime <= time /\ now <= time
          /\ DOMAIN archive \subseteq 0 .. lastRollTime
          /\ archive \in [DOMAIN archive -> Seq(Message)]
          /\ spc = "file" => lastRollTime <= now
          /\ logFileType # "ROLLING_FILE" => Rolled(archive, time + 1) \o file = written
      BY DEF IInv, TypeOK, Archived
    <2>2. UNCHANGED <<logFileType, spc, now, file, archive, lastRollTime, written>>
      BY <1>0 DEF syncVars, fileVars
    <2>3. Rolled(archive, (time + 1) + 1) = Rolled(archive, time + 1)
      <3>1. time + 1 \in Nat /\ time + 1 \notin DOMAIN archive
        BY <2>1
      <3> QED
        BY <2>1, <3>1, RolledNothing
    <2>4. lastRollTime <= time + 1 /\ now <= time + 1
      BY <2>1
    <2> QED
      BY <1>0, <2>1, <2>2, <2>3, <2>4 DEF Archived
  <1> QED
    BY <1>1, <1>2, <1>3, <1>4 DEF IInv

LEMMA SyncIdlePreserves ==
    ASSUME IInv, SyncCondition \/ SyncTimeout
    PROVE  IInv'
  <1>0. /\ UNCHANGED <<settings, sharedVars, syncVars, fileVars>>
        /\ spc \in {"check", "wait"} /\ spc' \in {"check", "wait", "ended"}
    BY DEF SyncCondition, SyncTimeout
  <1>1. Accounts(Trail, appended, lost)'
    BY <1>0, NoMessageMoves DEF syncVars, fileVars
  <1>2. TypeOK'
    BY <1>0 DEF IInv, TypeOK, settings, sharedVars, syncVars, fileVars
  <1>3. Rounds'
    BY <1>0 DEF IInv, Rounds, sharedVars, syncVars
  <1>4. Archived'
    BY <1>0 DEF IInv, Archived, settings, syncVars, fileVars
  <1> QED
    BY <1>1, <1>2, <1>3, <1>4 DEF IInv

LEMMA SyncEndRoundPreserves ==
    ASSUME IInv, SyncEndRound
    PROVE  IInv'
  <1>0. /\ UNCHANGED <<settings, sharedVars, work, fileVars>>
        /\ work = << >> /\ spare' = TRUE /\ now' = 0 /\ spc' = "check"
    BY DEF SyncEndRound
  <1>1. Accounts(Trail, appended, lost)'
    BY <1>0, NoMessageMoves DEF fileVars
  <1>2. TypeOK'
    BY <1>0 DEF IInv, TypeOK, settings, sharedVars, fileVars
  <1>3. Rounds'
    BY <1>0 DEF IInv, Rounds, sharedVars
  <1>4. Archived'
    BY <1>0 DEF IInv, TypeOK, Archived, settings, fileVars
  <1> QED
    BY <1>1, <1>2, <1>3, <1>4 DEF IInv

(* The swap: the trail is divided between the buffers in another way.      *)
LEMMA SyncSwapPreserves ==
    ASSUME IInv, SyncSwap
    PROVE  IInv'
  <1> PICK w, B, c : w = written /\ B = FlattenSeq(buffers) /\ c = cacheBuffer
    OBVIOUS
  <1>0. TypeOK /\ Rounds /\ Accounts(Trail, appended, lost) /\ Archived
    BY DEF IInv
  <1>1. /\ work = << >> /\ spare
    BY <1>0 DEF SyncSwap, Rounds
  <1>2. /\ work' = Append(buffers, c) /\ buffers' = << >> /\ cacheBuffer' = << >>
        /\ spc' = "swapped"
        /\ UNCHANGED <<settings, appended, now, fileVars>>
    BY <1>1 DEF SyncSwap
  <1>3. /\ w \in Seq(Message) /\ B \in Seq(Message) /\ c \in Seq(Message)
        /\ buffers \in Seq(Seq(Message))
        /\ Trail = Cat(Cat(Cat(w, FlattenSeq(work)), B), c)
    BY <1>0, TrailParts DEF TypeOK
  <1>4. /\ FlattenSeq(work)' = Cat(B, c) /\ work' \in Seq(Seq(Message))
        /\ FlattenSeq(buffers)' = << >> /\ buffers' \in Seq(Seq(Message))
    <2>1. FlattenSeq(Append(buffers, c)) = Cat(B, c)
      BY <1>3, FlattenAppend DEF Cat
    <2>2. Append(buffers, c) \in Seq(Seq(Message)) /\ << >> \in Seq(Seq(Message))
      BY <1>3, AppendProperties
    <2> QED
      BY <1>2, <2>1, <2>2, FlattenEmpty
  <1>5. Trail' = Trail
    <2>1. FlattenSeq(work) = << >> /\ << >> \in Seq(Message)
      BY <1>1, FlattenEmpty
    <2>2. Trail = Cat(Cat(w, B), c)
      BY <1>3, <2>1, CatEmpty
    <2>3. Trail' = Cat(Cat(Cat(w, Cat(B, c)), << >>), << >>)
      <3>1. written' = w
        BY <1>2 DEF fileVars
      <3> QED
        BY <1>2, <1>4, <3>1 DEF Trail, Cat
    <2>4. Cat(w, Cat(B, c)) \in Seq(Message) /\ Cat(w, Cat(B, c)) = Cat(Cat(w, B), c)
      BY <1>3, CatType, CatAssoc
    <2>5. Trail' = Cat(w, Cat(B, c))
      BY <2>3, <2>4, CatEmpty
    <2> QED
      BY <2>2, <2>4, <2>5
  <1>6. TypeOK'
    <2>1. << >> \in Seq(Message)
      BY EmptySeq
    <2> QED
      BY <1>0, <1>2, <1>4, <2>1 DEF TypeOK, settings, fileVars
  <1>7. Rounds'
    <2>1. Ids(Cat(B, c)) = Ids(B) \cup Ids(c)
      BY <1>3, IdsConcat
    <2>2. 0 \notin Ids(B) /\ 0 \notin Ids(c)
      BY <1>0 DEF Rounds
    <2>3. Ids(<< >>) = {}
      BY IdsEmpty
    <2> QED
      BY <1>2, <1>4, <2>1, <2>2, <2>3 DEF Rounds
  <1>8. Accounts(Trail, appended, lost)'
    BY <1>0, <1>2, <1>5 DEF Accounts, fileVars
  <1>9. Archived'
    BY <1>0, <1>2 DEF Archived, settings, fileVars
  <1> QED
    BY <1>6, <1>7, <1>8, <1>9 DEF IInv

(* How SyncStartFile cuts too many buffers.                                *)
LEMMA HalfIsDropped ==
    ASSUME TypeOK, SyncStartFile, Len(work) > kMaximumOfLogBuffer
    PROVE  \E kept, dropped \in Seq(Message) :
              /\ FlattenSeq(work) = Cat(kept, dropped)
              /\ FlattenSeq(work') = Cat(kept, <<Warning>>)
              /\ work' \in Seq(Seq(Message))
              /\ lost' = lost \cup Ids(dropped)
  <1> PICK half : half = Len(work) \div 2
    OBVIOUS
  <1> PICK first, second : /\ first = SubSeq(work, 1, half)
                           /\ second = SubSeq(work, half + 1, Len(work))
    OBVIOUS
  <1>1. work \in Seq(Seq(Message))
    BY DEF TypeOK
  <1>2. half \in 0 .. Len(work)
    <2>1. Len(work) \in Nat
      BY <1>1, LenProperties
    <2>2. \A n \in Nat : n \div 2 \in 0 .. n
      OBVIOUS
    <2> QED
      BY <2>1, <2>2
  <1>3. /\ first \in Seq(Seq(Message)) /\ second \in Seq(Seq(Message))
        /\ FlattenSeq(work) = Cat(FlattenSeq(first), FlattenSeq(second))
    BY <1>1, <1>2, FlattenSplit DEF Cat
  <1>4. FlattenSeq(first) \in Seq(Message) /\ FlattenSeq(second) \in Seq(Message)
    BY <1>3, FlattenType
  <1>5. <<Warning>> \in Seq(Message) /\ << <<Warning>> >> \in Seq(Seq(Message))
    BY DEF Warning, Message
  <1>6. /\ work' = first \o << <<Warning>> >>
        /\ lost' = lost \cup Ids(FlattenSeq(second))
    BY DEF SyncStartFile
  <1>7. /\ first \o << <<Warning>> >> \in Seq(Seq(Message))
        /\ FlattenSeq(first \o << <<Warning>> >>) = Cat(FlattenSeq(first), <<Warning>>)
    <2>1. FlattenSeq(<< <<Warning>> >>) = <<Warning>>
      BY <1>5, FlattenOne
    <2>2. FlattenSeq(first \o << <<Warning>> >>) = FlattenSeq(first) \o FlattenSeq(<< <<Warning>> >>)
      BY <1>3, <1>5, FlattenConcat
    <2>3. first \o << <<Warning>> >> \in Seq(Seq(Message))
      BY <1>3, <1>5, ConcatProperties
    <2> QED
      BY <2>1, <2>2, <2>3 DEF Cat
  <1> QED
    BY <1>3, <1>4, <1>6, <1>7

LEMMA WarningIds ==
    <<Warning>> \in Seq(Message) /\ Ids(<<Warning>>) = {0}
  <1>1. Warning \in Message /\ Warning.id = 0
    BY DEF Warning, Message
  <1> QED
    BY <1>1, IdsOne

LEMMA SyncStartFilePreserves ==
    ASSUME IInv, SyncStartFile
    PROVE  IInv'
  <1>0. TypeOK /\ Rounds /\ Accounts(Trail, appended, lost) /\ Archived
    BY DEF IInv
  <1>1. /\ now' = time /\ spc' = "file"
        /\ UNCHANGED <<settings, sharedVars, spare, backupSpare, file, bytes, archive,
                       lastRollTime, written>>
    BY DEF SyncStartFile
  <1>2. /\ work' \in Seq(Seq(Message))
        /\ Accounts(Trail, appended, lost)'
    <2>1. CASE Len(work) > kMaximumOfLogBuffer
      <3>1. PICK kept \in Seq(Message), dropped \in Seq(Message) :
                    /\ FlattenSeq(work) = Cat(kept, dropped)
                    /\ FlattenSeq(work') = Cat(kept, <<Warning>>)
                    /\ work' \in Seq(Seq(Message))
                    /\ lost' = lost \cup Ids(dropped)
        BY <1>0, <2>1, HalfIsDropped
      <3> PICK w, B, c : w = written /\ B = FlattenSeq(buffers) /\ c = cacheBuffer
        OBVIOUS
      <3>2. /\ w \in Seq(Message) /\ B \in Seq(Message) /\ c \in Seq(Message)
            /\ appended \in Seq(Message)
            /\ Trail = Cat(Cat(Cat(w, Cat(kept, dropped)), B), c)
        BY <1>0, <3>1, TrailParts DEF TypeOK
      <3>3. Trail' = Cat(Cat(Cat(w, Cat(kept, <<Warning>>)), B), c)
        BY <1>1, <3>1 DEF Trail, Cat, sharedVars
      <3>4. <<Warning>> \in Seq(Message) /\ Ids(<<Warning>>) = {0}
        BY WarningIds
      <3>5. /\ Trail = Cat(Cat(Cat(w, kept), dropped), Cat(B, c))
            /\ Trail' = Cat(Cat(Cat(w, kept), <<Warning>>), Cat(B, c))
        <4>1. w \in Seq(Message) /\ B \in Seq(Message) /\ c \in Seq(Message)
          BY <3>2
        <4>2. \A x \in Seq(Message) : Cat(Cat(Cat(w, Cat(kept, x)), B), c)
                                        = Cat(Cat(Cat(w, kept), x), Cat(B, c))
          BY <4>1, Regroup
        <4> QED
          BY <3>2, <3>3, <3>4, <4>2, Zenon
      <3>6. Cat(w, kept) \in Seq(Message) /\ Cat(B, c) \in Seq(Message)
        BY <3>2, CatType
      <3>7. Accounts(Cat(Cat(Cat(w, kept), <<Warning>>), Cat(B, c)), appended, lost \cup Ids(dropped))
        BY <1>0, <3>2, <3>4, <3>5, <3>6, DropMiddle
      <3>8. Accounts(Trail', appended', lost')
        BY <1>1, <3>1, <3>5, <3>7 DEF sharedVars
      <3> QED
        BY <3>1, <3>8
    <2>2. CASE ~ (Len(work) > kMaximumOfLogBuffer)
      <3>1. UNCHANGED <<work, lost>>
        BY <2>2 DEF SyncStartFile
      <3>2. Accounts(Trail, appended, lost)'
        BY <1>1, <3>1, NoMessageMoves
      <3>3. work \in Seq(Seq(Message))
        BY <1>0 DEF TypeOK
      <3> QED
        BY <3>1, <3>2, <3>3
    <2> QED
      BY <2>1, <2>2
  <1>3. TypeOK'
    BY <1>0, <1>1, <1>2 DEF TypeOK, settings, sharedVars
  <1>4. Rounds'
    BY <1>0, <1>1 DEF Rounds, sharedVars
  <1>5. Archived'
    BY <1>0, <1>1 DEF Archived, TypeOK, settings
  <1> QED
    BY <1>2, <1>3, <1>4, <1>5 DEF IInv

(* Part of the first buffer reaches the file and the rest of it is lost.   *)
LEMMA SyncWritePreserves ==
    ASSUME IInv, SyncWrite
    PROVE  IInv'
  <1>0. TypeOK /\ Rounds /\ Accounts(Trail, appended, lost) /\ Archived
    BY DEF IInv
  <1>1. /\ spc = "file" /\ work # << >> /\ work' = Tail(work)
        /\ UNCHANGED <<settings, sharedVars, spc, spare, backupSpare, now>>
    BY DEF SyncWrite
  <1> PICK h, rolls : h = Head(work) /\ rolls = Rolls(Head(work))
    OBVIOUS
  <1>2. PICK taken \in 0 .. Len(h) :
              /\ file' = (IF rolls THEN << >> ELSE file) \o SubSeq(h, 1, taken)
              /\ written' = written \o SubSeq(h, 1, taken)
              /\ lost' = lost \cup Ids(SubSeq(h, taken + 1, Len(h)))
              /\ archive' = IF rolls THEN Renamed(archive, now, file) ELSE archive
              /\ lastRollTime' = IF rolls THEN now ELSE lastRollTime
    BY DEF SyncWrite
  <1>p. PICK part, rest, R : /\ part = SubSeq(h, 1, taken) /\ rest = SubSeq(h, taken + 1, Len(h))
                             /\ R = FlattenSeq(Tail(work))
    OBVIOUS
  <1>3. /\ h \in Seq(Message) /\ Tail(work) \in Seq(Seq(Message)) /\ R \in Seq(Message)
        /\ FlattenSeq(work) = Cat(h, R)
    <2>1. work \in Seq(Seq(Message))
      BY <1>0 DEF TypeOK
    <2>2. /\ h \in Seq(Message) /\ Tail(work) \in Seq(Seq(Message))
          /\ FlattenSeq(work) = Cat(h, R)
      BY <1>p, <1>1, <2>1, FlattenHead DEF Cat
    <2> QED
      BY <1>p, <2>2, FlattenType
  <1>4. part \in Seq(Message) /\ rest \in Seq(Message) /\ h = Cat(part, rest)
    BY <1>p, <1>3, CutInTwo DEF Cat
  <1>5. /\ written \in Seq(Message) /\ file \in Seq(Message)
        /\ now \in Nat /\ time \in Nat /\ lastRollTime \in Nat /\ now <= time /\ lastRollTime <= now
        /\ archive \in [DOMAIN archive -> Seq(Message)] /\ DOMAIN archive \subseteq 0 .. lastRollTime
    BY <1>0, <1>1 DEF TypeOK, Archived
  <1>6. written' = Cat(written, part) /\ file' = Cat(IF rolls THEN << >> ELSE file, part)
    BY <1>p, <1>2 DEF Cat
  <1>7. /\ written' \in Seq(Message) /\ file' \in Seq(Message)
        /\ archive' \in [DOMAIN archive' -> Seq(Message)]
        /\ DOMAIN archive' \subseteq 0 .. lastRollTime'
        /\ lastRollTime' \in Nat /\ lastRollTime' <= now
    <2>1. written' \in Seq(Message)
      BY <1>4, <1>5, <1>6, CatType
    <2>2. CASE rolls
      <3>1. file' = Cat(<< >>, part) /\ lastRollTime' = now /\ archive' = Renamed(archive, now, file)
        BY <1>2, <1>6, <2>2
      <3>2. file' \in Seq(Message)
        BY <1>4, <3>1, CatEmpty
      <3>3. archive' = [t \in DOMAIN archive \cup {now} |-> IF t = now THEN file ELSE archive[t]]
        BY <3>1 DEF Renamed
      <3>4. archive' \in [DOMAIN archive' -> Seq(Message)] /\ DOMAIN archive' = DOMAIN archive \cup {now}
        BY <1>5, <3>3
      <3> QED
        BY <1>5, <2>1, <3>1, <3>2, <3>4
    <2>3. CASE ~ rolls
      <3>1. file' = Cat(file, part) /\ lastRollTime' = lastRollTime /\ archive' = archive
        BY <1>2, <1>6, <2>3
      <3>2. file' \in Seq(Message)
        BY <1>4, <1>5, <3>1, CatType
      <3> QED
        BY <1>5, <2>1, <3>1, <3>2
    <2> QED
      BY <2>2, <2>3
  <1>8. TypeOK'
    BY <1>0, <1>1, <1>3, <1>7 DEF TypeOK, settings, sharedVars
  <1>9. Rounds'
    BY <1>0, <1>1 DEF Rounds, sharedVars
  <1>10. Accounts(Trail, appended, lost)'
    <2>w. PICK w, B, c : w = written /\ B = FlattenSeq(buffers) /\ c = cacheBuffer
      OBVIOUS
    <2>1. /\ w \in Seq(Message) /\ B \in Seq(Message) /\ c \in Seq(Message)
          /\ appended \in Seq(Message) /\ << >> \in Seq(Message) /\ Ids(<< >>) \subseteq {0}
          /\ Trail = Cat(Cat(Cat(w, Cat(Cat(part, rest), R)), B), c)
      <3>1. /\ w \in Seq(Message) /\ B \in Seq(Message) /\ c \in Seq(Message)
            /\ appended \in Seq(Message)
            /\ Trail = Cat(Cat(Cat(w, FlattenSeq(work)), B), c)
        BY <2>w, <1>0, TrailParts DEF TypeOK
      <3>2. << >> \in Seq(Message) /\ Ids(<< >>) \subseteq {0}
        BY IdsEmpty
      <3>3. FlattenSeq(work) = Cat(Cat(part, rest), R)
        BY <1>3, <1>4
      <3> QED
        BY <3>1, <3>2, <3>3, Zenon
    <2>2. Trail' = Cat(Cat(Cat(Cat(w, part), R), B), c)
      BY <1>p, <2>w, <1>1, <1>6 DEF Trail, Cat, sharedVars
    <2>3. /\ Cat(w, part) \in Seq(Message) /\ Cat(B, c) \in Seq(Message)
          /\ Cat(R, Cat(B, c)) \in Seq(Message)
      BY <1>3, <1>4, <2>1, CatType
    <2>4. Trail = Cat(Cat(Cat(w, part), rest), Cat(R, Cat(B, c)))
      <3>1. /\ w \in Seq(Message) /\ part \in Seq(Message) /\ rest \in Seq(Message)
            /\ R \in Seq(Message) /\ B \in Seq(Message) /\ c \in Seq(Message)
        BY <1>3, <1>4, <2>1
      <3>2. Cat(Cat(Cat(w, Cat(Cat(part, rest), R)), B), c)
              = Cat(Cat(Cat(w, part), rest), Cat(R, Cat(B, c)))
        BY <3>1, RegroupMore
      <3> QED
        BY <2>1, <3>2, Zenon
    <2>5. Trail' = Cat(Cat(Cat(w, part), << >>), Cat(R, Cat(B, c)))
      <3>1. Cat(Cat(w, part), << >>) = Cat(w, part)
        BY <2>3, CatEmpty
      <3>2. \A x, y, z, u \in Seq(Message) : Cat(Cat(Cat(x, y), z), u) = Cat(x, Cat(y, Cat(z, u)))
        BY CatType, CatAssoc
      <3>3. R \in Seq(Message) /\ B \in Seq(Message) /\ c \in Seq(Message)
        BY <1>3, <2>1
      <3>4. Cat(Cat(Cat(Cat(w, part), R), B), c) = Cat(Cat(w, part), Cat(R, Cat(B, c)))
        BY <2>3, <3>2, <3>3
      <3> QED
        BY <2>2, <3>1, <3>4, Zenon
    <2>6. Accounts(Cat(Cat(Cat(w, part), << >>), Cat(R, Cat(B, c))), appended, lost \cup Ids(rest))
      <3> PICK a \in Seq(Message), d \in Seq(Message) : a = Cat(w, part) /\ d = Cat(R, Cat(B, c))
        BY <2>3
      <3>1. Accounts(Cat(Cat(a, rest), d), appended, lost)
        BY <1>0, <2>4, Zenon
      <3>2. /\ rest \in Seq(Message) /\ << >> \in Seq(Message) /\ appended \in Seq(Message)
            /\ Ids(<< >>) \subseteq {0}
        BY <1>4, <2>1, Zenon
      <3>3. Accounts(Cat(Cat(a, << >>), d), appended, lost \cup Ids(rest))
        BY <3>1, <3>2, DropMiddle, Zenon
      <3> QED
        BY <3>3, Zenon
    <2>7. appended' = appended /\ lost' = lost \cup Ids(rest)
      BY <1>p, <1>1, <1>2 DEF sharedVars
    <2>8. Accounts(Trail', appended', lost')
      BY <2>5, <2>6, <2>7
    <2> QED
      BY <2>8
  <1>11. Archived'
    <2>1. logFileType # "ROLLING_FILE" => Rolled(archive', time + 1) \o file' = written'
      <3> SUFFICES ASSUME logFileType # "ROLLING_FILE"
                   PROVE  Cat(Rolled(archive', time + 1), file') = Cat(written, part)
        BY <1>6 DEF Cat
      <3>1. Cat(Rolled(archive, time + 1), file) = written
        BY <1>0 DEF Archived, Cat
      <3>2. time + 1 \in Nat /\ time + 1 > now /\ Rolled(archive, time + 1) \in Seq(Message)
        <4>1. time + 1 \in Nat /\ time + 1 > now
          BY <1>5
        <4>2. Rolled(archive, time + 1) \in Seq(Message)
          BY <1>5, <4>1, RolledType, Zenon
        <4> QED
          BY <4>1, <4>2
      <3>3. CASE rolls
        <4>1. lastRollTime < now
          <5>1. kSecondsPerDay \in Nat
            BY FileLogAppenderAssumption
          <5>2. kSecondsPerDay < now - lastRollTime
            BY <3>3 DEF Rolls
          <5> QED
            BY <1>5, <5>1, <5>2
        <4>2. DOMAIN archive \subseteq 0 .. now - 1
          BY <1>5, <4>1
        <4>3. archive' = Renamed(archive, now, file)
          BY <1>2, <3>3
        <4>4. Rolled(archive', time + 1) = Cat(Rolled(archive, time + 1), file)
          <5>1. /\ now \in Nat /\ file \in Seq(Message) /\ DOMAIN archive \subseteq 0 .. now - 1
                /\ archive \in [DOMAIN archive -> Seq(Message)]
            BY <1>5, <4>2
          <5>2. Rolled(Renamed(archive, now, file), time + 1) = Cat(Rolled(archive, time + 1), file)
            BY <3>2, <5>1, RollLatest
          <5> QED
            BY <4>3, <5>2, Zenon
        <4>5. file' = part
          BY <1>4, <1>6, <3>3, CatEmpty
        <4> QED
          BY <3>1, <4>4, <4>5
      <3>4. CASE ~ rolls
        <4>1. archive' = archive /\ file' = Cat(file, part)
          BY <1>2, <1>6, <3>4
        <4>2. Cat(Rolled(archive, time + 1), Cat(file, part)) = Cat(Cat(Rolled(archive, time + 1), file), part)
          <5> PICK x \in Seq(Message) : x = Rolled(archive, time + 1)
            BY <3>2
          <5>1. part \in Seq(Message) /\ file \in Seq(Message)
            BY <1>4, <1>5
          <5> QED
            BY <5>1, CatAssoc
        <4> QED
          BY <3>1, <4>1, <4>2
      <3> QED
        BY <3>3, <3>4
    <2>2. UNCHANGED <<logFileType, time, spc, now>>
      BY <1>1 DEF settings
    <2>3. lastRollTime' <= time
      BY <1>5, <1>7
    <2> QED
      BY <1>5, <1>7, <2>1, <2>2, <2>3 DEF Archived
  <1> QED
    BY <1>8, <1>9, <1>10, <1>11 DEF IInv

-----------------------------------------------------------------------------
LEMMA StepPreserves ==
    ASSUME IInv, [Next]_vars
    PROVE  IInv'
  <1>1. CASE \E len \in Lengths : append(len)
    BY <1>1, AppendPreserves
  <1>2. CASE \/ \E size \in RollingSizes : setLogFileRollingSize(size)
             \/ Destroy
    BY <1>2, SettingPreserves
  <1>3. CASE Tick
    BY <1>3, TickPreserves
  <1>4. CASE SyncCondition \/ SyncTimeout
    BY <1>4, SyncIdlePreserves
  <1>5. CASE SyncSwap
    BY <1>5, SyncSwapPreserves
  <1>6. CASE SyncStartFile
    BY <1>6, SyncStartFilePreserves
  <1>7. CASE SyncWrite
    BY <1>7, SyncWritePreserves
  <1>8. CASE SyncEndRound
    BY <1>8, SyncEndRoundPreserves
  <1>9. CASE UNCHANGED vars
    <2>1. UNCHANGED <<logFileType, cacheBuffer, backupCacheBuffer, buffers, spc, spare, work, now,
                      file, archive, lastRollTime, time, appended, written, lost>>
      BY <1>9 DEF vars
    <2>2. Accounts(Trail, appended, lost)'
      BY <2>1, NoMessageMoves DEF sharedVars
    <2>3. TypeOK'
      BY <2>1 DEF IInv, TypeOK
    <2>4. Rounds'
      BY <2>1 DEF IInv, Rounds
    <2>5. Archived'
      BY <2>1 DEF IInv, Archived
    <2> QED
      BY <2>2, <2>3, <2>4, <2>5 DEF IInv
  <1> QED
    BY <1>1, <1>2, <1>3, <1>4, <1>5, <1>6, <1>7, <1>8, <1>9 DEF Next, SyncStep

(* The inductive invariant of FileLogAppender: what sync() and append()    *)
(* know of the buffers at each of their steps.                             *)
THEOREM Invariance ==
    Spec => []IInv
  <1>1. Init => IInv
    BY InitIInv
  <1>2. IInv /\ [Next]_vars => IInv'
    BY StepPreserves
  <1> QED
    BY <1>1, <1>2, PTL DEF Spec

(* LogAccounted for every number of messages: append() always finds a      *)
(* cacheBuffer_, and the exchange of buffers between append() and sync()   *)
(* loses, repeats and reorders no message.                                 *)
THEOREM MessagesAccounted ==
    Spec => []LogAccounted
  <1>1. IInv => LogAccounted
    <2> SUFFICES ASSUME IInv
                 PROVE  LogAccounted
      OBVIOUS
    <2>1. cacheBuffer # Null
      <3>1. cacheBuffer \in Seq([id : Nat, length : Nat])
        BY DEF IInv, TypeOK, Message
      <3>2. Null \notin Seq([id : Nat, length : Nat])
        BY FileLogAppenderAssumption, Zenon
      <3> QED
        BY <3>1, <3>2
    <2>2. Accounts(Trail, appended, lost)
      BY DEF IInv
    <2> QED
      BY <2>1, <2>2, Zenon DEF LogAccounted, Accounts, Rising, Known
  <1> QED
    BY <1>1, Invariance, PTL

(* NoArchiveLost for every clock and every day: the rolled files and the   *)
(* open one hold what was written, as long as files are not rolled by      *)
(* size.                                                                   *)
THEOREM ArchiveKept ==
    Spec => []NoArchiveLost
  <1>1. IInv => NoArchiveLost
    BY DEF IInv, Archived, NoArchiveLost, Rolled, RolledFile
  <1> QED
    BY <1>1, Invariance, PTL

(* OldestIsKept: sync() drops buffers only when there are more than        *)
(* kMaximumOfLogBuffer, and every message it keeps is older than every     *)
(* message it drops.                                                       *)
THEOREM OldestKept ==
    Spec => OldestIsKept
  <1>1. ASSUME IInv, Next, lost' # lost, spc = "swapped"
        PROVE  /\ Len(work) > kMaximumOfLogBuffer
               /\ \A id \in lost' \ lost : \A kept \in Ids(FlattenSeq(work')) : kept < id
    <2>0. TypeOK /\ Rounds /\ Accounts(Trail, appended, lost)
      BY <1>1 DEF IInv
    <2>1. SyncStartFile
      BY <1>1 DEF Next, SyncStep, append, AppendIf, setLogFileRollingSize, Destroy, Tick,
                  SyncCondition, SyncTimeout, SyncSwap, SyncWrite, SyncEndRound, fileVars
    <2>2. Len(work) > kMaximumOfLogBuffer
      BY <1>1, <2>1 DEF SyncStartFile
    <2>3. PICK kept \in Seq(Message), dropped \in Seq(Message) :
                  /\ FlattenSeq(work) = Cat(kept, dropped)
                  /\ FlattenSeq(work') = Cat(kept, <<Warning>>)
                  /\ work' \in Seq(Seq(Message))
                  /\ lost' = lost \cup Ids(dropped)
      BY <2>0, <2>1, <2>2, HalfIsDropped
    <2>4. <<Warning>> \in Seq(Message) /\ Ids(<<Warning>>) = {0}
      BY WarningIds
    <2>5. /\ Ids(FlattenSeq(work')) = Ids(kept) \cup {0}
          /\ Ids(FlattenSeq(work)) = Ids(kept) \cup Ids(dropped)
          /\ Ids(dropped) \subseteq Nat
      BY <2>3, <2>4, IdsConcat, IdsType
    <2>6. 0 \notin Ids(dropped)
      BY <1>1, <2>0, <2>5 DEF Rounds
    <2>7. Before(kept, dropped)
      <3> PICK w, B, c : w = written /\ B = FlattenSeq(buffers) /\ c = cacheBuffer
        OBVIOUS
      <3>1. /\ w \in Seq(Message) /\ B \in Seq(Message) /\ c \in Seq(Message)
            /\ Trail = Cat(Cat(Cat(w, Cat(kept, dropped)), B), c)
        BY <2>0, <2>3, TrailParts DEF TypeOK
      <3>2. Rising(Cat(Cat(Cat(w, Cat(kept, dropped)), B), c))
        BY <2>0, <3>1 DEF Accounts
      <3>3. /\ Cat(kept, dropped) \in Seq(Message) /\ Cat(w, Cat(kept, dropped)) \in Seq(Message)
            /\ Cat(Cat(w, Cat(kept, dropped)), B) \in Seq(Message)
        BY <3>1, CatType
      <3>4. Rising(Cat(Cat(w, Cat(kept, dropped)), B))
        BY <3>1, <3>2, <3>3, RisingConcat
      <3>5. Rising(Cat(w, Cat(kept, dropped)))
        BY <3>1, <3>3, <3>4, RisingConcat
      <3>6. Rising(Cat(kept, dropped))
        BY <3>1, <3>3, <3>5, RisingConcat
      <3> QED
        BY <3>6, RisingConcat
    <2>8. ASSUME NEW id \in lost' \ lost, NEW k \in Ids(FlattenSeq(work'))
          PROVE  k < id
      <3>1. id \in Ids(dropped) /\ id \in Nat /\ id # 0
        BY <2>3, <2>5, <2>6
      <3>2. CASE k \in Ids(kept)
        BY <2>7, <3>1, <3>2 DEF Before
      <3>3. CASE k = 0
        BY <3>1, <3>3
      <3> QED
        BY <2>5, <3>2, <3>3
    <2> QED
      BY <2>2, <2>8
  <1>2. IInv /\ [Next]_vars =>
            [lost' # lost /\ spc = "swapped" =>
                /\ Len(work) > kMaximumOfLogBuffer
                /\ \A id \in lost' \ lost : \A kept \in Ids(FlattenSeq(work')) : kept < id]_vars
    BY <1>1
  <1> QED
    BY <1>2, Invariance, PTL DEF Spec, OldestIsKept
=============================================================================
