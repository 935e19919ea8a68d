--------------------------- MODULE FileLogAppender --------------------------
(***************************************************************************)
(* nets::FileLogAppender and its LogFile: any thread appends messages to   *)
(* cacheBuffer_, the thread syncTask_ takes the buffers away and writes    *)
(* them to a file that it rolls by day or by size.                         *)
(*                                                                         *)
(* A message is a number in the order of append() and a length; a buffer   *)
(* is the sequence of its messages.  append() and the first part of a      *)
(* round of sync() hold mutex_ and are one step each.  The condition       *)
(* variable needs no state: wait_for() may return at any time, by notify,  *)
(* by timeout or by itself.                                                *)
(***************************************************************************)
EXTENDS Naturals, Sequences, SequencesExt

CONSTANTS Lengths,              \* lengths of formatted messages
          kLogBufferPieceSize,  \* capacity of a buffer
          kMaximumOfLogBuffer,
          Kilobyte, RollingSizes, kDefaultLogFileRollingSize,
          kSecondsPerDay,
          LogFileTypes,         \* the type is fixed when the appender is made
          FoundSizes,           \* of a file that is there already
          Null,                 \* an empty BufferPtr
          MaxMessages, MaxTime  \* bounds

ASSUME FileLogAppenderAssumption ==
    /\ kLogBufferPieceSize \in Nat
    /\ Lengths \subseteq 1 .. kLogBufferPieceSize - 1
    /\ kMaximumOfLogBuffer \in Nat \ {0}
    /\ Kilobyte \in Nat \ {0}
    /\ RollingSizes \subseteq Nat
    /\ kDefaultLogFileRollingSize \in RollingSizes
    /\ kSecondsPerDay \in Nat
    /\ LogFileTypes \subseteq {"SINGLE_FILE", "DAILY_FILE", "ROLLING_FILE"}
    /\ FoundSizes \subseteq Nat
    /\ MaxMessages \in Nat /\ MaxTime \in Nat
    /\ Null \notin Seq([id : Nat, length : Nat])

VARIABLES logFileType, logFileRollingSize,
          running,              \* running_
          cacheBuffer,          \* cacheBuffer_
          backupCacheBuffer,    \* backupCacheBuffer_ is there (always empty)
          buffers,              \* buffers_
          spc,                  \* of syncTask_
          spare, backupSpare,   \* cacheBuffer and backupCacheBuffer of sync()
          work, now,            \* buffers of sync(), now of syncFile()
          file, bytes,          \* what was put into the open file, bytes_
          archive,              \* rolled files: second of the name -> contents
          lastRollTime,
          time,                 \* ::time()
          appended,             \* history: every message, in order
          written,              \* history: what was written to files, in order
          lost                  \* history: messages dropped or not writable

vars == <<logFileType, logFileRollingSize, running, cacheBuffer, backupCacheBuffer, buffers,
          spc, spare, backupSpare, work, now, file, bytes, archive, lastRollTime, time, appended,
          written, lost>>
sharedVars == <<cacheBuffer, backupCacheBuffer, buffers, appended>>
syncVars == <<spare, backupSpare, work, now>>
fileVars == <<file, bytes, archive, lastRollTime, written, lost>>
settings == <<logFileType, logFileRollingSize, running, time>>

length(buffer) == FoldLeft(LAMBDA sum, message : sum + message.length, 0, buffer)
writableBytes(buffer) == kLogBufferPieceSize - length(buffer)

(* StackBuffer::writeBytes(): what does not fit is silently left out.      *)
writeBytes(buffer, message) ==
    IF writableBytes(buffer) > message.length THEN Append(buffer, message) ELSE buffer

(* "Dropped %ld log buffers"                                               *)
Warning == [id |-> 0, length |-> 1]

Init == /\ logFileType \in LogFileTypes
        /\ logFileRollingSize = kDefaultLogFileRollingSize
        /\ running = TRUE
        /\ cacheBuffer = << >>
        /\ backupCacheBuffer = TRUE
        /\ buffers = << >>
        /\ spc = "check"
        /\ spare = TRUE
        /\ backupSpare = TRUE
        /\ work = << >>
        /\ now = 0
        /\ file = << >>
        /\ archive = << >>
        /\ lastRollTime = 0
        /\ \/ time = 0 /\ bytes = 0                               \* a new file
           \/ time = kSecondsPerDay + 1 /\ bytes \in FoundSizes  \* one found there
        /\ appended = << >>
        /\ written = << >>
        /\ lost = {}

-----------------------------------------------------------------------------
(* The threads that log.                                                   *)

(* append() of a message that is thought to fit into cacheBuffer_ or not.  *)
AppendIf(fits, message) ==
    /\ running
    /\ Len(appended) < MaxMessages
    /\ appended' = Append(appended, message)
    /\ IF fits
         THEN /\ cacheBuffer' = writeBytes(cacheBuffer, message)
              /\ UNCHANGED <<buffers, backupCacheBuffer>>
         ELSE /\ buffers' = Append(buffers, cacheBuffer)
              /\ cacheBuffer' = writeBytes(<< >>, message)
              /\ backupCacheBuffer' = FALSE
    /\ UNCHANGED <<settings, spc, syncVars, fileVars>>

NewMessage(len) == [id |-> Len(appended) + 1, length |-> len]

(* A plausible mistake: a buffer is thought to take its last byte.         *)
appendLastByte(len) == AppendIf(writableBytes(cacheBuffer) >= len, NewMessage(len))

(* append().  Nobody may call it once the destructor runs.                 *)
append(len) == AppendIf(writableBytes(cacheBuffer) > len, NewMessage(len))

setLogFileRollingSize(size) ==
    /\ running
    /\ logFileRollingSize' = size
    /\ UNCHANGED <<logFileType, running, time, sharedVars, spc, syncVars, fileVars>>

(* The destructor, up to join().                                           *)
Destroy == /\ running
           /\ running' = FALSE
           /\ UNCHANGED <<logFileType, logFileRollingSize, time, sharedVars, spc, syncVars,
                          fileVars>>

Tick == /\ time < MaxTime
        /\ time' = time + 1
        /\ UNCHANGED <<logFileType, logFileRollingSize, running, sharedVars, spc, syncVars,
                       fileVars>>

-----------------------------------------------------------------------------
(* sync()                                                                  *)

(* while (running_)                                                        *)
SyncCondition == /\ spc = "check"
                 /\ spc' = IF running THEN "wait" ELSE "ended"
                 /\ UNCHANGED <<settings, sharedVars, syncVars, fileVars>>

(* A plausible mistake: only full buffers are waited for.                  *)
HasDataFull == buffers # << >>

HasData == buffers # << >> \/ length(cacheBuffer) > 0

(* wait_for() has timed out on nothing.                                    *)
SyncTimeout == /\ spc = "wait"
               /\ ~ HasData
               /\ spc' = "check"
               /\ UNCHANGED <<settings, sharedVars, syncVars, fileVars>>

(* The swap under mutex_.  (The test for backupCacheBuffer_ replaces a     *)
(* backup buffer that is there, not one that has been used.)               *)
SyncSwap ==
    /\ spc = "wait"
    /\ HasData
    /\ work' = Append(buffers, cacheBuffer)
    /\ buffers' = << >>
    /\ cacheBuffer' = IF spare THEN << >> ELSE Null
    /\ spare' = FALSE
    /\ IF backupCacheBuffer
         THEN backupCacheBuffer' = backupSpare /\ backupSpare' = FALSE
         ELSE UNCHANGED <<backupCacheBuffer, backupSpare>>
    /\ spc' = "swapped"
    /\ UNCHANGED <<settings, appended, now, fileVars>>

Ids(messages) == {messages[i].id : i \in 1 .. Len(messages)}

(* A plausible mistake: the first half is dropped.                         *)
SyncStartFileDropsFirst ==
    /\ spc = "swapped"
    /\ IF Len(work) > kMaximumOfLogBuffer
         THEN LET half == Len(work) \div 2
              IN /\ work' = SubSeq(work, half + 1, Len(work)) \o << <<Warning>> >>
                 /\ lost' = lost \cup Ids(FlattenSeq(SubSeq(work, 1, half)))
         ELSE UNCHANGED <<work, lost>>
    /\ now' = time
    /\ spc' = "file"
    /\ UNCHANGED <<settings, sharedVars, spare, backupSpare, file, bytes, archive,
                   lastRollTime, written>>

(* Too many buffers: the second half is dropped.  Then syncFile() reads    *)
(* the clock, once for all buffers.                                        *)
SyncStartFile ==
    /\ spc = "swapped"
    /\ IF Len(work) > kMaximumOfLogBuffer
         THEN LET half == Len(work) \div 2
              IN /\ work' = SubSeq(work, 1, half) \o << <<Warning>> >>
                 /\ lost' = lost \cup Ids(FlattenSeq(SubSeq(work, half + 1, Len(work))))
         ELSE UNCHANGED <<work, lost>>
    /\ now' = time
    /\ spc' = "file"
    /\ UNCHANGED <<settings, sharedVars, spare, backupSpare, file, bytes, archive,
                   lastRollTime, written>>

(* A plausible mistake: a daily file is rolled after as well as before.    *)
RollsTooSoon(buffer) ==
    logFileType = "DAILY_FILE" /\ kSecondsPerDay >= now - lastRollTime

(* The tests of syncDailyFile() and syncRollingFile().                     *)
Rolls(buffer) ==
    \/ logFileType = "DAILY_FILE" /\ kSecondsPerDay < now - lastRollTime
    \/ /\ logFileType = "ROLLING_FILE"
       /\ (bytes + length(buffer)) \div Kilobyte >= logFileRollingSize

(* renameByNowTime(): contents under the name of second s, in place of a   *)
(* file that already has it.                                               *)
Renamed(files, s, contents) ==
    [t \in DOMAIN files \cup {s} |-> IF t = s THEN contents ELSE files[t]]

(* One buffer of syncFile(); rename() and fopen() are taken to succeed.  A *)
(* failing fwrite keeps what it has written, but LogFile::write() does not *)
(* count it.                                                               *)
SyncWrite ==
    /\ spc = "file"
    /\ work # << >>
    /\ LET buffer == Head(work)
           rolls == Rolls(buffer)
       IN \E taken \in 0 .. Len(buffer) :
              /\ file' = (IF rolls THEN << >> ELSE file) \o SubSeq(buffer, 1, taken)
              /\ bytes' = (IF rolls THEN 0 ELSE bytes)
                            + (IF taken = Len(buffer) THEN length(buffer) ELSE 0)
              /\ written' = written \o SubSeq(buffer, 1, taken)
              /\ lost' = lost \cup Ids(SubSeq(buffer, taken + 1, Len(buffer)))
              /\ archive' = IF rolls THEN Renamed(archive, now, file) ELSE archive
              /\ lastRollTime' = IF rolls THEN now ELSE lastRollTime
    /\ work' = Tail(work)
    /\ UNCHANGED <<settings, sharedVars, spc, spare, backupSpare, now>>

SyncEndRound ==
    /\ spc = "file"
    /\ work = << >>
    /\ spare' = TRUE
    /\ backupSpare' = TRUE
    /\ now' = 0
    /\ spc' = "check"
    /\ UNCHANGED <<settings, sharedVars, work, fileVars>>

SyncStep == \/ SyncCondition \/ SyncTimeout \/ SyncSwap \/ SyncStartFile \/ SyncWrite
            \/ SyncEndRound

-----------------------------------------------------------------------------
Next == \/ \E len \in Lengths : append(len)
        \/ \E size \in RollingSizes : setLogFileRollingSize(size)
        \/ Destroy
        \/ Tick
        \/ SyncStep

Spec == Init /\ [][Next]_vars

(* syncTask_ is scheduled, and its wait_for() returns within a second.     *)
FairSpec == Spec /\ WF_vars(SyncStep)

-----------------------------------------------------------------------------
IsMessage(message) == message.id # 0

(* What was written, and behind it what the buffers hold.                  *)
Trail == written \o FlattenSeq(work) \o FlattenSeq(buffers) \o cacheBuffer

(* append() always finds a cacheBuffer_, and every message is, in the      *)
(* order of append(), written, on its way in one of the buffers, or among  *)
(* those dropped for a full queue or a failed write: the exchange of the   *)
(* four buffers between two threads loses, repeats and reorders none.      *)
LogAccounted ==
    /\ cacheBuffer # Null
    /\ Ids(Trail) \ {0} = 1 .. Len(appended) \ lost
    /\ \A i \in 1 .. Len(Trail) :
          IsMessage(Trail[i]) =>
              /\ Trail[i] = appended[Trail[i].id]
              /\ \A j \in 1 .. i - 1 : Trail[j].id < Trail[i].id

(* Buffers are dropped only when the writer has fallen behind by more than *)
(* kMaximumOfLogBuffer of them, and never the oldest ones.                 *)
OldestIsKept ==
    [][lost' # lost /\ spc = "swapped" =>
           /\ Len(work) > kMaximumOfLogBuffer
           /\ \A id \in lost' \ lost : \A kept \in Ids(FlattenSeq(work')) : kept < id]_vars

(* Rolled files and the open file together hold everything that was        *)
(* written, unless files are rolled by size: then two may be given the     *)
(* name of the same second.                                                *)
NoArchiveLost ==
    logFileType # "ROLLING_FILE" =>
        FlattenSeq([s \in 1 .. time + 1 |->
                        IF s - 1 \in DOMAIN archive THEN archive[s - 1] ELSE << >>])
            \o file = written

(* A message does not stay in memory for ever, although append() wakes     *)
(* sync() only for full buffers, unless the appender is destroyed.         *)
MessageLeavesMemory ==
    \A id \in 1 .. MaxMessages :
        Len(appended) >= id ~> (id \in Ids(written) \cup lost \/ ~ running)
=============================================================================
