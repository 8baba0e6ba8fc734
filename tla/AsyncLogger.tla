----------------------------- MODULE AsyncLogger -----------------------------
(***************************************************************************)
(* The asynchronous log (src/basic/async_logger.cc, file/utility.cc) and   *)
(* the LOG_ front end that feeds it (basic/logger.h, src/basic/logger.cc). *)
(* Any thread appends to the current buffer under a mutex; one background  *)
(* thread takes the full buffers and the current one, hands two empty ones *)
(* back, and writes what it took to a file without the mutex.              *)
(*                                                                         *)
(* A buffer is the sequence of messages in it, a missing buffer is Null.   *)
(* Messages have size one; a buffer of Capacity takes a message while more *)
(* than one place is left (write_avail() > log.size()).                    *)
(***************************************************************************)
EXTENDS Integers, Sequences, SequencesExt

CONSTANTS
  Threads,     \* threads that log
  Capacity,    \* kLargeBufferSize, in messages
  DropAbove,   \* 25: more buffers than this and all but two are dropped
  CheckEvery,  \* check_every_N
  RollSize,    \* roll_size, in messages
  MaxLogs, MaxTime \* bounds on messages and on the clock (TLC only)

Null == <<0>>    \* no buffer
Notice == 0      \* the line that reports dropped buffers

VARIABLES
  current, next, buffers,   \* current_buffer_, next_buffer_, buffers_
  running, appended,        \* running_; every message appended, in order
  pc, taken, at,            \* the background thread: its place, write_buffers, the next to write
  buf1, buf2,               \* buffer1, buffer2
  files, unflushed,         \* what the files hold, in order; messages still in stdio's buffer
  written, count, lastRoll, \* File: written_bytes_, count_, last_roll_
  dropped,                  \* messages of buffers that were dropped
  clock, aborted            \* seconds; LOG_SYSFATAL ended the process

vars == <<current, next, buffers, running, appended, pc, taken, at, buf1, buf2,
          files, unflushed, written, count, lastRoll, dropped, clock, aborted>>
shared == <<current, next, buffers>>
mine == <<taken, at, buf1, buf2>>
fileVars == <<files, unflushed, written, count, lastRoll>>

Init ==
  /\ current = <<>> /\ next = <<>> /\ buffers = <<>>
  /\ running = FALSE /\ appended = <<>>
  /\ pc = "new" /\ taken = <<>> /\ at = 1 /\ buf1 = <<>> /\ buf2 = <<>>
  /\ files = <<>> /\ unflushed = 0 /\ written = 0 /\ count = 0 /\ lastRoll = 0
  /\ dropped = <<>> /\ clock = 1 /\ aborted = FALSE

-----------------------------------------------------------------------------
(* Front end                                                               *)

\* AsyncLogger::append, under the mutex: into the current buffer, or that one
\* is set aside, the spare one (or a new one) becomes current and the thread
\* is notified.
Append1(m) ==
  /\ appended' = Append(appended, m)
  /\ IF Capacity - Len(current) > 1
     THEN current' = Append(current, m) /\ UNCHANGED <<next, buffers>>
     ELSE /\ buffers' = Append(buffers, current)
          /\ current' = <<m>>
          /\ next' = Null

\* A statement of at least the threshold level: the Logger's destructor
\* hands the finished line to the output function.
Log(t) ==
  /\ pc # "new" /\ ~ aborted /\ Len(appended) < MaxLogs
  /\ Append1(Len(appended) + 1)
  /\ UNCHANGED <<running, pc, dropped, clock, aborted>> /\ UNCHANGED mine /\ UNCHANGED fileVars

\* A fatal line: appended, standard output flushed, and the process aborts.
LogFatal(t) ==
  /\ pc # "new" /\ ~ aborted /\ Len(appended) = MaxLogs - 1
  /\ Append1(Len(appended) + 1)
  /\ aborted' = TRUE
  /\ UNCHANGED <<running, pc, dropped, clock>> /\ UNCHANGED mine /\ UNCHANGED fileVars

\* start: the thread runs before start returns (the latch).
Start ==
  /\ pc = "new" /\ pc' = "open" /\ running' = TRUE
  /\ UNCHANGED <<appended, dropped, clock, aborted>> /\ UNCHANGED shared /\ UNCHANGED mine /\ UNCHANGED fileVars

\* stop up to join: the flag, without the mutex, and a notification.
Stop ==
  /\ running /\ running' = FALSE
  /\ UNCHANGED <<appended, pc, dropped, clock, aborted>> /\ UNCHANGED shared /\ UNCHANGED mine /\ UNCHANGED fileVars

-----------------------------------------------------------------------------
(* Background thread                                                       *)

\* thread_handle up to its loop: the File constructor opens the first file.
\* (Its assertion that running_ still holds is AssertRunning below.)
OpenFile ==
  /\ pc = "open" /\ ~ aborted /\ pc' = "loop"
  /\ lastRoll' = clock
  /\ UNCHANGED <<running, appended, files, unflushed, written, count, dropped, clock, aborted>>
  /\ UNCHANGED shared /\ UNCHANGED mine

Loop ==
  /\ pc = "loop" /\ ~ aborted
  /\ pc' = IF running THEN "lock" ELSE "end"
  /\ UNCHANGED <<running, appended, dropped, clock, aborted>> /\ UNCHANGED shared /\ UNCHANGED mine /\ UNCHANGED fileVars

\* Under the mutex: with nothing set aside, wait for a notification or the
\* flush interval (either may come at once), then take everything.
MutantTakenBuffers == IF buffers = <<>> THEN <<current>> ELSE buffers
TakenBuffers == Append(buffers, current)

Swap ==
  /\ pc = "lock" /\ ~ aborted
  /\ taken' = TakenBuffers
  /\ buffers' = <<>>
  /\ current' = buf1 /\ buf1' = Null
  /\ IF next = Null THEN next' = buf2 /\ buf2' = Null ELSE UNCHANGED <<next, buf2>>
  /\ pc' = "drop"
  /\ UNCHANGED <<at, running, appended, dropped, clock, aborted>> /\ UNCHANGED fileVars

\* File::append_unlocked: write, then a new file when the old one is over the
\* roll size or at every CheckEvery-th append (the period the code compares is
\* never zero), but at most one a second. Replacing the file closes, and so
\* flushes, the old one.
WriteFile(b) ==
  LET over == written + Len(b) > RollSize
  IN  /\ files' = files \o b
      /\ count' = IF over THEN count ELSE (count + 1) % CheckEvery
      /\ IF (over \/ count' = 0) /\ clock > lastRoll
         THEN lastRoll' = clock /\ written' = 0 /\ unflushed' = 0
         ELSE written' = written + Len(b) /\ unflushed' = unflushed + Len(b) /\ UNCHANGED lastRoll

\* Too many buffers: the first two stay, and a Notice in the file says so.
MutantKeptOnDrop == 1
KeptOnDrop == 2

Drop ==
  /\ pc = "drop" /\ ~ aborted
  /\ IF Len(taken) > DropAbove
     THEN /\ WriteFile(<<Notice>>)
          /\ dropped' = dropped \o FlattenSeq(SubSeq(taken, KeptOnDrop + 1, Len(taken)))
          /\ taken' = SubSeq(taken, 1, KeptOnDrop)
     ELSE UNCHANGED <<dropped, taken>> /\ UNCHANGED fileVars
  /\ at' = 1 /\ pc' = "write"
  /\ UNCHANGED <<running, appended, buf1, buf2, clock, aborted>> /\ UNCHANGED shared

\* One turn of the loop over write_buffers.
WriteOne ==
  /\ pc = "write" /\ ~ aborted
  /\ IF at > Len(taken) THEN pc' = "recycle" /\ UNCHANGED at /\ UNCHANGED fileVars
     ELSE WriteFile(taken[at]) /\ at' = at + 1 /\ UNCHANGED pc
  /\ UNCHANGED <<running, appended, taken, buf1, buf2, dropped, clock, aborted>> /\ UNCHANGED shared

\* At most two of the written buffers are kept and, emptied, replace the ones
\* that were handed over; a missing one stays missing when none is left. Then
\* the flush.
Recycle ==
  LET spare  == IF Len(taken) > 2 THEN 2 ELSE Len(taken)
      fills1 == buf1 = Null /\ spare >= 1
      left   == IF fills1 THEN spare - 1 ELSE spare
  IN  /\ pc = "recycle" /\ ~ aborted
      /\ buf1' = IF fills1 THEN <<>> ELSE buf1
      /\ buf2' = IF buf2 = Null /\ left >= 1 THEN <<>> ELSE buf2
      /\ taken' = <<>> /\ at' = 1 /\ unflushed' = 0 /\ pc' = "loop"
      /\ UNCHANGED <<running, appended, dropped, clock, aborted, files, written, count, lastRoll>>
      /\ UNCHANGED shared

\* The thread's last flush, after which stop's join returns.
End ==
  /\ pc = "end" /\ ~ aborted
  /\ pc' = "joined" /\ unflushed' = 0
  /\ UNCHANGED <<running, appended, dropped, clock, aborted, files, written, count, lastRoll>> /\ UNCHANGED shared /\ UNCHANGED mine

Tick ==
  /\ clock < MaxTime /\ pc # "new" /\ clock' = clock + 1
  /\ UNCHANGED <<running, appended, pc, dropped, aborted>> /\ UNCHANGED shared /\ UNCHANGED mine /\ UNCHANGED fileVars

Background == OpenFile \/ Loop \/ Swap \/ Drop \/ WriteOne \/ Recycle \/ End

Next == Start \/ Stop \/ Tick \/ Background \/ \E t \in Threads : Log(t) \/ LogFatal(t)

Spec == Init /\ [][Next]_vars /\ WF_vars(Background)

-----------------------------------------------------------------------------
TypeOK ==
  /\ Len(current) <= Capacity /\ \A k \in DOMAIN buffers : Len(buffers[k]) <= Capacity
  /\ current # Null /\ clock \in 1..MaxTime /\ Len(appended) <= MaxLogs
  /\ pc \in {"new", "open", "loop", "lock", "drop", "write", "recycle", "end", "joined"}

\* Nothing is lost or reordered between the threads: the messages in the
\* files, then those the thread has yet to write, those set aside and those in
\* the current buffer are the messages appended, but for dropped buffers.
LogKept ==
  SelectSeq(files, LAMBDA m : m # Notice)
      \o FlattenSeq(SubSeq(taken, at, Len(taken))) \o FlattenSeq(buffers) \o current
    = SelectSeq(appended, LAMBDA m : m \notin Range(dropped))

\* The assertions of the thread: whenever it starts a round both of its spare
\* buffers are there and empty, so two buffers can always be handed back.
SparesReady == pc \in {"loop", "lock"} => buf1 = <<>> /\ buf2 = <<>>

\* Stopping the logger ends with every message in the file: does not hold, the
\* thread's loop leaves on the flag without taking the buffers once more.
StopWritesAll == pc = "joined" => buffers = <<>> /\ current = <<>>

\* The assertion thread_handle opens with: does not hold, start returns as soon
\* as the thread exists and a stop may clear the flag before it gets there.
AssertRunning == pc = "open" => running
=============================================================================
