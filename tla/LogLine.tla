------------------------------ MODULE LogLine -------------------------------
(***************************************************************************)
(* A line of the log: plain::Logger (basic/logger.cc, basic/logger.h).     *)
(*                                                                         *)
(* A Logger gathers its line in a FixedRing on which every << is a write   *)
(* that may not fit; a text is then cut, a number is only begun when there *)
(* is room for the longest one.  The destructor adds where the line comes  *)
(* from and hands it to the output function, or prints it when             *)
(* GLOBALS["log.print"] is set.  A line of level Fatal ends the process.   *)
(*                                                                         *)
(* A piece of a line is a sequence of one mark, so that it is seen where   *)
(* it was cut.                                                             *)
(***************************************************************************)
EXTENDS Ring, FiniteSets, SequencesExt

CONSTANTS
  Capacity,       \* kSmallBufferSize, a power of two
  MaxNumericSize, \* kMaxNumericSize
  TextSizes,      \* how long a text may be
  MaxPieces,      \* bound: pieces of one line
  MaxLines        \* bound: lines

VARIABLES
  level,    \* Logger::level_
  print,    \* GLOBALS["log.print"]
  line,     \* the Logger that exists: its level, its buffer and what it was given
  output,   \* what output_func_ wrote
  printed,  \* what print_log showed
  flushed,  \* flush_func_ has been called
  aborted,  \* std::abort
  lines     \* counter for the bound

vars == <<level, print, line, output, printed, flushed, aborted, lines>>

LogLevels == <<"Trace", "Debug", "Info", "Warn", "Error", "Fatal">>

NoLine == [level |-> "none", ring |-> NewRing(Capacity), given |-> <<>>, pieces |-> 0]

Rank(l) == CHOOSE i \in 1..Len(LogLevels) : LogLevels[i] = l

Piece(mark, n) == [i \in 1..n |-> mark]

\* buffer_.write of a piece, which becomes shorter when there is no room.
Put(r, piece) == Write(r, piece, FALSE, FALSE).ring

PutAll(r, pieces) == FoldLeft(Put, r, pieces)

-----------------------------------------------------------------------------
(* init_log_level: PLAIN_LOG_TRACE, PLAIN_LOG_DEBUG or neither is set.       *)
Init ==
  /\ level \in {"Trace", "Debug", "Info"}
  /\ print \in BOOLEAN
  /\ line = NoLine
  /\ output = <<>> /\ printed = <<>> /\ flushed = FALSE /\ aborted = FALSE
  /\ lines = 0

SetLevel(l) ==
  /\ level # l /\ line = NoLine
  /\ level' = l
  /\ UNCHANGED <<print, line, output, printed, flushed, aborted, lines>>

\* LOG_TRACE, LOG_DEBUG and LOG_INFO look at the level, the others do not.
Enabled(l) == Rank(l) > Rank("Info") \/ Rank(level) <= Rank(l)

\* Impl::Impl: the time, the thread, the level and, for the system's errors,
\* errno.
Header(errno) ==
  <<Piece("time", 1), Piece("thread", 1), Piece("level", 1)>>
    \o IF errno THEN <<Piece("errno", 1)>> ELSE <<>>

\* A line begins: its header, then the name of the function.  LOG_SYSERR and
\* LOG_SYSFATAL give errno, which may be 0.
Begin(l, errno) ==
  LET pieces == Append(Header(errno), Piece("function", 1))
  IN  /\ ~aborted /\ line = NoLine /\ lines < MaxLines
      /\ Enabled(l) /\ (errno => l \in {"Error", "Fatal"})
      /\ lines' = lines + 1
      /\ line' = [level |-> l, ring |-> PutAll(NewRing(Capacity), pieces),
                  given |-> pieces, pieces |-> 0]
      /\ UNCHANGED <<level, print, output, printed, flushed, aborted>>

Given(piece) ==
  /\ line # NoLine /\ line.pieces < MaxPieces
  /\ line' = [line EXCEPT !.ring = Put(@, piece), !.given = Append(@, piece),
                          !.pieces = @ + 1]
  /\ UNCHANGED <<level, print, output, printed, flushed, aborted, lines>>

\* operator<< of strings, characters and errors.
GiveText(n) == Given(Piece("text", n))

MutantFits == TRUE

Fits == WriteAvail(line.ring) >= MaxNumericSize

\* format_integer, and operator<< of pointers and floating point numbers: the
\* number is left out if the longest one would not fit.
GiveNumber(n) == IF Fits THEN Given(Piece("number", n)) ELSE Given(<<>>)

\* reset_buffer.
ResetBuffer ==
  /\ line # NoLine /\ line.given # <<>>
  /\ line' = [line EXCEPT !.ring = ConsumerClear(@), !.given = <<>>]
  /\ UNCHANGED <<level, print, output, printed, flushed, aborted, lines>>

\* Impl::finish up to print_log, and the newline.
Source == <<Piece("file", 1), Piece("line", 1)>>
Newline == Piece("newline", 1)

MutantFlushed(l) == flushed

Flushed(l) == flushed \/ l = "Fatal"

\* ~Logger.  default_output writes nothing when the line has been printed.
End ==
  LET r == PutAll(line.ring, Source)
      text == Contents(Put(r, Newline))
      whole == FlattenSeq(line.given \o Append(Source, Newline))
  IN  /\ line # NoLine
      /\ printed' = IF print THEN Append(printed, Contents(r)) ELSE printed
      /\ output' = IF print THEN output ELSE Append(output, [text |-> text, whole |-> whole])
      /\ flushed' = Flushed(line.level)
      /\ aborted' = (line.level = "Fatal")
      /\ line' = NoLine
      /\ UNCHANGED <<level, print, lines>>

Next ==
  \/ \E l \in {"Trace", "Info"} : SetLevel(l)
  \/ \E i \in 1..Len(LogLevels), errno \in BOOLEAN : Begin(LogLevels[i], errno)
  \/ \E n \in TextSizes : GiveText(n)
  \/ \E n \in 1..MaxNumericSize : GiveNumber(n)
  \/ ResetBuffer \/ End

Spec == Init /\ [][Next]_vars

-----------------------------------------------------------------------------
Count(mark, s) == Cardinality({i \in 1..Len(s) : s[i] = mark})

(* A line that is written is the beginning of what it was given, followed by *)
(* the source and the newline if there is room for them; it is cut only at   *)
(* the end of a full buffer (logger.cc: the writes of << and finish).  A     *)
(* number is there as a whole or not at all (format_integer).  A line below  *)
(* the level is not begun, and a fatal line is written and flushed before    *)
(* the process ends (~Logger).                                               *)
LinesCut ==
  /\ \A i \in 1..Len(output) :
       LET o == output[i] IN
       /\ IsPrefix(o.text, o.whole)
       /\ o.text = o.whole \/ Len(o.text) = Capacity
       /\ Count("number", o.text) = Count("number", o.whole)
  /\ \A i \in 1..Len(printed) : Count("newline", printed[i]) = 0
  /\ aborted => flushed /\ Len(output) + Len(printed) = lines

-----------------------------------------------------------------------------
(* What the code does not ensure: a line that fills the buffer has no        *)
(* newline, so the next one goes on in the same line of the file.            *)
LinesEnd == \A i \in 1..Len(output) : Count("newline", output[i].text) = 1
=============================================================================
