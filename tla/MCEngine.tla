------------------------------ MODULE MCEngine ------------------------------
(* The timer queue, a line of the log and the asynchronous logger, and the   *)
(* kernel with its nets, console and executors.  They share no variable, so  *)
(* each behaviour is of one of them; the kernel appears twice, with console  *)
(* commands and one executor, and with two executors whose tasks make more.  *)
(* Two nets ask for one name.                                                *)
EXTENDS TimerQueue, SequencesExt

VARIABLES
  part,  \* the component that this behaviour is of
  current, logNext, buffers, logRunning, appended, pc, taken, at, buf1, buf2,
  files, unflushed, written, count, lastRoll, logDropped, clock, aborted,
  phase, kernRunning, poller, name, nets, unnamed, stopper, todo, erasing,
  erased, console, crashed, commands, executors, down, waits, dpc,
  level, print, line, output, printed, flushed, lineAborted, lines,
  handlers, descs, listener, listed, reply, registers

(* The closed form of Applied is what process_request_queue does: one request*)
(* after the other.                                                          *)
ASSUME RequestsApplied ==
  \A S \in SUBSET Timer, q \in BoundedSeq([op : {"Add", "Remove"}, timer : Timer], 4) :
    Applied(S, q) =
      FoldLeft(LAMBDA T, r : IF r.op = "Add" THEN T \cup {r.timer} ELSE T \ {r.timer}, S, q)

Net == {"c", "m1", "m2"}

MCNameOf == [m \in Net |-> IF m = "c" THEN "console" ELSE "game"]

Log == INSTANCE AsyncLogger WITH
  Threads <- {"t"}, Capacity <- 3, DropAbove <- 2, CheckEvery <- 2,
  RollSize <- 3, MaxLogs <- 6, MaxTime <- 3, next <- logNext,
  running <- logRunning, dropped <- logDropped
Kern == INSTANCE Kernel WITH
  Nets <- Net, Console <- "c", NameOf <- MCNameOf, Executors <- {"e1"},
  MaxCommands <- 1, Registers <- FALSE, running <- kernRunning,
  Commands <- {"list", "help", "x"}, Funcs <- {"f", "g"}, Names <- {"n1", "n2"},
  MaxRegisters <- 2
Grow == INSTANCE Kernel WITH
  Nets <- Net, Console <- "c", NameOf <- MCNameOf, Executors <- {"e1", "e2"},
  MaxCommands <- 0, Registers <- TRUE, running <- kernRunning,
  Commands <- {"list", "help", "x"}, Funcs <- {"f", "g"}, Names <- {"n1", "n2"},
  MaxRegisters <- 2

Line == INSTANCE LogLine WITH
  Capacity <- 8, MaxNumericSize <- 2, TextSizes <- {1, 3}, MaxPieces <- 2,
  MaxLines <- 1, aborted <- lineAborted

logVars == <<current, logNext, buffers, logRunning, appended, pc, taken, at,
             buf1, buf2, files, unflushed, written, count, lastRoll,
             logDropped, clock, aborted>>
kernVars == <<phase, kernRunning, poller, name, nets, unnamed, stopper, todo,
              erasing, erased, console, crashed, commands, executors, down,
              waits, dpc>>
lineVars == <<level, print, line, output, printed, flushed, lineAborted, lines>>
consVars == <<handlers, descs, listener, listed, reply, registers>>

Parts == {"timers", "logger", "line", "kernel", "kernel_grows", "console"}

SuiteInit ==
  /\ part \in Parts
  /\ Init
  /\ Log!Init
  /\ Kern!Init
  /\ Line!Init /\ (part # "line" => level = "Info" /\ ~print)

(* One component takes its steps and the others stay as they began.          *)
SuiteNext ==
  /\ UNCHANGED part
  /\ \/ part = "timers" /\ Next
        /\ UNCHANGED <<logVars, kernVars, lineVars, consVars>>
     \/ part = "logger" /\ Log!Next
        /\ UNCHANGED <<vars, kernVars, lineVars, consVars>>
     \/ part = "kernel" /\ Kern!KernelNext
        /\ UNCHANGED <<vars, logVars, lineVars, consVars>>
     \/ part = "kernel_grows" /\ Grow!KernelNext
        /\ UNCHANGED <<vars, logVars, lineVars, consVars>>
     \/ part = "line" /\ Line!Next
        /\ UNCHANGED <<vars, logVars, kernVars, consVars>>
     \/ part = "console" /\ Kern!ConsoleNext
        /\ UNCHANGED <<vars, logVars, kernVars, lineVars>>
     \/ part \in {"logger", "line", "kernel", "kernel_grows", "console"}  \* it may stop
        /\ UNCHANGED <<vars, logVars, kernVars, lineVars, consVars>>

(* A step of the kernel, whichever of its two parts this behaviour is of.     *)
KernelOf(A, B) == (part = "kernel" /\ A) \/ (part = "kernel_grows" /\ B)

suiteVars == <<part, vars, logVars, kernVars, lineVars, consVars>>

SuiteSpec ==
  /\ SuiteInit /\ [][SuiteNext]_suiteVars
  /\ WF_vars(part = "timers" /\ WorkerStep)
  /\ WF_vars(part = "timers" /\ (DeadlineReached /\ WakeUp))
  /\ WF_vars(part = "timers" /\ NotifyOne)
  /\ WF_vars(part = "timers" /\ Tick)
  /\ WF_vars(part = "timers" /\ ShutdownStep)
  /\ WF_vars(part = "timers" /\ (\E t \in Timer : Execute(t)))
  /\ \A m \in Net : WF_kernVars(KernelOf(Kern!NetStep(m), Grow!NetStep(m)))
  /\ WF_kernVars(KernelOf(Kern!CommandStep, Grow!CommandStep))
  /\ WF_kernVars(KernelOf(Kern!DestroyStep, Grow!DestroyStep))

-----------------------------------------------------------------------------
(* Logging threads and the background thread lose and reorder nothing, and   *)
(* two spare buffers are there for every round (async_logger.cc); a line is  *)
(* cut only where its buffer ends, never inside a number, and a fatal one is *)
(* flushed before the process ends (logger.cc).                              *)
LoggerSafe ==
  /\ part = "logger" => Log!TypeOK /\ Log!LogKept /\ Log!SparesReady
  /\ part = "line" => Line!LinesCut

(* A running net is listed under its name and a name is listed once, while   *)
(* owners and console commands stop, add and restart nets; the console's own *)
(* commands stay what they are (kernel.cc).                                  *)
NetsListed ==
  /\ part \in {"kernel", "kernel_grows"} => Kern!RunningListed
  /\ part = "console" => Kern!CommandsStay

(* A timer with a deadline in range is called, a console command ends, and   *)
(* so does the kernel's shutdown of its executors.                           *)
EngineProgresses ==
  TimerFires /\ (part = "kernel" => Kern!CommandsEnd)

-----------------------------------------------------------------------------
(* What the code does not ensure.                                            *)

(* A kill erases the name it was given only if that net still has it.        *)
KillKeepsRunning == Kern!KillKeepsRunning

(* "killall" does not make the console's thread join itself.                 *)
NeverJoinsItself == Kern!NeverJoinsItself

(* ~Kernel returns although a task makes a further executor meanwhile.       *)
DestructorReturns == part = "kernel_grows" => Grow!DestructorReturns

(* A line of the log ends with a newline: not when it fills its buffer.      *)
LinesEnd == Line!LinesEnd

(* A function registered again replaces the one before, as the log says, and *)
(* "help" describes the one that answers; every net counted is shown; a line *)
(* sent once the console listens is answered.                                *)
HandlerReplaced == [][part = "console" =>
  \A c \in {"list", "help", "x"}, f \in {"f", "g"} : Kern!RegisterHandler(c, f, TRUE) => handlers'[c] = f]_suiteVars
Described == Kern!Described
TotalShown == Kern!TotalShown
LinesAnswered == Kern!LinesAnswered
=============================================================================
