-------------------------------- MODULE Kernel ------------------------------
(***************************************************************************)
(* plain::Kernel (engine/kernel.cc): the list of the nets that run, which  *)
(* Manager::start and stop keep (net/connection/manager.cc), the console   *)
(* commands that read it and stop nets, and the executors that the         *)
(* destructor shuts down.                                                  *)
(*                                                                         *)
(* A net is a Manager.  Its owner starts it, stops it and lets it go; a    *)
(* console command runs on the executor of the console's own manager and   *)
(* goes through a copy of the list, so owners go on meanwhile.  A step is  *)
(* one critical section of Impl::mutex or of executor_collection::lock, or *)
(* one call that waits.                                                    *)
(*                                                                         *)
(* And the console itself: commands registered under a name with a         *)
(* description, the listener that enable_console makes, and the dispatcher *)
(* that answers the lines of its connections, with "list" and "help".  The *)
(* thread that enables the console starts the listener before it gives it  *)
(* a dispatcher and a codec, and anyone may register a command at any      *)
(* time, so a line may come between any two of these steps.  It shares no  *)
(* variable with the rest: what "kill" does is there.                      *)
(***************************************************************************)
EXTENDS Naturals, Sequences, FiniteSets, SequencesExt, Functions

CONSTANTS
  Nets,       \* the managers
  Console,    \* the manager that enable_console makes, one of Nets
  NameOf,     \* net -> setting.name; "" for none
  Executors,  \* what make_worker_thread_executor and make_manual_executor make
  Registers,  \* whether tasks of the executors make further executors
  MaxCommands \* bound: console commands

VARIABLES
  phase,     \* net -> how far its owner and stop() are
  running,   \* net -> Manager::running
  poller,    \* net -> its worker thread runs
  name,      \* net -> setting_.name
  nets,      \* Impl::nets: name -> net, as a set of pairs
  unnamed,   \* unnamed_net_count
  stopper,   \* net -> who is in its stop(): "owner", "console" or "none"
  todo,      \* the nets that the console command has still to stop
  erasing,   \* the name that the console command is to erase
  erased,    \* history: the names that console commands have erased
  console,   \* where the console command is
  crashed,   \* a thread joined itself
  commands,  \* counter for the bound
  executors, \* registered_executors.executors
  down,      \* the executors that have shut down
  waits,     \* executors with a task that waits for executor_collection::lock
  dpc        \* where ~Kernel is

netVars == <<phase, running, poller, name, nets, unnamed, stopper>>
cmdVars == <<todo, erasing, erased, console, crashed, commands>>
exeVars == <<executors, down, waits, dpc>>
vars == <<netVars, cmdVars, exeVars>>

NoName == "none"

KernelInit ==
  /\ phase = [m \in Nets |-> "new"]
  /\ running = [m \in Nets |-> FALSE] /\ poller = [m \in Nets |-> FALSE]
  /\ name = NameOf
  /\ nets = {} /\ unnamed = 0
  /\ stopper = [m \in Nets |-> "none"]
  /\ todo = {} /\ erasing = NoName /\ erased = {}
  /\ console = "idle" /\ crashed = FALSE /\ commands = 0
  /\ executors = <<>> /\ down = {} /\ waits = {} /\ dpc = "none"

To(m, p) == phase' = [phase EXCEPT ![m] = p]

Named(n) == {p \in nets : p[1] = n}

-----------------------------------------------------------------------------
(* Manager::start.                                                           *)

(* The name an unnamed net gets.                                             *)
Unknown == "unknown" \o ToString(unnamed + 1)

MutantTaken(n) == FALSE

Taken(n) == Named(n) # {}

(* ENGINE->add; a name that is taken makes start throw.                      *)
Add(m) ==
  LET n == IF name[m] = "" THEN Unknown ELSE name[m]
  IN  /\ phase[m] = "new"
      /\ name' = [name EXCEPT ![m] = n]
      /\ unnamed' = IF name[m] = "" THEN unnamed + 1 ELSE unnamed
      /\ IF Taken(n)
           THEN To(m, "refused") /\ UNCHANGED nets
           ELSE To(m, "added") /\ nets' = (nets \ Named(n)) \cup {<<n, m>>}
      /\ UNCHANGED <<running, poller, stopper, cmdVars, exeVars>>

(* The worker thread starts, or cannot be made and start throws.             *)
Run(m) ==
  /\ phase[m] = "added"
  /\ \/ /\ To(m, "up")
        /\ running' = [running EXCEPT ![m] = TRUE]
        /\ poller' = [poller EXCEPT ![m] = TRUE]
     \/ To(m, "refused") /\ UNCHANGED <<running, poller>>
  /\ UNCHANGED <<name, nets, unnamed, stopper, cmdVars, exeVars>>

(* The owner lets a net go that does not run: weak pointers to it expire.    *)
Release(m) ==
  /\ phase[m] \in {"refused", "stopped"} /\ stopper[m] = "none"
  /\ To(m, "gone")
  /\ UNCHANGED <<running, poller, name, nets, unnamed, stopper, cmdVars, exeVars>>

-----------------------------------------------------------------------------
(* Manager::stop, by the owner or by the console command.                    *)

(* Only the first call goes on.                                              *)
StopBegin(m, who) ==
  /\ running' = [running EXCEPT ![m] = FALSE]
  /\ IF running[m] THEN To(m, "removing") /\ stopper' = [stopper EXCEPT ![m] = who]
                   ELSE UNCHANGED <<phase, stopper>>

OwnerStops(m) ==
  /\ phase[m] = "up" /\ running[m] /\ m # Console
  /\ StopBegin(m, "owner")
  /\ UNCHANGED <<poller, name, nets, unnamed, cmdVars, exeVars>>

(* remove_net, for every net but the console.                                *)
Unlisted(m) == IF name[m] = "console" THEN nets ELSE nets \ Named(name[m])

StopRemove(m) ==
  /\ phase[m] = "removing"
  /\ nets' = Unlisted(m)
  /\ To(m, "joining")
  /\ UNCHANGED <<running, poller, name, unnamed, stopper, cmdVars, exeVars>>

MutantWoken(m) == running[m]

(* send_ctrl_cmd("k").                                                       *)
Woken(m) == phase[m] = "joining"

PollerEnds(m) ==
  /\ poller[m] /\ Woken(m)
  /\ poller' = [poller EXCEPT ![m] = FALSE]
  /\ UNCHANGED <<phase, running, name, nets, unnamed, stopper, cmdVars, exeVars>>

(* The worker is joined, then executor->shutdown() joins the executor's      *)
(* thread: a command runs on the thread of the console's executor.           *)
StopEnd(m) ==
  /\ phase[m] = "joining" /\ ~poller[m]
  /\ To(m, "stopped") /\ stopper' = [stopper EXCEPT ![m] = "none"]
  /\ crashed' = (crashed \/ (m = Console /\ stopper[m] = "console"))
  /\ UNCHANGED <<running, poller, name, nets, unnamed, todo, erasing, erased, console,
                 commands, exeVars>>

-----------------------------------------------------------------------------
(* console_cmd_kill: a copy of the list, then one net after the other.       *)

Kill ==
  /\ console = "idle" /\ phase[Console] = "up" /\ commands < MaxCommands /\ nets # {}
  /\ commands' = commands + 1
  /\ \/ todo' = nets
     \/ \E p \in nets : p[1] # "console" /\ todo' = {p}
  /\ console' = IF Cardinality(todo') > 1 THEN "all" ELSE "one"
  /\ UNCHANGED <<netVars, erasing, erased, crashed, exeVars>>

(* The next name of the copy: stopped, or erased when its net is gone.       *)
KillNext ==
  /\ console \in {"all", "one"} /\ erasing = NoName
  /\ \A m \in Nets : stopper[m] # "console"
  /\ \E p \in todo :
       /\ todo' = todo \ {p}
       /\ IF phase[p[2]] = "gone"
            THEN /\ erasing' = IF console = "one" THEN p[1] ELSE NoName
                 /\ UNCHANGED <<phase, running, stopper>>
            ELSE StopBegin(p[2], "console") /\ UNCHANGED erasing
  /\ UNCHANGED <<poller, name, nets, unnamed, erased, console, crashed, commands, exeVars>>

Erase ==
  /\ erasing # NoName
  /\ nets' = nets \ Named(erasing)
  /\ erasing' = NoName /\ erased' = erased \cup {erasing}
  /\ UNCHANGED <<phase, running, poller, name, unnamed, stopper, todo, console, crashed,
                 commands, exeVars>>

KillEnd ==
  /\ console \in {"all", "one"} /\ todo = {} /\ erasing = NoName
  /\ \A m \in Nets : stopper[m] # "console"
  /\ console' = "idle"
  /\ UNCHANGED <<netVars, todo, erasing, erased, crashed, commands, exeVars>>

-----------------------------------------------------------------------------
(* The executors.                                                            *)

LockFree == dpc # "shutdown"

Register(e) ==
  /\ e \notin ToSet(executors) /\ LockFree /\ dpc = "none"
  /\ executors' = Append(executors, e)
  /\ UNCHANGED <<netVars, cmdVars, down, waits, dpc>>

(* A task of e calls make_worker_thread_executor while shutdown_all runs.    *)
TaskRegisters(e) ==
  /\ Registers /\ dpc = "shutdown"
  /\ e \in ToSet(executors) \ (down \cup waits)
  /\ waits' = waits \cup {e}
  /\ UNCHANGED <<netVars, cmdVars, executors, down, dpc>>

(* ~Kernel: the timer queue, then shutdown_all under the lock.               *)
Destroy ==
  /\ dpc = "none" /\ executors # <<>>
  /\ dpc' = "shutdown"
  /\ UNCHANGED <<netVars, cmdVars, executors, down, waits>>

(* shutdown() of the next executor, which waits for its running task.        *)
ShutdownNext ==
  /\ dpc = "shutdown"
  /\ \E i \in 1..Len(executors) :
       /\ {executors[j] : j \in 1..(i - 1)} = down
       /\ executors[i] \notin down \cup waits
       /\ down' = down \cup {executors[i]}
  /\ UNCHANGED <<netVars, cmdVars, executors, waits, dpc>>

ShutdownEnd ==
  /\ dpc = "shutdown" /\ ToSet(executors) = down
  /\ dpc' = "done" /\ executors' = <<>>
  /\ UNCHANGED <<netVars, cmdVars, down, waits>>

-----------------------------------------------------------------------------
NetStep(m) == StopRemove(m) \/ PollerEnds(m) \/ StopEnd(m)

CommandStep == KillNext \/ Erase \/ KillEnd

DestroyStep == ShutdownNext \/ ShutdownEnd

KernelNext ==
  \/ \E m \in Nets : Add(m) \/ Run(m) \/ Release(m) \/ OwnerStops(m) \/ NetStep(m)
  \/ Kill \/ CommandStep
  \/ \E e \in Executors : Register(e) \/ TaskRegisters(e)
  \/ Destroy \/ DestroyStep

Spec == KernelInit /\ [][KernelNext]_vars

(* stop(), a command and the destructor go on once they have begun.          *)
FairSpec ==
  /\ Spec
  /\ \A m \in Nets : WF_vars(NetStep(m))
  /\ WF_vars(CommandStep) /\ WF_vars(DestroyStep)

-----------------------------------------------------------------------------
(* A net that runs is in the list under its name, and a name is listed once: *)
(* no add and no stop hides a net that runs, unless a kill by that name has  *)
(* erased it.  A listed net that was stopped is on its way out of the list   *)
(* (the console stays).                                                      *)
RunningListed ==
  /\ \A m \in Nets : running[m] => <<name[m], m>> \in nets \/ name[m] \in erased
  /\ \A p, q \in nets : p[1] = q[1] => p = q
  /\ \A p \in nets : p[1] # "console" => phase[p[2]] \notin {"joining", "stopped"}

(* A kill command comes to an end although the nets it stops are stopped by  *)
(* their owners and started again under the same name meanwhile; and so does *)
(* the destructor's shutdown_all, if no task makes a further executor.       *)
CommandsEnd ==
  /\ console # "idle" ~> console = "idle"
  /\ ~Registers => (dpc = "shutdown" ~> dpc = "done")

-----------------------------------------------------------------------------
(* The console                                                               *)

CONSTANTS
  Commands,    \* the names of commands, the kernel's among them
  Funcs,       \* the functions that are registered by others than the kernel
  Names,       \* the listed' names
  MaxRegisters \* bound: registrations

VARIABLES
  handlers,  \* Impl::console_handlers: command -> function
  descs,     \* Impl::console_descs: command -> the function described
  listener,  \* Impl::console_listener and what it has been given
  listed,      \* Impl::listed: name -> whether the net is still there
  reply,     \* how the last line was answered
  registers  \* counter for the bound

consVars == <<handlers, descs, listener, listed, reply, registers>>

KernelCommands == {"list", "kill", "killall", "help"}

NoReply == [status |-> "none", by |-> "none", rows |-> {}, total |-> 0]

\* Kernel::Kernel registers its commands.
ConsoleInit ==
  /\ handlers = [c \in KernelCommands |-> c]
  /\ descs = handlers
  /\ listener = "none"
  /\ listed = << >>
  /\ reply = NoReply /\ registers = 0

-----------------------------------------------------------------------------
MutantEmplace(f, k, v) == [x \in DOMAIN f \cup {k} |-> IF x = k THEN v ELSE f[x]]

\* std::map::emplace keeps what is there.
Emplace(f, k, v) == [x \in DOMAIN f \cup {k} |-> IF x \in DOMAIN f THEN f[x] ELSE v]

\* register_console_handler; an empty description is not kept.
RegisterHandler(cmd, func, described) ==
  /\ registers < MaxRegisters
  /\ registers' = registers + 1
  /\ handlers' = Emplace(handlers, cmd, func)
  /\ descs' = IF described THEN Emplace(descs, cmd, func) ELSE descs
  /\ UNCHANGED <<listener, listed, reply>>

\* enable_console, which leaves a listener that could not start.
Enable ==
  /\ listener = "none"
  /\ listener' \in {"started", "failed"}
  /\ UNCHANGED <<handlers, descs, listed, reply, registers>>

SetDispatcher ==
  /\ listener = "started" /\ listener' = "dispatches"
  /\ UNCHANGED <<handlers, descs, listed, reply, registers>>

SetCodec ==
  /\ listener = "dispatches" /\ listener' = "enabled"
  /\ UNCHANGED <<handlers, descs, listed, reply, registers>>

\* Nets are added, removed, and let go without being removed.
NetsChange(n) ==
  /\ listed' = CASE n \notin DOMAIN listed -> [x \in DOMAIN listed \cup {n} |-> x = n \/ listed[x]]
               [] n \in DOMAIN listed /\ listed[n] -> [listed EXCEPT ![n] = FALSE]
               [] OTHER -> Restrict(listed, DOMAIN listed \ {n})
  /\ UNCHANGED <<handlers, descs, listener, reply, registers>>

-----------------------------------------------------------------------------
\* The listed whose weak pointer can be locked.
Listed == {n \in DOMAIN listed : listed[n]}

\* console_cmd_list: the total counts every entry.
console_cmd_list == [rows |-> Listed, total |-> Cardinality(DOMAIN listed)]

MutantHelped(args) == args

\* The commands that have a description: all, or those asked for.
Helped(args) == IF args = {} THEN DOMAIN descs ELSE args \cap DOMAIN descs

console_cmd_help(args) == [rows |-> Helped(args), total |-> Cardinality(Helped(args))]

\* What the function answers; others are taken to answer nothing.
Answer(func, args) ==
  CASE func = "list" -> console_cmd_list
    [] func = "help" -> console_cmd_help(args)
    [] OTHER -> [rows |-> {}, total |-> 0]

\* The dispatcher: an unknown command makes it fail, which ends the
\* connection; an empty answer is not sent.
Line(cmd, args) ==
  /\ listener = "enabled"
  /\ IF cmd \notin DOMAIN handlers
     THEN reply' = [NoReply EXCEPT !.status = "refused"]
     ELSE LET a == Answer(handlers[cmd], args)
              silent == handlers[cmd] = "help" /\ a.rows = {}
          IN  reply' = [status |-> IF silent THEN "silent" ELSE "sent", by |-> handlers[cmd],
                        rows |-> a.rows, total |-> a.total]
  /\ UNCHANGED <<handlers, descs, listener, listed, registers>>

\* Until both are set a line is read as a packet with a head: nothing comes of
\* it, or the connection ends.
EarlyLine ==
  /\ listener \in {"started", "dispatches"}
  /\ \E status \in {"ignored", "refused"} : reply' = [NoReply EXCEPT !.status = status]
  /\ UNCHANGED <<handlers, descs, listener, listed, registers>>

ConsoleNext ==
  \/ \E c \in Commands, f \in Funcs, d \in BOOLEAN : RegisterHandler(c, f, d)
  \/ Enable \/ SetDispatcher \/ SetCodec
  \/ \E n \in Names : NetsChange(n)
  \/ \E c \in Commands, args \in SUBSET Commands : Cardinality(args) <= 1 /\ Line(c, args)
  \/ EarlyLine

ConsoleSpec == ConsoleInit /\ [][ConsoleNext]_consVars

-----------------------------------------------------------------------------
(* The kernel's commands stay the kernel's, whoever registers meanwhile, and *)
(* what "help" lists can be called (kernel.cc, register_console_handler);    *)
(* "list" shows no more listed than it counts (console_cmd_list).              *)
CommandsStay ==
  /\ \A c \in KernelCommands : handlers[c] = c /\ descs[c] = c
  /\ DOMAIN descs \subseteq DOMAIN handlers
  /\ reply.by = "help" => reply.rows \subseteq DOMAIN descs
  /\ reply.by = "list" => Cardinality(reply.rows) <= reply.total

-----------------------------------------------------------------------------
Init == KernelInit /\ ConsoleInit

-----------------------------------------------------------------------------
(* What the code does not ensure.                                            *)

(* A kill of a net that was stopped after the list was copied erases the net *)
(* that has been started under its name since.                               *)
KillKeepsRunning == \A m \in Nets : running[m] => <<name[m], m>> \in nets

(* "killall" ("Kill all net") stops the console too, from the thread that    *)
(* this joins.                                                               *)
NeverJoinsItself == ~crashed

(* A task that makes an executor while ~Kernel shuts down waits for the lock *)
(* which is held until the task ends.                                        *)
DestructorReturns == dpc = "shutdown" ~> dpc = "done"

(* "handler will replace": the function registered last answers.             *)
HandlerReplaced ==
  [][\A c \in Commands, f \in Funcs : RegisterHandler(c, f, TRUE) => handlers'[c] = f]_consVars

(* The description is of the function that answers.                          *)
Described == \A c \in DOMAIN descs : descs[c] = handlers[c]

(* The total is the number of listed shown.                                    *)
TotalShown == reply.by = "list" => reply.total = Cardinality(reply.rows)

(* A line is answered or refused once the console listens.                   *)
LinesAnswered == reply.status # "ignored"
=============================================================================
