---------------------------- MODULE ProcessRunner ----------------------------
(***************************************************************************)
(* The external commands (the engine, the downloader) JavaScript runs and  *)
(* kills: LobbyInterface's map processes, one ProcessRunner per run of a   *)
(* command, its two threads (waitForExitThread, runServiceThread), the     *)
(* child process with its output pipe, and the Qt events that tell the GUI *)
(* thread what the child wrote and that it has terminated.                 *)
(*                                                                         *)
(* POSIX build.  Standard output and standard error are one pipe here.     *)
(* JavaScript runs on the GUI thread, from the event loop and from inside  *)
(* the evalJs() of a TerminateEvent, where it may call any slot.           *)
(***************************************************************************)
EXTENDS Integers, Sequences, FiniteSets

CONSTANTS Commands,   \* the names JavaScript gives to commands
          Runners,    \* the ProcessRunner objects that may be constructed
          None,       \* no runner, no command
          MaxLines    \* bound on the lines one child writes

ASSUME ConstantsAssumption ==
    /\ None \notin Commands
    /\ None \notin Runners
    /\ MaxLines \in Nat

VARIABLES
    processes, \* [Commands -> Runners \cup {None}], the map
    cmd,       \* the name each runner was constructed with, or None
    waiter,    \* waitForExitThread: where it is in run()'s lambda
    svc,       \* runServiceThread: where it is in runService()
    stopped,   \* service.stop() was called (by the destructor)
    child,     \* the child process of each runner
    inherited, \* the runners whose pipe a child has inherited a write end of
    pipe,      \* the lines in the pipe, written and not yet read
    written,   \* how many lines the child has written
    heard,     \* how many ReadEvents of the runner JavaScript has been told
    told,      \* JavaScript has been told that the runner's child terminated
    events,    \* Qt's queue of posted events
    gui,       \* what the GUI thread is doing
    current,   \* the runner whose run() or destructor it executes
    handling,  \* the runner whose TerminateEvent it is handling
    quitting   \* ~LobbyInterface has begun

mapVars   == <<processes, cmd>>
threadVars == <<waiter, svc, stopped>>
childVars == <<child, inherited, pipe, written>>
jsVars    == <<heard, told, events>>
guiVars   == <<gui, current, handling, quitting>>
vars      == <<mapVars, threadVars, childVars, jsVars, guiVars>>

Events == [type : {"read", "terminate"}, from : Runners]

MapTypes ==
    /\ processes \in [Commands -> Runners \cup {None}]
    /\ cmd \in [Runners -> Commands \cup {None}]

ThreadTypes ==
    /\ waiter \in [Runners -> {"none", "execute", "started", "waiting",
                               "reaped", "done", "failed", "joined"}]
    /\ svc \in [Runners -> {"none", "reading", "join", "done"}]
    /\ stopped \in [Runners -> BOOLEAN]

ChildTypes ==
    /\ child \in [Runners -> {"none", "running", "zombie", "reaped"}]
    /\ inherited \in [Runners -> SUBSET Runners]
    /\ pipe \in [Runners -> Nat]
    /\ written \in [Runners -> Nat]

JsTypes ==
    /\ heard \in [Runners -> Nat]
    /\ told \in [Runners -> BOOLEAN]
    /\ events \in Seq(Events)

GuiTypes ==
    /\ gui \in {"js", "starting", "joining", "closing", "down", "crashed"}
    /\ current \in Runners \cup {None}
    /\ handling \in Runners \cup {None}
    /\ quitting \in BOOLEAN

TypeOK == MapTypes /\ ThreadTypes /\ ChildTypes /\ JsTypes /\ GuiTypes

Init ==
    /\ processes = [c \in Commands |-> None]
    /\ cmd = [r \in Runners |-> None]
    /\ waiter = [r \in Runners |-> "none"]
    /\ svc = [r \in Runners |-> "none"]
    /\ stopped = [r \in Runners |-> FALSE]
    /\ child = [r \in Runners |-> "none"]
    /\ inherited = [r \in Runners |-> {}]
    /\ pipe = [r \in Runners |-> 0]
    /\ written = [r \in Runners |-> 0]
    /\ heard = [r \in Runners |-> 0]
    /\ told = [r \in Runners |-> FALSE]
    /\ events = <<>>
    /\ gui = "js"
    /\ current = None
    /\ handling = None
    /\ quitting = FALSE

-----------------------------------------------------------------------------
(* The pipe.  The program's write ends are those of stdout_sink, closed by *)
(* the waiter once the child is reaped; if execve() failed they go only    *)
(* with the waiter's lambda, when the thread is joined.  They are not      *)
(* close-on-exec: a child has those of every pipe open when it was forked. *)

\* Mutation of HoldsSink: the waiter does not close the sinks.
SinksLeftOpen(r) ==
    waiter[r] \in {"execute", "started", "waiting", "reaped", "done", "failed"}

HoldsSink(r) == waiter[r] \in {"execute", "started", "waiting", "reaped", "failed"}

EndOfFile(r) ==
    /\ pipe[r] = 0
    /\ ~ HoldsSink(r)
    /\ \A q \in Runners : child[q] = "running" => r \notin inherited[q]

Post(type, r) == events' = Append(events, [type |-> type, from |-> r])

-----------------------------------------------------------------------------
(* The waiter thread.                                                      *)

\* process::execute() forks, and returns when execve() has succeeded.
ExecSucceeds(r) ==
    /\ waiter[r] = "execute"
    /\ waiter' = [waiter EXCEPT ![r] = "started"]
    /\ child' = [child EXCEPT ![r] = "running"]
    /\ inherited' = [inherited EXCEPT ![r] = {q \in Runners : HoldsSink(q)}]
    /\ UNCHANGED <<mapVars, svc, stopped, pipe, written, jsVars, guiVars>>

\* fork() or execve() fails: the exception is stored in *e_ptr.
ExecFails(r) ==
    /\ waiter[r] = "execute"
    /\ waiter' = [waiter EXCEPT ![r] = "failed"]
    /\ UNCHANGED <<mapVars, svc, stopped, childVars, jsVars, guiVars>>

\* terminate_func = ...
SetTerminateFunc(r) ==
    /\ waiter[r] = "started"
    /\ waiter' = [waiter EXCEPT ![r] = "waiting"]
    /\ UNCHANGED <<mapVars, svc, stopped, childVars, jsVars, guiVars>>

\* wait_for_exit() returns: the child is reaped, the pid is free.
Reap(r) ==
    /\ waiter[r] = "waiting"
    /\ child[r] = "zombie"
    /\ waiter' = [waiter EXCEPT ![r] = "reaped"]
    /\ child' = [child EXCEPT ![r] = "reaped"]
    /\ UNCHANGED <<mapVars, svc, stopped, inherited, pipe, written, jsVars, guiVars>>

\* stdout_sink->close(); stderr_sink->close(); the thread ends.
CloseSinks(r) ==
    /\ waiter[r] = "reaped"
    /\ waiter' = [waiter EXCEPT ![r] = "done"]
    /\ UNCHANGED <<mapVars, svc, stopped, childVars, jsVars, guiVars>>

Waiter(r) ==
    \/ ExecSucceeds(r) \/ ExecFails(r) \/ SetTerminateFunc(r)
    \/ Reap(r) \/ CloseSinks(r)

-----------------------------------------------------------------------------
(* The child process.                                                      *)

Write(r) ==
    /\ child[r] = "running"
    /\ written[r] < MaxLines
    /\ written' = [written EXCEPT ![r] = @ + 1]
    /\ pipe' = [pipe EXCEPT ![r] = @ + 1]
    /\ UNCHANGED <<mapVars, threadVars, child, inherited, jsVars, guiVars>>

Exit(r) ==
    /\ child[r] = "running"
    /\ child' = [child EXCEPT ![r] = "zombie"]
    /\ UNCHANGED <<mapVars, threadVars, inherited, pipe, written, jsVars, guiVars>>

-----------------------------------------------------------------------------
(* The service thread, runService().                                       *)

\* Mutation of OnRead: the error code is not looked at.
OnReadUnchecked(r) ==
    /\ svc[r] = "reading"
    /\ ~ stopped[r]
    /\ pipe' = [pipe EXCEPT ![r] = @ - 1]
    /\ Post("read", r)
    /\ UNCHANGED <<mapVars, threadVars, child, inherited, written, heard, told, guiVars>>

\* onRead: post the line and read on.
OnRead(r) ==
    /\ svc[r] = "reading"
    /\ ~ stopped[r]
    /\ pipe[r] > 0
    /\ pipe' = [pipe EXCEPT ![r] = @ - 1]
    /\ Post("read", r)
    /\ UNCHANGED <<mapVars, threadVars, child, inherited, written, heard, told, guiVars>>

\* Mutation of ServiceReturns: the output is not read to its end.
ServiceReturnsEarly(r) ==
    /\ svc[r] = "reading"
    /\ stopped[r] \/ ~ HoldsSink(r)
    /\ svc' = [svc EXCEPT ![r] = "join"]
    /\ UNCHANGED <<mapVars, waiter, stopped, childVars, jsVars, guiVars>>

\* service.run() returns: nothing is left to read, or service.stop().
ServiceReturns(r) ==
    /\ svc[r] = "reading"
    /\ stopped[r] \/ EndOfFile(r)
    /\ svc' = [svc EXCEPT ![r] = "join"]
    /\ UNCHANGED <<mapVars, waiter, stopped, childVars, jsVars, guiVars>>

\* Mutation of PostTerminate: the event is posted without the join.
PostTerminateUnjoined(r) ==
    /\ svc[r] = "join"
    /\ svc' = [svc EXCEPT ![r] = "done"]
    /\ Post("terminate", r)
    /\ UNCHANGED <<mapVars, waiter, stopped, childVars, heard, told, guiVars>>

\* waitForExitThread.join(), then the TerminateEvent.
PostTerminate(r) ==
    /\ svc[r] = "join"
    /\ waiter[r] \in {"done", "failed"}
    /\ waiter' = [waiter EXCEPT ![r] = "joined"]
    /\ svc' = [svc EXCEPT ![r] = "done"]
    /\ Post("terminate", r)
    /\ UNCHANGED <<mapVars, stopped, childVars, heard, told, guiVars>>

Service(r) == OnRead(r) \/ ServiceReturns(r) \/ PostTerminate(r)

-----------------------------------------------------------------------------
(* The GUI thread: runCommand() and killCommand(), called by JavaScript.   *)

\* runCommand(c, args) of a name that is not in the map (else it returns
\* false): construct the runner, create the pipe, start the waiter.
RunCommand(c, r) ==
    /\ gui = "js"
    /\ processes[c] = None
    /\ cmd[r] = None
    /\ processes' = [processes EXCEPT ![c] = r]
    /\ cmd' = [cmd EXCEPT ![r] = c]
    /\ waiter' = [waiter EXCEPT ![r] = "execute"]
    /\ gui' = "starting"
    /\ current' = r
    /\ UNCHANGED <<svc, stopped, childVars, jsVars, handling, quitting>>

\* try_join_for(100 ms) succeeds and *e_ptr is set: run() throws,
\* runCommand() erases the entry and returns false.
RunThrows ==
    /\ gui = "starting"
    /\ waiter[current] = "failed"
    /\ waiter' = [waiter EXCEPT ![current] = "joined"]
    /\ stopped' = [stopped EXCEPT ![current] = TRUE]
    /\ processes' = [processes EXCEPT ![cmd[current]] = None]
    /\ gui' = "js"
    /\ current' = None
    /\ UNCHANGED <<cmd, svc, childVars, jsVars, handling, quitting>>

\* The join succeeds without an exception, or 100 ms have passed, wherever
\* the waiter is: run() starts to read, and runCommand() returns true.
RunReturns ==
    /\ gui = "starting"
    /\ waiter[current] # "failed"
    /\ svc' = [svc EXCEPT ![current] = "reading"]
    /\ gui' = "js"
    /\ current' = None
    /\ UNCHANGED <<mapVars, waiter, stopped, childVars, jsVars, handling, quitting>>

\* terminate_func() kills the child, if it has not been reaped.
Kill(r) == child' = [child EXCEPT ![r] = IF @ = "running" THEN "zombie" ELSE @]

TerminateFuncSet(r) == waiter[r] \notin {"none", "execute", "started", "failed"}

\* Mutation of Erase: the destructor does not stop the service.
EraseUnstopped(c) ==
    /\ processes' = [processes EXCEPT ![c] = None]
    /\ gui' = "joining"
    /\ current' = processes[c]
    /\ UNCHANGED stopped

\* processes.erase(): the entry goes, and ~ProcessRunner stops the service
\* and waits for the runner's threads.
Erase(c) ==
    /\ processes' = [processes EXCEPT ![c] = None]
    /\ stopped' = [stopped EXCEPT ![processes[c]] = TRUE]
    /\ gui' = "joining"
    /\ current' = processes[c]

\* Mutation of TerminateAndErase: the child is not killed.
EraseAlive(c) ==
    /\ TerminateFuncSet(processes[c])
    /\ Erase(c)
    /\ UNCHANGED <<cmd, waiter, svc, childVars>>

\* terminate(); erase(): as killCommand() and the TerminateEvent's handler
\* do for an entry of the map.
TerminateAndErase(c) ==
    /\ TerminateFuncSet(processes[c])
    /\ Kill(processes[c])
    /\ Erase(c)
    /\ UNCHANGED <<cmd, waiter, svc, inherited, pipe, written>>

\* terminate() calls an empty terminate_func: std::bad_function_call is no
\* system_error, and leaves the slot or the event handler uncaught.
BadFunctionCall(c) ==
    /\ ~ TerminateFuncSet(processes[c])
    /\ gui' = "crashed"
    /\ UNCHANGED <<mapVars, threadVars, childVars, current>>

KillCommand(c) ==
    /\ gui = "js"
    /\ processes[c] # None
    /\ TerminateAndErase(c) \/ BadFunctionCall(c)
    /\ UNCHANGED <<jsVars, handling, quitting>>

\* The runner's destructor has joined its service thread, which had joined
\* the waiter.
Joined ==
    /\ gui = "joining"
    /\ svc[current] = "done"
    /\ gui' = IF quitting THEN "closing" ELSE "js"
    /\ current' = None
    /\ UNCHANGED <<mapVars, threadVars, childVars, jsVars, handling, quitting>>

-----------------------------------------------------------------------------
(* The GUI thread: LobbyInterface::event().                                *)

\* ReadEvent: commandStream(cmd, line).
DeliverRead ==
    /\ gui = "js"
    /\ handling = None
    /\ events # <<>>
    /\ Head(events).type = "read"
    /\ heard' = [heard EXCEPT ![Head(events).from] = @ + 1]
    /\ events' = Tail(events)
    /\ UNCHANGED <<mapVars, threadVars, childVars, told, guiVars>>

\* TerminateEvent: first commandStream('exit', cmd, code), and JavaScript
\* may call any slot before the handler goes on.
DeliverTerminate ==
    /\ gui = "js"
    /\ handling = None
    /\ events # <<>>
    /\ Head(events).type = "terminate"
    /\ handling' = Head(events).from
    /\ told' = [told EXCEPT ![Head(events).from] = TRUE]
    /\ events' = Tail(events)
    /\ UNCHANGED <<mapVars, threadVars, childVars, heard, gui, current, quitting>>

\* Then the entry the map now has under the event's name is terminated and
\* erased, if there is one.
FinishTerminate ==
    /\ gui = "js"
    /\ handling # None
    /\ handling' = None
    /\ LET c == cmd[handling] IN
       \/ /\ processes[c] = None
          /\ UNCHANGED <<mapVars, threadVars, childVars, gui, current>>
       \/ /\ processes[c] # None
          /\ TerminateAndErase(c) \/ BadFunctionCall(c)
    /\ UNCHANGED <<jsVars, quitting>>

-----------------------------------------------------------------------------
(* The GUI thread at exit: the map's entries are destroyed, none is killed. *)

Quit ==
    /\ gui = "js"
    /\ handling = None
    /\ gui' = "closing"
    /\ quitting' = TRUE
    /\ UNCHANGED <<mapVars, threadVars, childVars, jsVars, current, handling>>

DestroyEntry(c) ==
    /\ gui = "closing"
    /\ processes[c] # None
    /\ Erase(c)
    /\ UNCHANGED <<cmd, waiter, svc, childVars, jsVars, handling, quitting>>

AllDestroyed ==
    /\ gui = "closing"
    /\ \A c \in Commands : processes[c] = None
    /\ gui' = "down"
    /\ UNCHANGED <<mapVars, threadVars, childVars, jsVars, current, handling, quitting>>

\* The program is gone; children that were orphaned do not matter any more.
Over == gui \in {"down", "crashed"} /\ UNCHANGED vars

-----------------------------------------------------------------------------
Next ==
    \/ /\ gui # "crashed"
       /\ \E r \in Runners : Waiter(r) \/ Service(r) \/ Write(r) \/ Exit(r)
    \/ \E c \in Commands, r \in Runners : RunCommand(c, r)
    \/ \E c \in Commands : KillCommand(c) \/ DestroyEntry(c)
    \/ RunThrows \/ RunReturns \/ Joined
    \/ DeliverRead \/ DeliverTerminate \/ FinishTerminate
    \/ Quit \/ AllDestroyed \/ Over

Spec == Init /\ [][Next]_vars

\* Every thread runs; the GUI thread leaves JavaScript's callbacks and
\* delivers the events.  Children need not exit.
Fairness ==
    /\ \A r \in Runners : WF_vars(Waiter(r)) /\ WF_vars(Service(r))
    /\ WF_vars(RunThrows \/ RunReturns \/ Joined \/ FinishTerminate
                 \/ AllDestroyed \/ \E c \in Commands : DestroyEntry(c))
    /\ WF_vars(DeliverRead \/ DeliverTerminate)

FairSpec == Spec /\ Fairness

\* What the properties of exits suppose: no child runs for ever.
ChildrenExit == \A r \in Runners : WF_vars(Exit(r))

-----------------------------------------------------------------------------
(* Properties.                                                             *)

\* A running child is never lost: it belongs to the entry of the map under
\* its own name, where killCommand() finds it, unless the GUI thread is in
\* its runner's destructor at exit.  Hence one child per name at most, and
\* none that outlives a program that comes to its end.
Killable ==
    \A r \in Runners :
        child[r] = "running" =>
            \/ cmd[r] # None /\ processes[cmd[r]] = r
            \/ quitting /\ gui = "joining" /\ current = r

\* JavaScript hears of a command's exit only after its child was reaped.
ExitAfterDeath ==
    \A r \in Runners : told[r] => child[r] \in {"none", "reaped"}

\* ... and, unless the command was killed, after every line of its output.
OutputBeforeExit ==
    [][\A r \in Runners :
          told'[r] /\ ~ told[r] => stopped[r] \/ heard[r] = written[r]]_vars

\* killCommand() and the TerminateEvent's handler return: their join never
\* waits for the output of a child that inherited the pipe.
KillReturns == gui = "joining" /\ ~ quitting ~> gui # "joining"

\* JavaScript is told of every child that terminates, once the other children
\* that hold the write ends of its pipes have terminated too.
ExitReported ==
    ChildrenExit =>
        \A r \in Runners :
            child[r] = "zombie" ~> told[r] \/ quitting \/ gui = "crashed"

\* Closing the program comes to an end, provided that the children do.
QuitCompletes == ChildrenExit => (quitting ~> gui = "down")

\* terminate() throws nothing but system_error, which it catches itself.
TerminateContained == gui # "crashed"

\* When JavaScript is told that a command has terminated, no child of that
\* name is running.
ExitIsOfTheRunningCommand ==
    [][handling' # None /\ handling' # handling =>
          \A r \in Runners :
              processes[cmd[handling']] = r => child[r] # "running"]_vars
=============================================================================
