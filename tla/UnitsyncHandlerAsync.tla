------------------------ MODULE UnitsyncHandlerAsync ------------------------
(***************************************************************************)
(* The asynchronous unitsync handlers: the map unitsyncs_async of          *)
(* LobbyInterface and, for each entry, the call queue filled by the GUI    *)
(* thread and emptied by a worker thread that runs the calls one at a time *)
(* under the process-wide executionMutex and posts their results as Qt     *)
(* events.                                                                 *)
(*                                                                         *)
(* The GUI thread runs the slots JavaScript calls (GetUnitsyncAsync, Call) *)
(* and, at exit, the destructors.  Each startThread() adds a worker; the   *)
(* handle workThread remembers only the last one, so a second              *)
(* getUnitsyncAsync() of the same path (the page was reloaded) leaves two  *)
(* workers on one queue and detaches the first (Boost.Thread's default     *)
(* version 2: assigning to a joinable boost::thread detaches it).          *)
(***************************************************************************)
EXTENDS Integers, Sequences, FiniteSets

CONSTANTS Handlers,   \* the library paths that do load, one handler per path
          Workers,    \* the threads startThread() may create
          None,       \* no thread, no call, no owner
          Reopen,     \* may JS ask again for a path that is already open?
          MaxCalls    \* bound on the calls submitted to one handler

ASSUME ConstantsAssumption ==
    /\ None \notin Handlers
    /\ None \notin Workers
    /\ None \notin Nat
    /\ Reopen \in BOOLEAN
    /\ MaxCalls \in Nat

VARIABLES
    entry,          \* [Handlers -> {"absent", "live", "destroyed"}], the map
    ready,          \* the member ready of each handler
    queue,          \* the member queue: numbers of the calls waiting
    submitted,      \* how many calls each handler has accepted
    results,        \* per handler, the ResultEvents posted, in post order
    dropped,        \* per handler, the calls the destructor discarded
    queueMutex,     \* per handler, the worker inside the critical section
    executionMutex, \* the static mutex: the worker running a call, or None
    thread,         \* the member workThread: the last worker started, or None
    owner,          \* [Workers -> handler whose loop the thread runs, or None]
    pc,             \* where each worker is in its loop
    func,           \* the call each worker has taken from the queue
    gui,            \* what the GUI thread is doing
    target          \* the handler whose destructor the GUI thread runs

handlerVars == <<entry, ready, queue, submitted, results, dropped>>
lockVars    == <<queueMutex, executionMutex>>
threadVars  == <<thread, owner, pc, func>>
guiVars     == <<gui, target>>
vars        == <<handlerVars, lockVars, threadVars, guiVars>>

WorkerStates == {"unborn", "test", "lock", "check", "block", "waiting",
                 "popped", "exec", "exit"}

TypeOK ==
    /\ entry \in [Handlers -> {"absent", "live", "destroyed"}]
    /\ ready \in [Handlers -> BOOLEAN]
    /\ queue \in [Handlers -> Seq(Nat)]
    /\ submitted \in [Handlers -> Nat]
    /\ results \in [Handlers -> Seq(Nat)]
    /\ dropped \in [Handlers -> SUBSET Nat]
    /\ queueMutex \in [Handlers -> Workers \cup {None}]
    /\ executionMutex \in Workers \cup {None}
    /\ thread \in [Handlers -> Workers \cup {None}]
    /\ owner \in [Workers -> Handlers \cup {None}]
    /\ pc \in [Workers -> WorkerStates]
    /\ func \in [Workers -> Nat \cup {None}]
    /\ gui \in {"run", "destroy", "notify", "join", "down", "undefined"}
    /\ target \in Handlers \cup {None}

Init ==
    /\ entry = [h \in Handlers |-> "absent"]
    /\ ready = [h \in Handlers |-> FALSE]
    /\ queue = [h \in Handlers |-> <<>>]
    /\ submitted = [h \in Handlers |-> 0]
    /\ results = [h \in Handlers |-> <<>>]
    /\ dropped = [h \in Handlers |-> {}]
    /\ queueMutex = [h \in Handlers |-> None]
    /\ executionMutex = None
    /\ thread = [h \in Handlers |-> None]
    /\ owner = [w \in Workers |-> None]
    /\ pc = [w \in Workers |-> "unborn"]
    /\ func = [w \in Workers |-> None]
    /\ gui = "run"
    /\ target = None

WorkersOf(h) == {w \in Workers : owner[w] = h}

\* queueCond.notify_all(): every waiting worker must take queueMutex again.
NotifyAll(h) ==
    pc' = [w \in Workers |-> IF owner[w] = h /\ pc[w] = "waiting"
                             THEN "lock" ELSE pc[w]]

-----------------------------------------------------------------------------
(* The GUI thread: slots called by JavaScript.                             *)

\* getUnitsyncAsync(path): the entry is constructed (dlopen, ready = true)
\* when absent, and startThread() adds a worker in either case, overwriting
\* workThread.  (A path that does not load leaves no trace: its entry is
\* erased again and JS gets NULL, so such a path is not in Handlers.)
GetUnitsyncAsync(h, w) ==
    /\ gui = "run"
    /\ pc[w] = "unborn"
    /\ \/ entry[h] = "absent"
       \/ entry[h] = "live" /\ Reopen
    /\ entry' = [entry EXCEPT ![h] = "live"]
    /\ ready' = [ready EXCEPT ![h] = TRUE]
    /\ owner' = [owner EXCEPT ![w] = h]
    /\ pc' = [pc EXCEPT ![w] = "test"]
    /\ thread' = [thread EXCEPT ![h] = w]
    /\ UNCHANGED <<queue, submitted, results, dropped, lockVars, func, guiVars>>

\* Mutation of Call: the push is not followed by notify_all().
CallSilent(h) ==
    /\ gui = "run"
    /\ entry[h] = "live"
    /\ queueMutex[h] = None
    /\ submitted[h] < MaxCalls
    /\ submitted' = [submitted EXCEPT ![h] = @ + 1]
    /\ queue' = [queue EXCEPT ![h] = Append(@, submitted[h] + 1)]
    /\ UNCHANGED <<entry, ready, results, dropped, lockVars, threadVars, guiVars>>

\* A unitsync method called from JS: push the call and notify, all while
\* queueMutex is held.  (A symbol missing from the library throws bad_fptr
\* before the push and changes nothing.)
Call(h) ==
    /\ gui = "run"
    /\ entry[h] = "live"
    /\ queueMutex[h] = None
    /\ submitted[h] < MaxCalls
    /\ submitted' = [submitted EXCEPT ![h] = @ + 1]
    /\ queue' = [queue EXCEPT ![h] = Append(@, submitted[h] + 1)]
    /\ NotifyAll(h)
    /\ UNCHANGED <<entry, ready, results, dropped, lockVars, thread, owner, func, guiVars>>

-----------------------------------------------------------------------------
(* A worker thread.  A worker of a destroyed handler has no defined step.  *)

AtStep(w, s) ==
    /\ pc[w] = s
    /\ entry[owner[w]] = "live"
    /\ gui # "undefined"

Goto(w, s) == pc' = [pc EXCEPT ![w] = s]

\* while (ready): read without the mutex.
TestReady(w) ==
    /\ AtStep(w, "test")
    /\ Goto(w, IF ready[owner[w]] THEN "lock" ELSE "exit")
    /\ UNCHANGED <<handlerVars, lockVars, thread, owner, func, guiVars>>

\* unique_lock on queueMutex, on entry and again after each wake-up.
LockQueue(w) ==
    /\ AtStep(w, "lock")
    /\ queueMutex[owner[w]] = None
    /\ queueMutex' = [queueMutex EXCEPT ![owner[w]] = w]
    /\ Goto(w, "check")
    /\ UNCHANGED <<handlerVars, executionMutex, thread, owner, func, guiVars>>

\* The predicate says there is nothing to do; the mutex is still held.
MustWait(w) ==
    /\ AtStep(w, "check")
    /\ ready[owner[w]]
    /\ queue[owner[w]] = <<>>
    /\ Goto(w, "block")
    /\ UNCHANGED <<handlerVars, lockVars, thread, owner, func, guiVars>>

Unlock(w) == queueMutex' = [queueMutex EXCEPT ![owner[w]] = None]

\* queueCond.wait(): releases the mutex and sleeps, in one step.
Wait(w) ==
    /\ AtStep(w, "block")
    /\ Unlock(w)
    /\ Goto(w, "waiting")
    /\ UNCHANGED <<handlerVars, executionMutex, thread, owner, func, guiVars>>

\* A condition variable may wake up without a notification.
SpuriousWakeup(w) ==
    /\ AtStep(w, "waiting")
    /\ Goto(w, "lock")
    /\ UNCHANGED <<handlerVars, lockVars, thread, owner, func, guiVars>>

\* if (!ready) break;
Break(w) ==
    /\ AtStep(w, "check")
    /\ ~ ready[owner[w]]
    /\ Unlock(w)
    /\ Goto(w, "exit")
    /\ UNCHANGED <<handlerVars, executionMutex, thread, owner, func, guiVars>>

\* Mutation of Pop: queue.front() without queue.pop().
PopKeepingFront(w) ==
    /\ AtStep(w, "check")
    /\ ready[owner[w]]
    /\ queue[owner[w]] # <<>>
    /\ func' = [func EXCEPT ![w] = Head(queue[owner[w]])]
    /\ Unlock(w)
    /\ Goto(w, "popped")
    /\ UNCHANGED <<handlerVars, executionMutex, thread, owner, guiVars>>

\* Mutation of Pop: the queue is used as a stack.
PopBack(w) ==
    LET q == queue[owner[w]] IN
    /\ AtStep(w, "check")
    /\ ready[owner[w]]
    /\ q # <<>>
    /\ func' = [func EXCEPT ![w] = q[Len(q)]]
    /\ queue' = [queue EXCEPT ![owner[w]] = SubSeq(q, 1, Len(q) - 1)]
    /\ Unlock(w)
    /\ Goto(w, "popped")
    /\ UNCHANGED <<entry, ready, submitted, results, dropped, executionMutex,
                   thread, owner, guiVars>>

\* func = queue.front(); queue.pop(); and the lock's scope ends.
Pop(w) ==
    /\ AtStep(w, "check")
    /\ ready[owner[w]]
    /\ queue[owner[w]] # <<>>
    /\ func' = [func EXCEPT ![w] = Head(queue[owner[w]])]
    /\ queue' = [queue EXCEPT ![owner[w]] = Tail(@)]
    /\ Unlock(w)
    /\ Goto(w, "popped")
    /\ UNCHANGED <<entry, ready, submitted, results, dropped, executionMutex,
                   thread, owner, guiVars>>

\* Mutation of BeginCall: the mutex is not shared by the workers.
BeginCallUnlocked(w) ==
    /\ AtStep(w, "popped")
    /\ executionMutex' = w
    /\ Goto(w, "exec")
    /\ UNCHANGED <<handlerVars, queueMutex, thread, owner, func, guiVars>>

\* lock_guard on executionMutex, then the library call begins.
BeginCall(w) ==
    /\ AtStep(w, "popped")
    /\ executionMutex = None
    /\ executionMutex' = w
    /\ Goto(w, "exec")
    /\ UNCHANGED <<handlerVars, queueMutex, thread, owner, func, guiVars>>

\* Mutation of EndCall: func is reset before its result is posted.
EndCallReset(w) ==
    /\ AtStep(w, "exec")
    /\ func' = [func EXCEPT ![w] = None]
    /\ results' = [results EXCEPT ![owner[w]] = Append(@, func'[w])]
    /\ executionMutex' = None
    /\ Goto(w, "test")
    /\ UNCHANGED <<entry, ready, queue, submitted, dropped, queueMutex,
                   thread, owner, guiVars>>

\* The library call returns, its ResultEvent is posted, the mutex released.
EndCall(w) ==
    /\ AtStep(w, "exec")
    /\ results' = [results EXCEPT ![owner[w]] = Append(@, func[w])]
    /\ func' = [func EXCEPT ![w] = None]
    /\ executionMutex' = None
    /\ Goto(w, "test")
    /\ UNCHANGED <<entry, ready, queue, submitted, dropped, queueMutex,
                   thread, owner, guiVars>>

Worker(w) ==
    \/ TestReady(w) \/ LockQueue(w) \/ MustWait(w) \/ Wait(w)
    \/ Break(w) \/ Pop(w) \/ BeginCall(w) \/ EndCall(w)

-----------------------------------------------------------------------------
(* The GUI thread at exit: ~LobbyInterface destroys the map's entries.     *)

Shutdown ==
    /\ gui = "run"
    /\ gui' = "destroy"
    /\ UNCHANGED <<handlerVars, lockVars, threadVars, target>>

\* Mutation of ClearQueue: ready is cleared without taking queueMutex.
ClearQueueUnlocked(h) ==
    /\ gui = "destroy"
    /\ entry[h] = "live"
    /\ dropped' = [dropped EXCEPT ![h] = {queue[h][i] : i \in DOMAIN queue[h]}]
    /\ queue' = [queue EXCEPT ![h] = <<>>]
    /\ ready' = [ready EXCEPT ![h] = FALSE]
    /\ gui' = "notify"
    /\ target' = h
    /\ UNCHANGED <<entry, submitted, results, lockVars, threadVars>>

\* ~UnitsyncHandlerAsync, under queueMutex: discard the queue, clear ready.
ClearQueue(h) ==
    /\ gui = "destroy"
    /\ entry[h] = "live"
    /\ queueMutex[h] = None
    /\ dropped' = [dropped EXCEPT ![h] = {queue[h][i] : i \in DOMAIN queue[h]}]
    /\ queue' = [queue EXCEPT ![h] = <<>>]
    /\ ready' = [ready EXCEPT ![h] = FALSE]
    /\ gui' = "notify"
    /\ target' = h
    /\ UNCHANGED <<entry, submitted, results, lockVars, threadVars>>

\* queueCond.notify_all(), after the mutex has been released.
NotifyExit ==
    /\ gui = "notify"
    /\ NotifyAll(target)
    /\ gui' = "join"
    /\ UNCHANGED <<handlerVars, lockVars, thread, owner, func, target>>

\* Mutation of JoinAndClose: the thread is not joined.
CloseWithoutJoin ==
    /\ gui = "join"
    /\ entry' = [entry EXCEPT ![target] = "destroyed"]
    /\ gui' = "destroy"
    /\ target' = None
    /\ UNCHANGED <<ready, queue, submitted, results, dropped, lockVars, threadVars>>

\* workThread.join(), dlclose() and the end of the members' lifetime.
JoinAndClose ==
    /\ gui = "join"
    /\ thread[target] # None => pc[thread[target]] = "exit"
    /\ entry' = [entry EXCEPT ![target] = "destroyed"]
    /\ gui' = "destroy"
    /\ target' = None
    /\ UNCHANGED <<ready, queue, submitted, results, dropped, lockVars, threadVars>>

AllDestroyed ==
    /\ gui = "destroy"
    /\ \A h \in Handlers : entry[h] # "live"
    /\ gui' = "down"
    /\ UNCHANGED <<handlerVars, lockVars, threadVars, target>>

Destructor ==
    \/ \E h \in Handlers : ClearQueue(h)
    \/ NotifyExit \/ JoinAndClose \/ AllDestroyed

\* The process has left main(), or its behaviour is no longer defined.
Stopped == gui \in {"down", "undefined"} /\ UNCHANGED vars

\* A worker still in its loop touches the members of its destroyed handler,
\* or returns into the unloaded library.
UseAfterDestroy(w) ==
    /\ gui \in {"destroy", "notify", "join"}
    /\ pc[w] # "exit"
    /\ owner[w] # None
    /\ entry[owner[w]] = "destroyed"
    /\ gui' = "undefined"
    /\ UNCHANGED <<handlerVars, lockVars, threadVars, target>>

-----------------------------------------------------------------------------
Next ==
    \/ \E h \in Handlers, w \in Workers : GetUnitsyncAsync(h, w)
    \/ \E h \in Handlers : Call(h)
    \/ \E w \in Workers : Worker(w) \/ SpuriousWakeup(w)
    \/ Shutdown
    \/ Destructor
    \/ \E w \in Workers : UseAfterDestroy(w)
    \/ Stopped

Spec == Init /\ [][Next]_vars

\* The scheduler runs every thread; a mutex that is released again and again
\* is eventually granted to each thread that asks for it.  Library calls
\* return.  JavaScript need not do anything, and nobody need quit.
Fairness ==
    /\ \A w \in Workers :
          /\ WF_vars(TestReady(w) \/ MustWait(w) \/ Wait(w) \/ Break(w) \/ Pop(w) \/ EndCall(w))
          /\ SF_vars(LockQueue(w))
          /\ SF_vars(BeginCall(w))
    /\ \A h \in Handlers : SF_vars(ClearQueue(h))
    /\ WF_vars(NotifyExit \/ JoinAndClose \/ AllDestroyed)

FairSpec == Spec /\ Fairness

-----------------------------------------------------------------------------
(* Properties.                                                             *)

Single(h) == \A v, w \in WorkersOf(h) : v = w

Queued(h)  == {queue[h][i] : i \in DOMAIN queue[h]}
Posted(h)  == {results[h][i] : i \in DOMAIN results[h]}
Holding(h) == {w \in WorkersOf(h) : func[w] # None}
Taken(h)   == {func[w] : w \in Holding(h)}

\* unitsync is not reentrant: whatever the number of handlers and of workers,
\* two worker threads are never inside a library call together.
OneCallAtATime ==
    \A v, w \in Workers : pc[v] = "exec" /\ pc[w] = "exec" => v = w

\* Every call a handler accepted is in exactly one place: waiting in the
\* queue, taken by one worker, answered once, or discarded at exit; so no
\* promise of the page is resolved twice and none is forgotten.
ExactlyOnce ==
    \A h \in Handlers :
        /\ 1..submitted[h] = Queued(h) \cup Taken(h) \cup Posted(h) \cup dropped[h]
        /\ submitted[h] = Len(queue[h]) + Cardinality(Holding(h))
                            + Len(results[h]) + Cardinality(dropped[h])

\* The results of a handler that was opened once are posted in the order the
\* page made the calls (a second worker breaks this: it can pop the later
\* call and win the race to executionMutex).
FifoUnlessReopened ==
    \A h \in Handlers :
        Single(h) => \A i \in DOMAIN results[h] : results[h][i] = i

\* No wake-up is lost: a worker neither sleeps nor is about to sleep while
\* its queue has work, nor once the destructor has notified it.
NoLostWakeup ==
    \A w \in Workers :
        pc[w] \in {"block", "waiting"} /\ gui # "undefined" =>
            \/ ready[owner[w]] /\ queue[owner[w]] = <<>>
            \/ gui = "notify" /\ target = owner[w]
            \/ entry[owner[w]] = "destroyed"

\* The destructor outlives the handler's thread: after dlclose() and the end
\* of the members no worker of the handler runs, unless the path was opened
\* twice, when the join misses the detached first worker.
JoinedUnlessReopened ==
    \A w \in Workers :
        owner[w] # None /\ entry[owner[w]] = "destroyed" /\ Single(owner[w])
            => pc[w] = "exit"

\* Every accepted call is answered, unless the program is closed first.
CallsAnswered ==
    \A h \in Handlers : \A n \in 1..MaxCalls :
        n <= submitted[h] ~> n \in Posted(h) \/ gui # "run"

\* Closing the window ends: no handler's destructor waits for ever, however
\* the workers are placed in their loops (when every path was opened once).
ShutdownCompletes ==
    gui = "destroy" /\ (\A h \in Handlers : Single(h)) ~> gui = "down"

-----------------------------------------------------------------------------
(* The abstract service each handler implements.                           *)

phaseOf == [h \in Handlers |-> IF entry[h] = "absent" THEN "absent"
                               ELSE IF ready[h] THEN "open" ELSE "closed"]

\* The call the handler's thread has taken is still pending.
inService == [h \in Handlers |->
    IF thread[h] = None THEN <<>>
    ELSE IF func[thread[h]] = None THEN <<>> ELSE <<func[thread[h]]>>]

Service == INSTANCE CallService WITH
    phase   <- phaseOf,
    issued  <- submitted,
    pending <- [h \in Handlers |-> inService[h] \o queue[h]],
    answers <- results

\* A handler that is never reopened is a first-in first-out call service.
ServiceRefinement == Service!Spec

\* ... and it keeps serving: every call it has taken or queued is answered,
\* until its queue is discarded at exit.
ServiceProgress == Service!FairSpec
=============================================================================
