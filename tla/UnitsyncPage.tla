---------------------------- MODULE UnitsyncPage ----------------------------
(***************************************************************************)
(* The page, the workers and the GUI thread around one unitsync library:   *)
(* promises and their ids, asynchronous calls executed under               *)
(* executionMutex, synchronous calls executed without it, the library's    *)
(* one buffer for results, and the reload of the page (F5), which starts   *)
(* the ids again and asks for another worker, while the old page's calls   *)
(* are still queued.  UnitsyncHandlerAsync has the workers' loop in detail. *)
(***************************************************************************)
EXTENDS Integers, Sequences, FiniteSets

CONSTANTS Workers, MaxCalls, MaxReloads \* the threads, the bounds on the page

ASSUME PageAssumption == MaxCalls \in Nat /\ MaxReloads \in Nat

VARIABLES
    page,     \* the number of reloads before the page that is shown
    loading,  \* its scripts do not run yet
    opened,   \* it has called getUnitsyncAsync()
    nextId,   \* the next id of _.uniqueId()
    promises, \* the call each id is awaited for, or 0
    made,     \* history: the page that made each call, in order
    queue,    \* the calls the handler has queued
    started,  \* the workers that empty it
    at,       \* where each is: "idle", "holds" a call, "inside" the library
    holds,    \* the call it holds
    gui,      \* the synchronous call the GUI thread is in, or 0
    buffer,   \* the call whose result the library's buffer holds
    events,   \* the ResultEvents posted
    mixed,    \* history: has a synchronous call met an asynchronous one?
    settled   \* history: calls with the call whose result they got

pageVars == <<page, loading, opened, nextId, promises>>
workVars == <<queue, started, at, holds>>
vars     == <<pageVars, made, workVars, gui, buffer, events, mixed, settled>>

Calls    == 1..MaxCalls
Ids      == 1..MaxCalls
Requests == [id : Ids, call : Calls]

TypeOK ==
    /\ page \in 0..MaxReloads
    /\ loading \in BOOLEAN /\ opened \in BOOLEAN /\ mixed \in BOOLEAN
    /\ nextId \in 1..(MaxCalls + 1)
    /\ promises \in [Ids -> 0..MaxCalls]
    /\ made \in Seq(0..MaxReloads) /\ Len(made) <= MaxCalls
    /\ queue \in Seq(Requests) /\ events \in Seq(Requests)
    /\ started \in SUBSET Workers
    /\ at \in [Workers -> {"idle", "holds", "inside"}]
    /\ holds \in [Workers -> [id : 0..MaxCalls, call : 0..MaxCalls]]
    /\ gui \in 0..MaxCalls /\ buffer \in 0..MaxCalls
    /\ settled \in SUBSET [call : Calls, got : Calls]

Nothing == [id |-> 0, call |-> 0]

Init ==
    /\ page = 0 /\ loading = TRUE /\ opened = FALSE
    /\ nextId = 1 /\ promises = [i \in Ids |-> 0]
    /\ made = <<>>
    /\ queue = <<>> /\ started = {}
    /\ at = [w \in Workers |-> "idle"] /\ holds = [w \in Workers |-> Nothing]
    /\ gui = 0 /\ buffer = 0 /\ events = <<>> /\ mixed = FALSE /\ settled = {}

\* JavaScript, and all slots and events, run on the GUI thread.
Scripts == ~ loading /\ gui = 0
NewCall == Len(made) + 1

-----------------------------------------------------------------------------
(* The page.                                                               *)

Loaded ==
    /\ loading /\ gui = 0
    /\ loading' = FALSE
    /\ UNCHANGED <<page, opened, nextId, promises, made, workVars, gui, buffer, events, mixed,
                   settled>>

\* getUnitsyncAsync(): startThread(), also on the handler of an old page.
Open(w) ==
    /\ Scripts /\ ~ opened
    /\ w \notin started
    /\ opened' = TRUE
    /\ started' = started \cup {w}
    /\ UNCHANGED <<page, loading, nextId, promises, made, queue, at, holds, gui, buffer, events,
                   mixed, settled>>

\* Mutation of CallAsync: an id is drawn for the slot and another for the promise.
CallAsyncTwice ==
    /\ Scripts /\ opened
    /\ Len(made) < MaxCalls
    /\ made' = Append(made, page)
    /\ queue' = Append(queue, [id |-> nextId + 1, call |-> NewCall])
    /\ promises' = [promises EXCEPT ![nextId] = NewCall]
    /\ nextId' = nextId + 2
    /\ UNCHANGED <<page, loading, opened, started, at, holds, gui, buffer, events, mixed, settled>>

\* The generated JavaScript wrapper: an id, the slot, the promise.
CallAsync ==
    /\ Scripts /\ opened
    /\ Len(made) < MaxCalls
    /\ made' = Append(made, page)
    /\ queue' = Append(queue, [id |-> nextId, call |-> NewCall])
    /\ promises' = [promises EXCEPT ![nextId] = NewCall]
    /\ nextId' = nextId + 1
    /\ UNCHANGED <<page, loading, opened, started, at, holds, gui, buffer, events, mixed, settled>>

\* F5: of the page nothing is left; of its calls, all.
Reload ==
    /\ gui = 0 /\ page < MaxReloads
    /\ page' = page + 1 /\ loading' = TRUE /\ opened' = FALSE
    /\ nextId' = 1 /\ promises' = [i \in Ids |-> 0]
    /\ UNCHANGED <<made, workVars, gui, buffer, events, mixed, settled>>

\* unitsyncResult() of the page, whose scripts are not in the repository: whatever
\* page there is, it settles the promise of that id and unsubscribes it; a result
\* nobody awaits is dropped, and so is any while the page loads.
Resolved(e) ==
    LET heard == ~ loading /\ promises[e.id] # 0
    IN /\ settled' = IF heard THEN settled \cup {[call |-> promises[e.id], got |-> e.call]}
                     ELSE settled
       /\ promises' = IF heard THEN [promises EXCEPT ![e.id] = 0] ELSE promises

\* The ResultEvent at the head of the queue is evaluated as a script.
Deliver ==
    /\ gui = 0 /\ events # <<>>
    /\ Resolved(Head(events))
    /\ events' = Tail(events)
    /\ UNCHANGED <<page, loading, opened, nextId, made, workVars, gui, buffer, mixed>>

-----------------------------------------------------------------------------
(* Calls of the library: each leaves its result in the buffer and then     *)
(* copies it into a string.                                                *)

Inside == {w \in Workers : at[w] = "inside"}

\* A synchronous slot takes no lock.
SyncBegin ==
    /\ Scripts
    /\ Len(made) < MaxCalls
    /\ made' = Append(made, page)
    /\ gui' = NewCall /\ buffer' = NewCall
    /\ mixed' = (mixed \/ Inside # {})
    /\ UNCHANGED <<pageVars, workVars, events, settled>>

SyncEnd ==
    /\ gui # 0
    /\ settled' = settled \cup {[call |-> gui, got |-> buffer]}
    /\ gui' = 0
    /\ UNCHANGED <<pageVars, made, workVars, buffer, events, mixed>>

Take(w) ==
    /\ w \in started /\ at[w] = "idle" /\ queue # <<>>
    /\ holds' = [holds EXCEPT ![w] = Head(queue)]
    /\ queue' = Tail(queue)
    /\ at' = [at EXCEPT ![w] = "holds"]
    /\ UNCHANGED <<pageVars, made, started, gui, buffer, events, mixed, settled>>

\* Mutation of Enter: a mutex for each worker.
EnterUnlocked(w) ==
    /\ at[w] = "holds"
    /\ at' = [at EXCEPT ![w] = "inside"]
    /\ buffer' = holds[w].call
    /\ mixed' = (mixed \/ gui # 0)
    /\ UNCHANGED <<pageVars, made, queue, started, holds, gui, events, settled>>

\* executionMutex is free.
Enter(w) ==
    /\ at[w] = "holds" /\ Inside = {}
    /\ at' = [at EXCEPT ![w] = "inside"]
    /\ buffer' = holds[w].call
    /\ mixed' = (mixed \/ gui # 0)
    /\ UNCHANGED <<pageVars, made, queue, started, holds, gui, events, settled>>

\* Mutation of Leave: a NULL result is not posted.
LeaveSilent(w) ==
    /\ at[w] = "inside"
    /\ holds' = [holds EXCEPT ![w] = Nothing]
    /\ at' = [at EXCEPT ![w] = "idle"]
    /\ events' \in {events, Append(events, [id |-> holds[w].id, call |-> buffer])}
    /\ UNCHANGED <<pageVars, made, queue, started, gui, buffer, mixed, settled>>

\* The result is copied and posted while the mutex is still held.
Leave(w) ==
    /\ at[w] = "inside"
    /\ holds' = [holds EXCEPT ![w] = Nothing]
    /\ at' = [at EXCEPT ![w] = "idle"]
    /\ events' = Append(events, [id |-> holds[w].id, call |-> buffer])
    /\ UNCHANGED <<pageVars, made, queue, started, gui, buffer, mixed, settled>>

Work(w) == Take(w) \/ Enter(w) \/ Leave(w)

-----------------------------------------------------------------------------
\* The page makes no more calls.
Quiet == Len(made) = MaxCalls /\ page = MaxReloads /\ UNCHANGED vars

Next ==
    \/ Loaded \/ (\E w \in Workers : Open(w)) \/ CallAsync \/ Reload \/ Deliver
    \/ SyncBegin \/ SyncEnd
    \/ (\E w \in Workers : Work(w))
    \/ Quiet

Spec == Init /\ [][Next]_vars

\* The event loop delivers events, pages load, the library returns, workers
\* are scheduled and get the mutex.
Fairness ==
    /\ WF_vars(Deliver) /\ WF_vars(Loaded) /\ WF_vars(SyncEnd)
    /\ \A w \in Workers : WF_vars(Take(w) \/ Leave(w)) /\ SF_vars(Enter(w))

FairSpec == Spec /\ Fairness

-----------------------------------------------------------------------------
(* Properties.                                                             *)

\* A call gets its own result, however many workers empty the queue, unless a
\* synchronous call and an asynchronous one have been in the library together,
\* or the result was left over from a page before and had the same id.  A page
\* that is never reloaded and keeps to one kind of handler is safe.
ResultIsOwn ==
    \A s \in settled : s.got = s.call \/ mixed \/ made[s.got] < made[s.call]

\* Every promise is settled, or the page that made it is gone.
EveryPromiseSettles ==
    \A i \in Ids : promises[i] # 0 ~> promises[i] = 0
=============================================================================
