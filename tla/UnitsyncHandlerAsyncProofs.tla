--------------------- MODULE UnitsyncHandlerAsyncProofs ---------------------
(***************************************************************************)
(* Theorems about the asynchronous unitsync handlers, for any number of    *)
(* handlers, workers and calls, reopened paths included.                   *)
(***************************************************************************)
EXTENDS UnitsyncHandlerAsync, TLAPS

\* A thread has an owner from the moment it is started, and a func exactly
\* between queue.pop() and the end of the call; a destructor has a target.
ThreadInv ==
    /\ \A w \in Workers : owner[w] = None <=> pc[w] = "unborn"
    /\ \A w \in Workers : func[w] = None <=> pc[w] \notin {"popped", "exec"}
    /\ gui \in {"notify", "join"} => target \in Handlers

TypeInv == TypeOK /\ ThreadInv

-----------------------------------------------------------------------------
(* Types.                                                                  *)

\* No thread runs and no path is open at first.
LEMMA InitTypeInv == Init => TypeInv
  BY ConstantsAssumption DEF Init, TypeInv, TypeOK, ThreadInv, WorkerStates

\* Every step keeps the types: a worker past "unborn" has an owner, and what
\* EndCall posts is a call, never the empty func.
LEMMA NextTypeInv == TypeInv /\ [Next]_vars => TypeInv'
<1> SUFFICES ASSUME TypeInv, [Next]_vars
             PROVE  TypeInv'
  OBVIOUS
<1> USE ConstantsAssumption
    DEF TypeInv, TypeOK, ThreadInv, WorkerStates, vars, handlerVars, lockVars,
        threadVars, guiVars, AtStep, Goto, Unlock, NotifyAll
<1>1. ASSUME NEW h \in Handlers, NEW w \in Workers, GetUnitsyncAsync(h, w)
      PROVE  TypeInv'
  BY <1>1 DEF GetUnitsyncAsync
<1>2. ASSUME NEW h \in Handlers, Call(h)
      PROVE  TypeInv'
  BY <1>2 DEF Call
<1>3. ASSUME NEW w \in Workers, TestReady(w)
      PROVE  TypeInv'
  BY <1>3 DEF TestReady
<1>4. ASSUME NEW w \in Workers, LockQueue(w)
      PROVE  TypeInv'
  BY <1>4 DEF LockQueue
<1>5. ASSUME NEW w \in Workers, MustWait(w)
      PROVE  TypeInv'
  BY <1>5 DEF MustWait
<1>6. ASSUME NEW w \in Workers, Wait(w)
      PROVE  TypeInv'
  BY <1>6 DEF Wait
<1>7. ASSUME NEW w \in Workers, SpuriousWakeup(w)
      PROVE  TypeInv'
  BY <1>7 DEF SpuriousWakeup
<1>8. ASSUME NEW w \in Workers, Break(w)
      PROVE  TypeInv'
  BY <1>8 DEF Break
<1>9. ASSUME NEW w \in Workers, Pop(w)
      PROVE  TypeInv'
  BY <1>9 DEF Pop
<1>10. ASSUME NEW w \in Workers, BeginCall(w)
       PROVE  TypeInv'
  BY <1>10 DEF BeginCall
<1>11. ASSUME NEW w \in Workers, EndCall(w)
       PROVE  TypeInv'
  BY <1>11 DEF EndCall
<1>12. ASSUME Shutdown
       PROVE  TypeInv'
  BY <1>12 DEF Shutdown
<1>13. ASSUME NEW h \in Handlers, ClearQueue(h)
       PROVE  TypeInv'
  BY <1>13 DEF ClearQueue
<1>14. ASSUME NotifyExit
       PROVE  TypeInv'
  BY <1>14 DEF NotifyExit
<1>15. ASSUME JoinAndClose
       PROVE  TypeInv'
  BY <1>15 DEF JoinAndClose
<1>16. ASSUME AllDestroyed
       PROVE  TypeInv'
  BY <1>16 DEF AllDestroyed
<1>17. ASSUME NEW w \in Workers, UseAfterDestroy(w)
       PROVE  TypeInv'
  BY <1>17 DEF UseAfterDestroy
<1>18. CASE UNCHANGED vars
  BY <1>18
<1> QED
  BY <1>1, <1>2, <1>3, <1>4, <1>5, <1>6, <1>7, <1>8, <1>9, <1>10, <1>11,
     <1>12, <1>13, <1>14, <1>15, <1>16, <1>17, <1>18
     DEF Next, Worker, Destructor, Stopped

\* Every variable of the handlers, the workers and the GUI thread keeps its
\* type; in particular only numbers of calls are ever posted as results.
THEOREM TypeCorrect == Spec => []TypeOK
<1>1. TypeInv => TypeOK
  BY DEF TypeInv
<1> QED
  BY <1>1, InitTypeInv, NextTypeInv, PTL DEF Spec
-----------------------------------------------------------------------------
(* Mutual exclusion.                                                       *)

\* A mutex is held by the worker between its lock and its unlock, and by
\* nobody else.
LockInv ==
    /\ \A w \in Workers : pc[w] = "exec" <=> executionMutex = w
    /\ \A w \in Workers : pc[w] \in {"check", "block"} => queueMutex[owner[w]] = w
    /\ \A h \in Handlers, w \in Workers :
          queueMutex[h] = w => owner[w] = h /\ pc[w] \in {"check", "block"}

\* No mutex is held before a thread is started.
LEMMA InitLockInv == Init => LockInv
  BY ConstantsAssumption DEF Init, LockInv

\* A step that takes or releases a mutex moves the worker's pc with it.
LEMMA NextLockInv == TypeInv /\ LockInv /\ [Next]_vars => LockInv'
<1> SUFFICES ASSUME TypeInv /\ LockInv, [Next]_vars
             PROVE  LockInv'
  OBVIOUS
<1> USE ConstantsAssumption
    DEF TypeInv, TypeOK, ThreadInv, WorkerStates, vars, handlerVars, lockVars,
        threadVars, guiVars, AtStep, Goto, Unlock, NotifyAll, LockInv
<1>1. ASSUME NEW h \in Handlers, NEW w \in Workers, GetUnitsyncAsync(h, w)
      PROVE  LockInv'
  BY <1>1 DEF GetUnitsyncAsync
<1>2. ASSUME NEW h \in Handlers, Call(h)
      PROVE  LockInv'
  BY <1>2 DEF Call
<1>3. ASSUME NEW w \in Workers, TestReady(w)
      PROVE  LockInv'
  BY <1>3 DEF TestReady
<1>4. ASSUME NEW w \in Workers, LockQueue(w)
      PROVE  LockInv'
  BY <1>4 DEF LockQueue
<1>5. ASSUME NEW w \in Workers, MustWait(w)
      PROVE  LockInv'
  BY <1>5 DEF MustWait
<1>6. ASSUME NEW w \in Workers, Wait(w)
      PROVE  LockInv'
  BY <1>6 DEF Wait
<1>7. ASSUME NEW w \in Workers, SpuriousWakeup(w)
      PROVE  LockInv'
  BY <1>7 DEF SpuriousWakeup
<1>8. ASSUME NEW w \in Workers, Break(w)
      PROVE  LockInv'
  BY <1>8 DEF Break
<1>9. ASSUME NEW w \in Workers, Pop(w)
      PROVE  LockInv'
  BY <1>9 DEF Pop
<1>10. ASSUME NEW w \in Workers, BeginCall(w)
       PROVE  LockInv'
  BY <1>10 DEF BeginCall
<1>11. ASSUME NEW w \in Workers, EndCall(w)
       PROVE  LockInv'
  BY <1>11 DEF EndCall
<1>12. ASSUME Shutdown
       PROVE  LockInv'
  BY <1>12 DEF Shutdown
<1>13. ASSUME NEW h \in Handlers, ClearQueue(h)
       PROVE  LockInv'
  BY <1>13 DEF ClearQueue
<1>14. ASSUME NotifyExit
       PROVE  LockInv'
  BY <1>14 DEF NotifyExit
<1>15. ASSUME JoinAndClose
       PROVE  LockInv'
  BY <1>15 DEF JoinAndClose
<1>16. ASSUME AllDestroyed
       PROVE  LockInv'
  BY <1>16 DEF AllDestroyed
<1>17. ASSUME NEW w \in Workers, UseAfterDestroy(w)
       PROVE  LockInv'
  BY <1>17 DEF UseAfterDestroy
<1>18. CASE UNCHANGED vars
  BY <1>18
<1> QED
  BY <1>1, <1>2, <1>3, <1>4, <1>5, <1>6, <1>7, <1>8, <1>9,
     <1>10, <1>11, <1>12, <1>13, <1>14, <1>15, <1>16, <1>17, <1>18
     DEF Next, Worker, Destructor, Stopped

\* Two workers, of the same handler or of different ones, are never inside
\* the library together: the mutex is static, not a member.
THEOREM MutualExclusion == Spec => []OneCallAtATime
<1>1. LockInv => OneCallAtATime
  BY DEF LockInv, OneCallAtATime
<1> QED
  BY <1>1, InitTypeInv, NextTypeInv, InitLockInv, NextLockInv, PTL DEF Spec
-----------------------------------------------------------------------------
(* The destructor and the wake-ups.                                        *)

\* A handler is ready exactly while it is live and not being destroyed, and
\* only a ready handler has calls waiting.
CloseInv ==
    /\ \A w \in Workers : owner[w] # None => entry[owner[w]] # "absent"
    /\ \A h \in Handlers : ready[h] => entry[h] = "live"
    /\ \A h \in Handlers : ~ ready[h] => queue[h] = <<>>
    /\ \A h \in Handlers :
          entry[h] = "live" /\ ~ ready[h] =>
              gui \in {"notify", "join", "undefined"} /\ target = h
    /\ gui \in {"notify", "join"} => entry[target] = "live" /\ ~ ready[target]

\* No destructor has run at first.
LEMMA InitCloseInv == Init => CloseInv
  BY ConstantsAssumption DEF Init, CloseInv

\* The GUI thread destroys one handler at a time, and starts none meanwhile.
LEMMA NextCloseInv == TypeInv /\ CloseInv /\ [Next]_vars => CloseInv'
<1> SUFFICES ASSUME TypeInv /\ CloseInv, [Next]_vars
             PROVE  CloseInv'
  OBVIOUS
<1> USE ConstantsAssumption
    DEF TypeInv, TypeOK, ThreadInv, WorkerStates, vars, handlerVars, lockVars,
        threadVars, guiVars, AtStep, Goto, Unlock, NotifyAll, CloseInv
<1>1. ASSUME NEW h \in Handlers, NEW w \in Workers, GetUnitsyncAsync(h, w)
      PROVE  CloseInv'
  BY <1>1 DEF GetUnitsyncAsync
<1>2. ASSUME NEW h \in Handlers, Call(h)
      PROVE  CloseInv'
  BY <1>2 DEF Call
<1>3. ASSUME NEW w \in Workers, TestReady(w)
      PROVE  CloseInv'
  BY <1>3 DEF TestReady
<1>4. ASSUME NEW w \in Workers, LockQueue(w)
      PROVE  CloseInv'
  BY <1>4 DEF LockQueue
<1>5. ASSUME NEW w \in Workers, MustWait(w)
      PROVE  CloseInv'
  BY <1>5 DEF MustWait
<1>6. ASSUME NEW w \in Workers, Wait(w)
      PROVE  CloseInv'
  BY <1>6 DEF Wait
<1>7. ASSUME NEW w \in Workers, SpuriousWakeup(w)
      PROVE  CloseInv'
  BY <1>7 DEF SpuriousWakeup
<1>8. ASSUME NEW w \in Workers, Break(w)
      PROVE  CloseInv'
  BY <1>8 DEF Break
<1>9. ASSUME NEW w \in Workers, Pop(w)
      PROVE  CloseInv'
  BY <1>9 DEF Pop
<1>10. ASSUME NEW w \in Workers, BeginCall(w)
       PROVE  CloseInv'
  BY <1>10 DEF BeginCall
<1>11. ASSUME NEW w \in Workers, EndCall(w)
       PROVE  CloseInv'
  BY <1>11 DEF EndCall
<1>12. ASSUME Shutdown
       PROVE  CloseInv'
  BY <1>12 DEF Shutdown
<1>13. ASSUME NEW h \in Handlers, ClearQueue(h)
       PROVE  CloseInv'
  BY <1>13 DEF ClearQueue
<1>14. ASSUME NotifyExit
       PROVE  CloseInv'
  BY <1>14 DEF NotifyExit
<1>15. ASSUME JoinAndClose
       PROVE  CloseInv'
  BY <1>15 DEF JoinAndClose
<1>16. ASSUME AllDestroyed
       PROVE  CloseInv'
  BY <1>16 DEF AllDestroyed
<1>17. ASSUME NEW w \in Workers, UseAfterDestroy(w)
       PROVE  CloseInv'
  BY <1>17 DEF UseAfterDestroy
<1>18. CASE UNCHANGED vars
  BY <1>18
<1> QED
  BY <1>1, <1>2, <1>3, <1>4, <1>5, <1>6, <1>7, <1>8, <1>9,
     <1>10, <1>11, <1>12, <1>13, <1>14, <1>15, <1>16, <1>17, <1>18
     DEF Next, Worker, Destructor, Stopped

\* A worker between its test of the predicate and the wait still has the
\* queue it tested: queueMutex keeps the calls and the destructor away.
WakeInv ==
    /\ \A w \in Workers :
          pc[w] = "block" => ready[owner[w]] /\ queue[owner[w]] = <<>>
    /\ NoLostWakeup

\* Nobody sleeps at first.
LEMMA InitWakeInv == Init => WakeInv
  BY ConstantsAssumption DEF Init, WakeInv, NoLostWakeup

\* Each push and the destructor's notification reach the sleeping workers.
LEMMA NextWakeInv == TypeInv /\ LockInv /\ CloseInv /\ WakeInv /\ [Next]_vars => WakeInv'
<1> SUFFICES ASSUME TypeInv /\ LockInv /\ CloseInv /\ WakeInv, [Next]_vars
             PROVE  WakeInv'
  OBVIOUS
<1> USE ConstantsAssumption
    DEF TypeInv, TypeOK, ThreadInv, WorkerStates, vars, handlerVars, lockVars,
        threadVars, guiVars, AtStep, Goto, Unlock, NotifyAll, LockInv,
        CloseInv, WakeInv, NoLostWakeup
<1>1. ASSUME NEW h \in Handlers, NEW w \in Workers, GetUnitsyncAsync(h, w)
      PROVE  WakeInv'
  BY <1>1 DEF GetUnitsyncAsync
<1>2. ASSUME NEW h \in Handlers, Call(h)
      PROVE  WakeInv'
  BY <1>2 DEF Call
<1>3. ASSUME NEW w \in Workers, TestReady(w)
      PROVE  WakeInv'
  BY <1>3 DEF TestReady
<1>4. ASSUME NEW w \in Workers, LockQueue(w)
      PROVE  WakeInv'
  BY <1>4 DEF LockQueue
<1>5. ASSUME NEW w \in Workers, MustWait(w)
      PROVE  WakeInv'
  BY <1>5 DEF MustWait
<1>6. ASSUME NEW w \in Workers, Wait(w)
      PROVE  WakeInv'
  BY <1>6 DEF Wait
<1>7. ASSUME NEW w \in Workers, SpuriousWakeup(w)
      PROVE  WakeInv'
  BY <1>7 DEF SpuriousWakeup
<1>8. ASSUME NEW w \in Workers, Break(w)
      PROVE  WakeInv'
  BY <1>8 DEF Break
<1>9. ASSUME NEW w \in Workers, Pop(w)
      PROVE  WakeInv'
  <2>1. \A v \in Workers : owner[v] = owner[w] => pc[v] \notin {"block", "waiting"}
    BY <1>9 DEF Pop
  <2>2. SUFFICES ASSUME NEW v \in Workers, pc'[v] \in {"block", "waiting"}
                 PROVE  /\ pc'[v] = "block" => ready'[owner'[v]] /\ queue'[owner'[v]] = <<>>
                        /\ gui' # "undefined" =>
                             \/ ready'[owner'[v]] /\ queue'[owner'[v]] = <<>>
                             \/ gui' = "notify" /\ target' = owner'[v]
                             \/ entry'[owner'[v]] = "destroyed"
    OBVIOUS
  <2>3. v # w /\ pc[v] = pc'[v] /\ owner[v] # owner[w]
    BY <1>9, <2>1, <2>2 DEF Pop
  <2>4. queue'[owner[v]] = queue[owner[v]]
    BY <1>9, <2>3 DEF Pop
  <2> QED
    BY <1>9, <2>2, <2>3, <2>4 DEF Pop
<1>10. ASSUME NEW w \in Workers, BeginCall(w)
       PROVE  WakeInv'
  BY <1>10 DEF BeginCall
<1>11. ASSUME NEW w \in Workers, EndCall(w)
       PROVE  WakeInv'
  BY <1>11 DEF EndCall
<1>12. ASSUME Shutdown
       PROVE  WakeInv'
  BY <1>12 DEF Shutdown
<1>13. ASSUME NEW h \in Handlers, ClearQueue(h)
       PROVE  WakeInv'
  BY <1>13 DEF ClearQueue
<1>14. ASSUME NotifyExit
       PROVE  WakeInv'
  BY <1>14 DEF NotifyExit
<1>15. ASSUME JoinAndClose
       PROVE  WakeInv'
  BY <1>15 DEF JoinAndClose
<1>16. ASSUME AllDestroyed
       PROVE  WakeInv'
  BY <1>16 DEF AllDestroyed
<1>17. ASSUME NEW w \in Workers, UseAfterDestroy(w)
       PROVE  WakeInv'
  BY <1>17 DEF UseAfterDestroy
<1>18. CASE UNCHANGED vars
  BY <1>18
<1> QED
  BY <1>1, <1>2, <1>3, <1>4, <1>5, <1>6, <1>7, <1>8, <1>9,
     <1>10, <1>11, <1>12, <1>13, <1>14, <1>15, <1>16, <1>17, <1>18
     DEF Next, Worker, Destructor, Stopped

\* No worker sleeps, or is about to, while its queue has work or once its
\* destructor has called notify_all(), wherever the GUI thread interleaves.
THEOREM WakeupsDelivered == Spec => []NoLostWakeup
<1>1. WakeInv => NoLostWakeup
  BY DEF WakeInv
<1> QED
  BY <1>1, InitTypeInv, NextTypeInv, InitLockInv, NextLockInv, InitCloseInv,
     NextCloseInv, InitWakeInv, NextWakeInv, PTL DEF Spec

-----------------------------------------------------------------------------
(* The end of a worker.                                                    *)

\* While a handler has one worker, workThread is that worker.
JoinInv ==
    /\ \A w \in Workers :
          owner[w] # None /\ Single(owner[w]) => thread[owner[w]] = w
    /\ JoinedUnlessReopened

\* Nothing has been joined at first.
LEMMA InitJoinInv == Init => JoinInv
  BY ConstantsAssumption DEF Init, JoinInv, JoinedUnlessReopened

\* The join waits for the worker; no worker of a destroyed handler moves.
LEMMA NextJoinInv == TypeInv /\ CloseInv /\ JoinInv /\ [Next]_vars => JoinInv'
<1> SUFFICES ASSUME TypeInv /\ CloseInv /\ JoinInv, [Next]_vars
             PROVE  JoinInv'
  OBVIOUS
<1> USE ConstantsAssumption
    DEF TypeInv, TypeOK, ThreadInv, WorkerStates, vars, handlerVars, lockVars,
        threadVars, guiVars, AtStep, Goto, Unlock, NotifyAll, CloseInv,
        JoinInv, JoinedUnlessReopened, Single, WorkersOf
<1>1. ASSUME NEW h \in Handlers, NEW w \in Workers, GetUnitsyncAsync(h, w)
      PROVE  JoinInv'
  <2>1. /\ owner' = [owner EXCEPT ![w] = h]
        /\ thread' = [thread EXCEPT ![h] = w]
        /\ pc' = [pc EXCEPT ![w] = "test"]
        /\ entry' = [entry EXCEPT ![h] = "live"]
    BY <1>1 DEF GetUnitsyncAsync
  <2>2. SUFFICES ASSUME NEW v \in Workers, owner'[v] # None, Single(owner[v])'
                 PROVE  /\ thread'[owner'[v]] = v
                        /\ entry'[owner'[v]] = "destroyed" => pc'[v] = "exit"
    OBVIOUS
  <2>3. CASE v = w
    BY <2>1, <2>3
  <2>4. CASE v # w
    <3>1. owner'[v] = owner[v] /\ pc'[v] = pc[v]
      BY <2>1, <2>4
    <3>2. owner[v] # h
      BY <2>1, <2>2, <2>4, <3>1
    <3>3. owner[w] = None /\ owner[v] # None
      BY <1>1, <2>2, <3>1 DEF GetUnitsyncAsync
    <3>4. \A x \in Workers : owner[x] = owner[v] => owner'[x] = owner'[v]
      BY <2>1, <3>1, <3>3
    <3>5. \A x, y \in Workers : owner'[x] = owner'[v] /\ owner'[y] = owner'[v] => x = y
      BY <2>2, <3>1
    <3>6. Single(owner[v])
      BY <3>4, <3>5
    <3> QED
      BY <2>1, <2>2, <3>1, <3>2, <3>6
  <2> QED
    BY <2>3, <2>4
<1>2. ASSUME NEW h \in Handlers, Call(h)
      PROVE  JoinInv'
  BY <1>2 DEF Call
<1>3. ASSUME NEW w \in Workers, TestReady(w)
      PROVE  JoinInv'
  BY <1>3 DEF TestReady
<1>4. ASSUME NEW w \in Workers, LockQueue(w)
      PROVE  JoinInv'
  BY <1>4 DEF LockQueue
<1>5. ASSUME NEW w \in Workers, MustWait(w)
      PROVE  JoinInv'
  BY <1>5 DEF MustWait
<1>6. ASSUME NEW w \in Workers, Wait(w)
      PROVE  JoinInv'
  BY <1>6 DEF Wait
<1>7. ASSUME NEW w \in Workers, SpuriousWakeup(w)
      PROVE  JoinInv'
  BY <1>7 DEF SpuriousWakeup
<1>8. ASSUME NEW w \in Workers, Break(w)
      PROVE  JoinInv'
  BY <1>8 DEF Break
<1>9. ASSUME NEW w \in Workers, Pop(w)
      PROVE  JoinInv'
  BY <1>9, SMTT(30) DEF Pop
<1>10. ASSUME NEW w \in Workers, BeginCall(w)
       PROVE  JoinInv'
  BY <1>10 DEF BeginCall
<1>11. ASSUME NEW w \in Workers, EndCall(w)
       PROVE  JoinInv'
  BY <1>11 DEF EndCall
<1>12. ASSUME Shutdown
       PROVE  JoinInv'
  BY <1>12 DEF Shutdown
<1>13. ASSUME NEW h \in Handlers, ClearQueue(h)
       PROVE  JoinInv'
  BY <1>13 DEF ClearQueue
<1>14. ASSUME NotifyExit
       PROVE  JoinInv'
  BY <1>14 DEF NotifyExit
<1>15. ASSUME JoinAndClose
       PROVE  JoinInv'
  <2>1. /\ entry' = [entry EXCEPT ![target] = "destroyed"]
        /\ thread[target] # None => pc[thread[target]] = "exit"
        /\ UNCHANGED <<thread, owner, pc>>
        /\ target \in Handlers
    BY <1>15 DEF JoinAndClose
  <2>2. SUFFICES ASSUME NEW w \in Workers, owner[w] # None, Single(owner[w])
                 PROVE  /\ thread[owner[w]] = w
                        /\ entry'[owner[w]] = "destroyed" => pc[w] = "exit"
    BY <2>1
  <2>3. thread[owner[w]] = w
    BY <2>2
  <2> QED
    BY <2>1, <2>2, <2>3
<1>16. ASSUME AllDestroyed
       PROVE  JoinInv'
  BY <1>16 DEF AllDestroyed
<1>17. ASSUME NEW w \in Workers, UseAfterDestroy(w)
       PROVE  JoinInv'
  BY <1>17 DEF UseAfterDestroy
<1>18. CASE UNCHANGED vars
  BY <1>18
<1> QED
  BY <1>1, <1>2, <1>3, <1>4, <1>5, <1>6, <1>7, <1>8, <1>9,
     <1>10, <1>11, <1>12, <1>13, <1>14, <1>15, <1>16, <1>17, <1>18
     DEF Next, Worker, Destructor, Stopped

\* A handler opened once is never destroyed, nor its library closed, under a
\* worker that is still in its loop.
THEOREM Joined == Spec => []JoinedUnlessReopened
<1>1. JoinInv => JoinedUnlessReopened
  BY DEF JoinInv
<1> QED
  BY <1>1, InitTypeInv, NextTypeInv, InitCloseInv, NextCloseInv, InitJoinInv,
     NextJoinInv, PTL DEF Spec
-----------------------------------------------------------------------------
(* The order of the results.                                               *)

\* workThread is a worker of its handler from the first startThread() on.
OpenedInv ==
    /\ \A h \in Handlers :
          entry[h] = "absent" => /\ thread[h] = None /\ submitted[h] = 0
                                 /\ queue[h] = <<>> /\ results[h] = <<>>
    /\ \A h \in Handlers :
          entry[h] # "absent" => thread[h] \in Workers /\ owner[thread[h]] = h

\* The queue holds the last calls submitted, oldest first.
QueueInv ==
    \A h \in Handlers : \A i \in DOMAIN queue[h] :
        queue[h][i] = submitted[h] - Len(queue[h]) + i

ServedOf(w, h) ==
    /\ func[w] # None => func[w] = Len(results[h]) + 1
    /\ ready[h] /\ func[w] = None =>
          submitted[h] = Len(queue[h]) + Len(results[h])
    /\ ready[h] /\ func[w] # None =>
          submitted[h] = Len(queue[h]) + Len(results[h]) + 1

\* The only worker of a handler has the call after the last one answered,
\* and nothing is missing between its call and the queue.
ServedInv ==
    \A w \in Workers :
        owner[w] # None /\ Single(owner[w]) =>
            ServedOf(w, owner[w])

\* The tail of the last n - k, ..., n is the last n - k + 1, ..., n.
LEMMA TailSegment ==
  ASSUME NEW q \in Seq(Nat), q # <<>>, NEW n \in Nat,
         \A i \in DOMAIN q : q[i] = n - Len(q) + i
  PROVE  \A i \in DOMAIN Tail(q) : Tail(q)[i] = n - Len(Tail(q)) + i
<1>1. Len(q) \in Nat /\ Len(q) > 0 /\ DOMAIN q = 1..Len(q)
  OBVIOUS
<1>2. Tail(q) \in Seq(Nat) /\ Len(Tail(q)) = Len(q) - 1
  BY <1>1
<1>3. DOMAIN Tail(q) = 1..(Len(q) - 1)
  BY <1>2
<1>4. \A i \in 1..(Len(q) - 1) : Tail(q)[i] = q[i + 1]
  BY <1>1
<1>5. ASSUME NEW i \in 1..(Len(q) - 1)
      PROVE  q[i + 1] = n - (Len(q) - 1) + i
  <2>1. i \in Nat /\ i + 1 \in DOMAIN q
    BY <1>1, <1>5
  <2>2. q[i + 1] = n - Len(q) + (i + 1)
    BY <2>1
  <2> QED
    BY <1>1, <2>1, <2>2
<1> QED
  BY <1>2, <1>3, <1>4, <1>5

\* Both summands of a length that grows by one.
LEMMA SumSuccLeft ==
  ASSUME NEW a \in Nat, NEW b \in Nat, NEW c, c = a + 1
  PROVE  a + b + 1 = c + b
  OBVIOUS

\* ... and from the right.
LEMMA SumSuccRight ==
  ASSUME NEW a \in Nat, NEW b \in Nat, NEW c, c = a + 1
  PROVE  b + a + 1 = b + c
  OBVIOUS

FifoInv == OpenedInv /\ QueueInv /\ ServedInv /\ FifoUnlessReopened

\* There are no calls and no results at first.
LEMMA InitFifoInv == Init => FifoInv
  BY ConstantsAssumption
     DEF Init, FifoInv, OpenedInv, QueueInv, ServedInv, ServedOf,
         FifoUnlessReopened

\* A handler's first worker is started when its entry is made.
LEMMA NextOpenedInv == TypeInv /\ CloseInv /\ OpenedInv /\ [Next]_vars => OpenedInv'
<1> SUFFICES ASSUME TypeInv /\ CloseInv /\ OpenedInv, [Next]_vars
             PROVE  OpenedInv'
  OBVIOUS
<1> USE ConstantsAssumption
    DEF TypeInv, TypeOK, ThreadInv, WorkerStates, vars, handlerVars, lockVars,
        threadVars, guiVars, AtStep, Goto, Unlock, NotifyAll, CloseInv,
        OpenedInv
<1>1. ASSUME NEW h \in Handlers, NEW w \in Workers, GetUnitsyncAsync(h, w)
      PROVE  OpenedInv'
  BY <1>1 DEF GetUnitsyncAsync
<1>2. ASSUME NEW h \in Handlers, Call(h)
      PROVE  OpenedInv'
  BY <1>2 DEF Call
<1>3. ASSUME NEW w \in Workers, TestReady(w)
      PROVE  OpenedInv'
  BY <1>3 DEF TestReady
<1>4. ASSUME NEW w \in Workers, LockQueue(w)
      PROVE  OpenedInv'
  BY <1>4 DEF LockQueue
<1>5. ASSUME NEW w \in Workers, MustWait(w)
      PROVE  OpenedInv'
  BY <1>5 DEF MustWait
<1>6. ASSUME NEW w \in Workers, Wait(w)
      PROVE  OpenedInv'
  BY <1>6 DEF Wait
<1>7. ASSUME NEW w \in Workers, SpuriousWakeup(w)
      PROVE  OpenedInv'
  BY <1>7 DEF SpuriousWakeup
<1>8. ASSUME NEW w \in Workers, Break(w)
      PROVE  OpenedInv'
  BY <1>8 DEF Break
<1>9. ASSUME NEW w \in Workers, Pop(w)
      PROVE  OpenedInv'
  BY <1>9 DEF Pop
<1>10. ASSUME NEW w \in Workers, BeginCall(w)
       PROVE  OpenedInv'
  BY <1>10 DEF BeginCall
<1>11. ASSUME NEW w \in Workers, EndCall(w)
       PROVE  OpenedInv'
  BY <1>11 DEF EndCall
<1>12. ASSUME Shutdown
       PROVE  OpenedInv'
  BY <1>12 DEF Shutdown
<1>13. ASSUME NEW h \in Handlers, ClearQueue(h)
       PROVE  OpenedInv'
  BY <1>13 DEF ClearQueue
<1>14. ASSUME NotifyExit
       PROVE  OpenedInv'
  BY <1>14 DEF NotifyExit
<1>15. ASSUME JoinAndClose
       PROVE  OpenedInv'
  BY <1>15 DEF JoinAndClose
<1>16. ASSUME AllDestroyed
       PROVE  OpenedInv'
  BY <1>16 DEF AllDestroyed
<1>17. ASSUME NEW w \in Workers, UseAfterDestroy(w)
       PROVE  OpenedInv'
  BY <1>17 DEF UseAfterDestroy
<1>18. CASE UNCHANGED vars
  BY <1>18
<1> QED
  BY <1>1, <1>2, <1>3, <1>4, <1>5, <1>6, <1>7, <1>8, <1>9,
     <1>10, <1>11, <1>12, <1>13, <1>14, <1>15, <1>16, <1>17, <1>18
     DEF Next, Worker, Destructor, Stopped

\* Calls are pushed at the back and popped at the front.
LEMMA NextQueueInv == TypeInv /\ CloseInv /\ QueueInv /\ [Next]_vars => QueueInv'
<1> SUFFICES ASSUME TypeInv /\ CloseInv /\ QueueInv, [Next]_vars
             PROVE  QueueInv'
  OBVIOUS
<1> USE ConstantsAssumption
    DEF TypeInv, TypeOK, ThreadInv, WorkerStates, vars, handlerVars, lockVars,
        threadVars, guiVars, AtStep, Goto, Unlock, NotifyAll, CloseInv,
        QueueInv
<1>1. ASSUME NEW h \in Handlers, NEW w \in Workers, GetUnitsyncAsync(h, w)
      PROVE  QueueInv'
  BY <1>1 DEF GetUnitsyncAsync
<1>2. ASSUME NEW h \in Handlers, Call(h)
      PROVE  QueueInv'
  BY <1>2, SMTT(30) DEF Call
<1>3. ASSUME NEW w \in Workers, TestReady(w)
      PROVE  QueueInv'
  BY <1>3 DEF TestReady
<1>4. ASSUME NEW w \in Workers, LockQueue(w)
      PROVE  QueueInv'
  BY <1>4 DEF LockQueue
<1>5. ASSUME NEW w \in Workers, MustWait(w)
      PROVE  QueueInv'
  BY <1>5 DEF MustWait
<1>6. ASSUME NEW w \in Workers, Wait(w)
      PROVE  QueueInv'
  BY <1>6 DEF Wait
<1>7. ASSUME NEW w \in Workers, SpuriousWakeup(w)
      PROVE  QueueInv'
  BY <1>7 DEF SpuriousWakeup
<1>8. ASSUME NEW w \in Workers, Break(w)
      PROVE  QueueInv'
  BY <1>8 DEF Break
<1>9. ASSUME NEW w \in Workers, Pop(w)
      PROVE  QueueInv'
  <2>1. /\ owner[w] \in Handlers
        /\ queue[owner[w]] \in Seq(Nat) /\ queue[owner[w]] # <<>>
        /\ queue' = [queue EXCEPT ![owner[w]] = Tail(queue[owner[w]])]
        /\ submitted' = submitted /\ submitted[owner[w]] \in Nat
    BY <1>9 DEF Pop
  <2>2. \A i \in DOMAIN Tail(queue[owner[w]]) :
           Tail(queue[owner[w]])[i]
             = submitted[owner[w]] - Len(Tail(queue[owner[w]])) + i
    <3>1. \A i \in DOMAIN queue[owner[w]] :
             queue[owner[w]][i] = submitted[owner[w]] - Len(queue[owner[w]]) + i
      BY <2>1
    <3> QED
      BY <2>1, <3>1, TailSegment, ZenonT(60)
  <2> QED
    BY <2>1, <2>2, SMTT(30)
<1>10. ASSUME NEW w \in Workers, BeginCall(w)
       PROVE  QueueInv'
  BY <1>10 DEF BeginCall
<1>11. ASSUME NEW w \in Workers, EndCall(w)
       PROVE  QueueInv'
  BY <1>11 DEF EndCall
<1>12. ASSUME Shutdown
       PROVE  QueueInv'
  BY <1>12 DEF Shutdown
<1>13. ASSUME NEW h \in Handlers, ClearQueue(h)
       PROVE  QueueInv'
  BY <1>13 DEF ClearQueue
<1>14. ASSUME NotifyExit
       PROVE  QueueInv'
  BY <1>14 DEF NotifyExit
<1>15. ASSUME JoinAndClose
       PROVE  QueueInv'
  BY <1>15 DEF JoinAndClose
<1>16. ASSUME AllDestroyed
       PROVE  QueueInv'
  BY <1>16 DEF AllDestroyed
<1>17. ASSUME NEW w \in Workers, UseAfterDestroy(w)
       PROVE  QueueInv'
  BY <1>17 DEF UseAfterDestroy
<1>18. CASE UNCHANGED vars
  BY <1>18
<1> QED
  BY <1>1, <1>2, <1>3, <1>4, <1>5, <1>6, <1>7, <1>8, <1>9,
     <1>10, <1>11, <1>12, <1>13, <1>14, <1>15, <1>16, <1>17, <1>18
     DEF Next, Worker, Destructor, Stopped

\* Starting a worker of a handler leaves it single only if it had none.
LEMMA SingleBefore ==
  ASSUME NEW h \in Handlers, NEW w \in Workers, GetUnitsyncAsync(h, w), TypeInv,
         NEW g \in Handlers, Single(g)'
  PROVE  Single(g) /\ (g = h => WorkersOf(g) = {})
<1>1. owner[w] = None /\ owner' = [owner EXCEPT ![w] = h]
  BY DEF GetUnitsyncAsync, TypeInv, TypeOK, ThreadInv
<1>2. owner \in [Workers -> Handlers \cup {None}]
  BY DEF TypeInv, TypeOK
<1>3. \A v \in Workers : owner[v] = g => owner'[v] = g /\ v # w
  BY <1>1, <1>2, ConstantsAssumption
<1>4. Single(g)
  BY <1>3 DEF Single, WorkersOf
<1>5. ASSUME g = h, NEW v \in Workers, owner[v] = g
      PROVE  FALSE
  <2>1. owner'[w] = g /\ owner'[v] = g /\ v # w
    BY <1>1, <1>2, <1>3, <1>5
  <2> QED
    BY <2>1 DEF Single, WorkersOf
<1> QED
  BY <1>4, <1>5 DEF WorkersOf

\* The only worker of a handler answers the calls one after the other.
LEMMA NextServedInv == TypeInv /\ OpenedInv /\ QueueInv /\ ServedInv /\ [Next]_vars => ServedInv'
<1> SUFFICES ASSUME TypeInv /\ OpenedInv /\ QueueInv /\ ServedInv, [Next]_vars
             PROVE  ServedInv'
  OBVIOUS
<1> USE ConstantsAssumption
    DEF vars, handlerVars, lockVars, threadVars, guiVars
<1>0. UNCHANGED <<owner, func, results, ready, submitted, queue>> => ServedInv'
  <2>1. SUFFICES ASSUME UNCHANGED <<owner, func, results, ready, submitted, queue>>,
                        NEW w \in Workers, owner[w] # None, Single(owner[w])
                 PROVE  ServedOf(w, owner[w])'
    BY DEF ServedInv, Single, WorkersOf
  <2>2. ServedOf(w, owner[w])
    BY <2>1 DEF ServedInv
  <2> QED
    BY <2>1, <2>2 DEF ServedOf
<1>1. ASSUME NEW h \in Handlers, NEW w \in Workers, GetUnitsyncAsync(h, w)
      PROVE  ServedInv'
  <2>1. SUFFICES ASSUME NEW v \in Workers, owner'[v] # None, Single(owner[v])'
                 PROVE  ServedOf(v, owner[v])'
    BY DEF ServedInv
  <2>2. /\ owner' = [owner EXCEPT ![w] = h] /\ pc[w] = "unborn"
        /\ ready' = [ready EXCEPT ![h] = TRUE]
        /\ entry[h] \in {"absent", "live"}
        /\ UNCHANGED <<queue, submitted, results, func>>
    BY <1>1 DEF GetUnitsyncAsync
  <2>3. /\ owner \in [Workers -> Handlers \cup {None}]
        /\ ready \in [Handlers -> BOOLEAN]
        /\ owner[w] = None /\ func[w] = None
    BY <2>2 DEF TypeInv, TypeOK, ThreadInv
  <2>4. CASE v = w
    <3>1. owner'[v] = h
      BY <2>2, <2>3, <2>4
    <3>2. WorkersOf(h) = {}
      BY <1>1, <2>1, <3>1, SingleBefore
    <3>3. entry[h] = "absent"
      BY <3>2 DEF OpenedInv, WorkersOf
    <3>4. submitted[h] = 0 /\ queue[h] = <<>> /\ results[h] = <<>>
      BY <3>3 DEF OpenedInv
    <3>5. func'[v] = None /\ owner'[v] = h /\ submitted'[h] = 0
      BY <2>2, <2>3, <2>4, <3>1, <3>4
    <3>6. Len(queue'[h]) = 0 /\ Len(results'[h]) = 0
      BY <2>2, <3>4
    <3> QED
      BY <3>5, <3>6 DEF ServedOf
  <2>5. CASE v # w
    <3>1. owner'[v] = owner[v] /\ owner[v] \in Handlers
      BY <2>1, <2>2, <2>3, <2>5
    <3>2. Single(owner[v]) /\ owner[v] # h
      BY <1>1, <2>1, <3>1, SingleBefore DEF WorkersOf
    <3>3. ServedOf(v, owner[v]) /\ ready'[owner[v]] = ready[owner[v]]
      BY <2>2, <2>3, <3>1, <3>2 DEF ServedInv
    <3> QED
      BY <2>2, <3>1, <3>3 DEF ServedOf
  <2> QED
    BY <2>4, <2>5
<1>2. ASSUME NEW h \in Handlers, Call(h)
      PROVE  ServedInv'
  <2>1. SUFFICES ASSUME NEW v \in Workers, owner[v] # None, Single(owner[v])
                 PROVE  ServedOf(v, owner[v])'
    BY <1>2 DEF Call, ServedInv, Single, WorkersOf
  <2>2. ServedOf(v, owner[v]) /\ owner[v] \in Handlers
    BY <2>1 DEF ServedInv, TypeInv, TypeOK
  <2>3. /\ submitted' = [submitted EXCEPT ![h] = submitted[h] + 1]
        /\ queue' = [queue EXCEPT ![h] = Append(queue[h], submitted[h] + 1)]
        /\ UNCHANGED <<ready, results, owner, func>>
    BY <1>2 DEF Call
  <2>4. /\ submitted[h] \in Nat /\ submitted'[h] = submitted[h] + 1
        /\ Len(results[h]) \in Nat /\ Len(queue[h]) \in Nat
        /\ Len(queue'[h]) = Len(queue[h]) + 1
    BY <2>3 DEF TypeInv, TypeOK
  <2>5. \A g \in Handlers : g # h => queue'[g] = queue[g] /\ submitted'[g] = submitted[g]
    BY <2>3 DEF TypeInv, TypeOK
  <2>6. CASE owner[v] = h
    <3>1. /\ func[v] # None => func[v] = Len(results[h]) + 1
          /\ ready[h] /\ func[v] = None => submitted'[h] = Len(queue'[h]) + Len(results[h])
          /\ ready[h] /\ func[v] # None => submitted'[h] = Len(queue'[h]) + Len(results[h]) + 1
      <4>1. ServedOf(v, h)
        BY <2>2, <2>6
      <4>2. Len(queue[h]) + Len(results[h]) + 1 = Len(queue'[h]) + Len(results[h])
        BY <2>4, SumSuccLeft
      <4>3. Len(queue[h]) + Len(results[h]) + 1 + 1 = Len(queue'[h]) + Len(results[h]) + 1
        BY <4>2, Zenon
      <4> QED
        BY <2>4, <4>1, <4>2, <4>3, Zenon DEF ServedOf
    <3> QED
      BY <2>3, <2>6, <3>1 DEF ServedOf
  <2>7. CASE owner[v] # h
    BY <2>2, <2>3, <2>5, <2>7 DEF ServedOf
  <2> QED
    BY <2>6, <2>7
<1>3. ASSUME NEW w \in Workers, TestReady(w)
      PROVE  ServedInv'
  BY <1>3, <1>0 DEF TestReady
<1>4. ASSUME NEW w \in Workers, LockQueue(w)
      PROVE  ServedInv'
  BY <1>4, <1>0 DEF LockQueue
<1>5. ASSUME NEW w \in Workers, MustWait(w)
      PROVE  ServedInv'
  BY <1>5, <1>0 DEF MustWait
<1>6. ASSUME NEW w \in Workers, Wait(w)
      PROVE  ServedInv'
  BY <1>6, <1>0 DEF Wait
<1>7. ASSUME NEW w \in Workers, SpuriousWakeup(w)
      PROVE  ServedInv'
  BY <1>7, <1>0 DEF SpuriousWakeup
<1>8. ASSUME NEW w \in Workers, Break(w)
      PROVE  ServedInv'
  BY <1>8, <1>0 DEF Break
<1>9. ASSUME NEW w \in Workers, Pop(w)
      PROVE  ServedInv'
  <2>1. SUFFICES ASSUME NEW v \in Workers, owner[v] # None, Single(owner[v])
                 PROVE  ServedOf(v, owner[v])'
    BY <1>9 DEF Pop, ServedInv, Single, WorkersOf
  <2>2. ServedOf(v, owner[v]) /\ owner[v] \in Handlers
    BY <2>1 DEF ServedInv, TypeInv, TypeOK
  <2>3. /\ func' = [func EXCEPT ![w] = Head(queue[owner[w]])]
        /\ queue' = [queue EXCEPT ![owner[w]] = Tail(queue[owner[w]])]
        /\ queue[owner[w]] # <<>> /\ ready[owner[w]] /\ pc[w] = "check"
        /\ UNCHANGED <<ready, results, submitted, owner>>
    BY <1>9 DEF Pop, AtStep
  <2>4. /\ owner[w] \in Handlers /\ func[w] = None
        /\ func \in [Workers -> Nat \cup {None}] /\ queue \in [Handlers -> Seq(Nat)]
    BY <2>3 DEF TypeInv, TypeOK, ThreadInv, WorkerStates
  <2>5. CASE v = w
    <3> DEFINE q == queue[owner[w]]
               n == submitted[owner[w]]
               k == Len(results[owner[w]])
    <3>1. n = Len(q) + k
      BY <2>2, <2>3, <2>4, <2>5 DEF ServedOf
    <3>2. q \in Seq(Nat) /\ q # <<>> /\ n \in Nat /\ k \in Nat
      BY <2>3, <2>4 DEF TypeInv, TypeOK
    <3>3. /\ Len(q) \in Nat /\ Len(Tail(q)) = Len(q) - 1
          /\ Head(q) = q[1] /\ 1 \in DOMAIN q
      BY <3>2
    <3>4. q[1] = n - Len(q) + 1
      BY <2>4, <3>3 DEF QueueInv
    <3> HIDE DEF q, n, k
    <3>5. q[1] = k + 1
      BY <3>1, <3>2, <3>3, <3>4
    <3>6. func'[w] = k + 1 /\ func'[w] # None /\ queue'[owner[w]] = Tail(q)
      BY <2>3, <2>4, <3>2, <3>3, <3>5 DEF q
    <3>7. n = Len(Tail(q)) + k + 1
      BY <3>1, <3>2, <3>3
    <3>8. n = submitted'[owner[v]] /\ k = Len(results'[owner[v]]) /\ owner'[v] = owner[w]
      BY <2>3, <2>5 DEF n, k
    <3> QED
      BY <2>5, <3>6, <3>7, <3>8 DEF ServedOf
  <2>6. CASE v # w
    <3>1. owner[v] # owner[w] /\ func'[v] = func[v]
      BY <2>1, <2>3, <2>4, <2>6 DEF Single, WorkersOf
    <3>2. queue'[owner[v]] = queue[owner[v]]
      BY <2>2, <2>3, <2>4, <3>1
    <3> QED
      BY <2>2, <2>3, <3>1, <3>2 DEF ServedOf
  <2> QED
    BY <2>5, <2>6
<1>10. ASSUME NEW w \in Workers, BeginCall(w)
       PROVE  ServedInv'
  BY <1>10, <1>0 DEF BeginCall
<1>11. ASSUME NEW w \in Workers, EndCall(w)
       PROVE  ServedInv'
  <2>1. SUFFICES ASSUME NEW v \in Workers, owner[v] # None, Single(owner[v])
                 PROVE  ServedOf(v, owner[v])'
    BY <1>11 DEF EndCall, ServedInv, Single, WorkersOf
  <2>2. ServedOf(v, owner[v]) /\ owner[v] \in Handlers
    BY <2>1 DEF ServedInv, TypeInv, TypeOK
  <2>3. /\ results' = [results EXCEPT ![owner[w]] = Append(results[owner[w]], func[w])]
        /\ func' = [func EXCEPT ![w] = None]
        /\ pc[w] = "exec"
        /\ UNCHANGED <<ready, queue, submitted, owner>>
    BY <1>11 DEF EndCall, AtStep
  <2>4. /\ owner[w] \in Handlers /\ func[w] \in Nat /\ func[w] # None
        /\ func \in [Workers -> Nat \cup {None}] /\ results \in [Handlers -> Seq(Nat)]
    BY <2>3 DEF TypeInv, TypeOK, ThreadInv, WorkerStates
  <2>5. CASE v = w
    <3>1. func'[w] = None /\ Len(results'[owner[w]]) = Len(results[owner[w]]) + 1
      BY <2>3, <2>4
    <3>2. Len(results[owner[w]]) \in Nat /\ Len(queue[owner[w]]) \in Nat
      BY <2>4 DEF TypeInv, TypeOK
    <3>3. ready[owner[w]] => submitted[owner[w]] = Len(queue[owner[w]]) + Len(results'[owner[w]])
      <4>1. ready[owner[w]] =>
               submitted[owner[w]] = Len(queue[owner[w]]) + Len(results[owner[w]]) + 1
        BY <2>2, <2>4, <2>5 DEF ServedOf
      <4>2. Len(queue[owner[w]]) + Len(results[owner[w]]) + 1
              = Len(queue[owner[w]]) + Len(results'[owner[w]])
        BY <3>1, <3>2, SumSuccRight
      <4> QED
        BY <4>1, <4>2, Zenon
    <3> QED
      BY <2>2, <2>3, <2>4, <2>5, <3>1, <3>2, <3>3 DEF ServedOf
  <2>6. CASE v # w
    <3>1. owner[v] # owner[w] /\ func'[v] = func[v]
      BY <2>1, <2>3, <2>4, <2>6 DEF Single, WorkersOf
    <3>2. results'[owner[v]] = results[owner[v]]
      BY <2>2, <2>3, <2>4, <3>1
    <3> QED
      BY <2>2, <2>3, <3>1, <3>2 DEF ServedOf
  <2> QED
    BY <2>5, <2>6
<1>12. ASSUME Shutdown
       PROVE  ServedInv'
  BY <1>12, <1>0 DEF Shutdown
<1>13. ASSUME NEW h \in Handlers, ClearQueue(h)
       PROVE  ServedInv'
  <2>1. SUFFICES ASSUME NEW v \in Workers, owner[v] # None, Single(owner[v])
                 PROVE  ServedOf(v, owner[v])'
    BY <1>13 DEF ClearQueue, ServedInv, Single, WorkersOf
  <2>2. ServedOf(v, owner[v]) /\ owner[v] \in Handlers
    BY <2>1 DEF ServedInv, TypeInv, TypeOK
  <2>3. /\ queue' = [queue EXCEPT ![h] = <<>>] /\ ready' = [ready EXCEPT ![h] = FALSE]
        /\ queue \in [Handlers -> Seq(Nat)] /\ ready \in [Handlers -> BOOLEAN]
        /\ UNCHANGED <<results, submitted, owner, func>>
    BY <1>13 DEF ClearQueue, TypeInv, TypeOK
  <2>4. ready'[h] = FALSE
    BY <2>3
  <2>5. owner[v] # h => /\ queue'[owner[v]] = queue[owner[v]]
                        /\ ready'[owner[v]] = ready[owner[v]]
    BY <2>2, <2>3
  <2> QED
    BY <2>2, <2>3, <2>4, <2>5 DEF ServedOf
<1>14. ASSUME NotifyExit
       PROVE  ServedInv'
  BY <1>14, <1>0 DEF NotifyExit
<1>15. ASSUME JoinAndClose
       PROVE  ServedInv'
  BY <1>15, <1>0 DEF JoinAndClose
<1>16. ASSUME AllDestroyed
       PROVE  ServedInv'
  BY <1>16, <1>0 DEF AllDestroyed
<1>17. ASSUME NEW w \in Workers, UseAfterDestroy(w)
       PROVE  ServedInv'
  BY <1>17, <1>0 DEF UseAfterDestroy
<1>18. CASE UNCHANGED vars
  BY <1>18, <1>0
<1> QED
  BY <1>1, <1>2, <1>3, <1>4, <1>5, <1>6, <1>7, <1>8, <1>9,
     <1>10, <1>11, <1>12, <1>13, <1>14, <1>15, <1>16, <1>17, <1>18
     DEF Next, Worker, Destructor, Stopped

\* The answer posted is the next in the order of the calls.
LEMMA NextFifo == TypeInv /\ ServedInv /\ FifoUnlessReopened /\ [Next]_vars => FifoUnlessReopened'
<1> SUFFICES ASSUME TypeInv /\ ServedInv /\ FifoUnlessReopened, [Next]_vars
             PROVE  FifoUnlessReopened'
  OBVIOUS
<1> USE ConstantsAssumption
    DEF vars, handlerVars, lockVars, threadVars, guiVars
<1>0. UNCHANGED <<owner, results>> => FifoUnlessReopened'
  BY DEF FifoUnlessReopened, Single, WorkersOf
<1>1. ASSUME NEW h \in Handlers, NEW w \in Workers, GetUnitsyncAsync(h, w)
      PROVE  FifoUnlessReopened'
  <2>1. SUFFICES ASSUME NEW g \in Handlers, Single(g)'
                 PROVE  \A i \in DOMAIN results'[g] : results'[g][i] = i
    BY DEF FifoUnlessReopened
  <2>2. Single(g) /\ results' = results
    BY <1>1, <2>1, SingleBefore DEF GetUnitsyncAsync
  <2> QED
    BY <2>2 DEF FifoUnlessReopened
<1>2. ASSUME NEW h \in Handlers, Call(h)
      PROVE  FifoUnlessReopened'
  BY <1>2, <1>0 DEF Call
<1>3. ASSUME NEW w \in Workers, TestReady(w)
      PROVE  FifoUnlessReopened'
  BY <1>3, <1>0 DEF TestReady
<1>4. ASSUME NEW w \in Workers, LockQueue(w)
      PROVE  FifoUnlessReopened'
  BY <1>4, <1>0 DEF LockQueue
<1>5. ASSUME NEW w \in Workers, MustWait(w)
      PROVE  FifoUnlessReopened'
  BY <1>5, <1>0 DEF MustWait
<1>6. ASSUME NEW w \in Workers, Wait(w)
      PROVE  FifoUnlessReopened'
  BY <1>6, <1>0 DEF Wait
<1>7. ASSUME NEW w \in Workers, SpuriousWakeup(w)
      PROVE  FifoUnlessReopened'
  BY <1>7, <1>0 DEF SpuriousWakeup
<1>8. ASSUME NEW w \in Workers, Break(w)
      PROVE  FifoUnlessReopened'
  BY <1>8, <1>0 DEF Break
<1>9. ASSUME NEW w \in Workers, Pop(w)
      PROVE  FifoUnlessReopened'
  BY <1>9, <1>0 DEF Pop
<1>10. ASSUME NEW w \in Workers, BeginCall(w)
       PROVE  FifoUnlessReopened'
  BY <1>10, <1>0 DEF BeginCall
<1>11. ASSUME NEW w \in Workers, EndCall(w)
       PROVE  FifoUnlessReopened'
  <2>1. SUFFICES ASSUME NEW g \in Handlers, Single(g)
                 PROVE  \A i \in DOMAIN results'[g] : results'[g][i] = i
    BY <1>11 DEF EndCall, FifoUnlessReopened, Single, WorkersOf
  <2>2. \A i \in DOMAIN results[g] : results[g][i] = i
    BY <2>1 DEF FifoUnlessReopened
  <2>3. /\ results' = [results EXCEPT ![owner[w]] = Append(results[owner[w]], func[w])]
        /\ pc[w] = "exec"
    BY <1>11 DEF EndCall, AtStep
  <2>4. /\ owner[w] \in Handlers /\ func[w] # None
        /\ results \in [Handlers -> Seq(Nat)]
    BY <2>3 DEF TypeInv, TypeOK, ThreadInv, WorkerStates
  <2>5. CASE owner[w] = g
    <3>1. func[w] = Len(results[g]) + 1
      BY <2>1, <2>4, <2>5 DEF ServedInv, ServedOf
    <3>2. results'[g] = Append(results[g], Len(results[g]) + 1) /\ results[g] \in Seq(Nat)
      BY <2>3, <2>4, <2>5, <3>1
    <3> QED
      BY <2>2, <3>2
  <2>6. CASE owner[w] # g
    BY <2>2, <2>3, <2>4, <2>6
  <2> QED
    BY <2>5, <2>6
<1>12. ASSUME Shutdown
       PROVE  FifoUnlessReopened'
  BY <1>12, <1>0 DEF Shutdown
<1>13. ASSUME NEW h \in Handlers, ClearQueue(h)
       PROVE  FifoUnlessReopened'
  BY <1>13, <1>0 DEF ClearQueue
<1>14. ASSUME NotifyExit
       PROVE  FifoUnlessReopened'
  BY <1>14, <1>0 DEF NotifyExit
<1>15. ASSUME JoinAndClose
       PROVE  FifoUnlessReopened'
  BY <1>15, <1>0 DEF JoinAndClose
<1>16. ASSUME AllDestroyed
       PROVE  FifoUnlessReopened'
  BY <1>16, <1>0 DEF AllDestroyed
<1>17. ASSUME NEW w \in Workers, UseAfterDestroy(w)
       PROVE  FifoUnlessReopened'
  BY <1>17, <1>0 DEF UseAfterDestroy
<1>18. CASE UNCHANGED vars
  BY <1>18, <1>0
<1> QED
  BY <1>1, <1>2, <1>3, <1>4, <1>5, <1>6, <1>7, <1>8, <1>9,
     <1>10, <1>11, <1>12, <1>13, <1>14, <1>15, <1>16, <1>17, <1>18
     DEF Next, Worker, Destructor, Stopped

\* While a handler has had one worker, its results are posted in the order in
\* which the page made the calls.
THEOREM ResultsInOrder == Spec => []FifoUnlessReopened
<1>1. Init => FifoUnlessReopened
  BY InitFifoInv DEF FifoInv
<1> QED
  BY <1>1, InitTypeInv, NextTypeInv, InitCloseInv, NextCloseInv, InitFifoInv,
     NextOpenedInv, NextQueueInv, NextServedInv, NextFifo, PTL DEF Spec, FifoInv

-----------------------------------------------------------------------------
(* Nobody waits for ever, as far as safety goes: whatever a thread waits   *)
(* for is held by a thread that waits for nothing.                         *)

\* A worker that no other thread holds up: the guard of its next step, which
\* is none of Wait's sleep, is true.
Moves(w) ==
    /\ entry[owner[w]] = "live"
    /\ \/ pc[w] \in {"test", "check", "block", "exec"}
       \/ pc[w] = "lock" /\ queueMutex[owner[w]] = None
       \/ pc[w] = "popped" /\ executionMutex = None

WaitInv == TypeInv /\ LockInv /\ CloseInv /\ WakeInv /\ JoinInv

\* What has been proved so far holds together.
LEMMA WaitInvariant == Spec => []WaitInv
<1>1. Init => WaitInv
  BY InitTypeInv, InitLockInv, InitCloseInv, InitWakeInv, InitJoinInv DEF WaitInv
<1>2. WaitInv /\ [Next]_vars => WaitInv'
  BY NextTypeInv, NextLockInv, NextCloseInv, NextWakeInv, NextJoinInv DEF WaitInv
<1> QED
  BY <1>1, <1>2, PTL DEF Spec

\* A mutex is given back: a queueMutex that a slot or a destructor of the GUI
\* thread, or a worker, may wait for is held by a worker that moves, and so is
\* executionMutex; only a worker whose handler was destroyed, because its path
\* was opened twice, may keep that for ever.  No worker holds one mutex while it
\* waits for the other, so there is no cycle.
LocksReturn ==
    /\ \A h \in Handlers :
          entry[h] = "live" /\ queueMutex[h] # None => Moves(queueMutex[h])
    /\ executionMutex # None =>
          \/ Moves(executionMutex)
          \/ (entry[owner[executionMutex]] = "destroyed" /\ ~ Single(owner[executionMutex]))

THEOREM NoCircularWait == Spec => []LocksReturn
<1>1. WaitInv => LocksReturn
  <2> SUFFICES ASSUME WaitInv
               PROVE  LocksReturn
    OBVIOUS
  <2>1. ASSUME NEW h \in Handlers, entry[h] = "live", queueMutex[h] # None
        PROVE  Moves(queueMutex[h])
    <3>1. queueMutex[h] \in Workers
      BY <2>1 DEF WaitInv, TypeInv, TypeOK
    <3>2. owner[queueMutex[h]] = h /\ pc[queueMutex[h]] \in {"check", "block"}
      BY <3>1 DEF WaitInv, LockInv
    <3> QED
      BY <2>1, <3>2 DEF Moves
  <2>2. ASSUME executionMutex # None, ~ Moves(executionMutex)
        PROVE  entry[owner[executionMutex]] = "destroyed" /\ ~ Single(owner[executionMutex])
    <3> DEFINE w == executionMutex
    <3>1. w \in Workers /\ pc[w] = "exec"
      BY <2>2 DEF WaitInv, TypeInv, TypeOK, LockInv
    <3>2. owner[w] # None /\ owner[w] \in Handlers
      BY <3>1, ConstantsAssumption DEF WaitInv, TypeInv, TypeOK, ThreadInv
    <3>3. entry[owner[w]] \in {"live", "destroyed"}
      BY <3>1, <3>2 DEF WaitInv, TypeInv, TypeOK, CloseInv
    <3>4. entry[owner[w]] = "destroyed"
      BY <2>2, <3>1, <3>3 DEF Moves
    <3> QED
      BY <3>1, <3>2, <3>4 DEF WaitInv, JoinInv, JoinedUnlessReopened
  <2> QED
    BY <2>1, <2>2 DEF LocksReturn
<1> QED
  BY <1>1, WaitInvariant, PTL

\* How many steps the thread a destructor joins is from its end.
StepsLeft == [s \in WorkerStates |->
    CASE s = "popped" -> 5 [] s = "exec" -> 4 [] s = "lock" -> 3
      [] s = "check" -> 2 [] s = "test" -> 1 [] OTHER -> 0]

\* A destructor that joins a thread waits for something: the thread has ended,
\* or moves, or waits for a mutex that another worker holds; it does not sleep.
JoinWaits ==
    gui = "join" =>
        LET w == thread[target]
        IN \/ pc[w] = "exit" \/ Moves(w)
           \/ (pc[w] = "lock" /\ Moves(queueMutex[target]))
           \/ (pc[w] = "popped" /\ executionMutex # None)

THEOREM DestructorIsAwaited == Spec => []JoinWaits
<1>1. WaitInv /\ OpenedInv /\ LocksReturn => JoinWaits
  <2> SUFFICES ASSUME WaitInv, OpenedInv, LocksReturn, gui = "join", NEW w, w = thread[target]
               PROVE  \/ pc[w] = "exit" \/ Moves(w)
                      \/ (pc[w] = "lock" /\ Moves(queueMutex[target]))
                      \/ (pc[w] = "popped" /\ executionMutex # None)
    BY DEF JoinWaits
  <2>1. target \in Handlers /\ entry[target] = "live" /\ ~ ready[target]
    BY DEF WaitInv, TypeInv, ThreadInv, CloseInv
  <2>2. w \in Workers /\ owner[w] = target
    BY <2>1 DEF OpenedInv
  <2>3. pc[w] \in WorkerStates /\ pc[w] # "unborn"
    BY <2>1, <2>2, ConstantsAssumption DEF WaitInv, TypeInv, TypeOK, ThreadInv
  <2>4. pc[w] \notin {"block", "waiting"}
    BY <2>1, <2>2 DEF WaitInv, WakeInv, NoLostWakeup
  <2>5. CASE pc[w] = "lock"
    BY <2>1, <2>2, <2>5 DEF LocksReturn, Moves
  <2>6. CASE pc[w] # "lock"
    BY <2>1, <2>2, <2>3, <2>4, <2>6 DEF Moves, WorkerStates
  <2> QED
    BY <2>5, <2>6
<1>2. Init => OpenedInv
  BY InitFifoInv DEF FifoInv
<1>3. WaitInv /\ OpenedInv /\ [Next]_vars => OpenedInv'
  BY NextOpenedInv DEF WaitInv
<1> QED
  BY <1>1, <1>2, <1>3, WaitInvariant, NoCircularWait, PTL DEF Spec

\* ... and gets nearer: each step of that thread takes it closer to its end,
\* whichever of its steps it is at and however many calls there were, for it
\* finds the queue empty and ready cleared, and nobody wakes it or sends it
\* more work.
Approaches ==
    gui = "join" /\ gui' = "join" =>
        LET w == thread[target]
        IN pc'[w] # pc[w] => StepsLeft[pc'[w]] < StepsLeft[pc[w]]

THEOREM JoinIsBounded == Spec => [][Approaches]_vars
<1>1. WaitInv /\ OpenedInv /\ [Next]_vars => [Approaches]_vars
  <2> SUFFICES ASSUME WaitInv, OpenedInv, [Next]_vars, gui = "join", gui' = "join",
                      NEW w, w = thread[target], pc'[w] # pc[w]
               PROVE  StepsLeft[pc'[w]] < StepsLeft[pc[w]]
    BY DEF Approaches
  <2>1. target \in Handlers /\ entry[target] = "live" /\ ~ ready[target]
    BY DEF WaitInv, TypeInv, ThreadInv, CloseInv
  <2>2. w \in Workers /\ owner[w] = target /\ pc \in [Workers -> WorkerStates]
    BY <2>1 DEF OpenedInv, WaitInv, TypeInv, TypeOK
  <2>3. pc[w] \notin {"block", "waiting"}
    BY <2>1, <2>2 DEF WaitInv, WakeInv, NoLostWakeup
  <2>4. PICK v \in Workers : Worker(v) \/ SpuriousWakeup(v)
    BY DEF Next, GetUnitsyncAsync, Call, Shutdown, Destructor, ClearQueue, NotifyExit,
           JoinAndClose, AllDestroyed, UseAfterDestroy, Stopped, vars, threadVars
  <2>5. v = w
    BY <2>2, <2>4 DEF Worker, SpuriousWakeup, TestReady, LockQueue, MustWait, Wait, Break, Pop,
           BeginCall, EndCall, Goto, threadVars
  <2>6. \/ pc[w] = "test" /\ pc'[w] = "exit"
        \/ pc[w] = "lock" /\ pc'[w] = "check"
        \/ pc[w] = "check" /\ pc'[w] = "exit"
        \/ pc[w] = "popped" /\ pc'[w] = "exec"
        \/ pc[w] = "exec" /\ pc'[w] = "test"
    BY <2>1, <2>2, <2>3, <2>4, <2>5
       DEF Worker, SpuriousWakeup, TestReady, LockQueue, MustWait, Wait, Break, Pop,
           BeginCall, EndCall, Goto, AtStep
  <2> QED
    BY <2>6 DEF StepsLeft, WorkerStates
<1>2. Init => OpenedInv
  BY InitFifoInv DEF FifoInv
<1>3. WaitInv /\ OpenedInv /\ [Next]_vars => OpenedInv'
  BY NextOpenedInv DEF WaitInv
<1> QED
  BY <1>1, <1>2, <1>3, WaitInvariant, PTL DEF Spec
=============================================================================
