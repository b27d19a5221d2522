------------------------- MODULE ProcessRunnerProofs -------------------------
(***************************************************************************)
(* Theorems about the external commands, for any number of names and runs: *)
(* no running child is ever lost, JavaScript hears of an exit only after   *)
(* the death of the child, and of every line of its output before.         *)
(***************************************************************************)
EXTENDS ProcessRunner, FunctionTheorems, FiniteSetTheorems, SequenceTheorems, TLAPS

-----------------------------------------------------------------------------
(* The inductive invariant.                                                *)

\* What a position of a runner's threads says of its child and its name.
RunnerInv ==
    \A r \in Runners :
        /\ cmd[r] = None => waiter[r] = "none"
        /\ waiter[r] \in {"none", "execute", "failed"} => child[r] = "none"
        /\ waiter[r] \in {"reaped", "done"} => child[r] = "reaped"
        /\ waiter[r] = "joined" => child[r] \in {"none", "reaped"}
        /\ waiter[r] = "none" => svc[r] = "none"
        /\ svc[r] = "done" => waiter[r] = "joined"
        /\ told[r] => svc[r] = "done"

\* An entry of the map is a runner of that name.
MapInv == \A c \in Commands : processes[c] # None => cmd[processes[c]] = c

\* What the GUI thread is doing, and to which runner.
GuiInv ==
    /\ gui \in {"starting", "joining"} => current \in Runners /\ cmd[current] # None
    /\ gui = "starting" =>
          /\ svc[current] = "none"
          /\ waiter[current] # "none"
          /\ processes[cmd[current]] = current
    /\ gui = "closing" => quitting
    /\ quitting => gui \in {"closing", "joining", "down"}
    /\ handling # None => cmd[handling] # None

\* A child that runs or may be started is in the map, or its runner is
\* being destroyed at exit.
Owned(r) ==
    \/ cmd[r] # None /\ processes[cmd[r]] = r
    \/ quitting /\ gui = "joining" /\ current = r

OwnedInv ==
    \A r \in Runners : child[r] = "running" \/ waiter[r] = "execute" => Owned(r)

\* Reads come from runners that have a name, exits from runners whose
\* threads have been joined.
Postable ==
    [type : {"read"}, from : {r \in Runners : cmd[r] # None}]
        \cup [type : {"terminate"}, from : {r \in Runners : svc[r] = "done"}]

QueueInv == events \in Seq(Postable)

CoreInv ==
    /\ MapTypes /\ ThreadTypes /\ GuiTypes
    /\ child \in [Runners -> {"none", "running", "zombie", "reaped"}]
    /\ told \in [Runners -> BOOLEAN]
    /\ RunnerInv /\ MapInv /\ GuiInv /\ OwnedInv

IInv == CoreInv /\ QueueInv

-----------------------------------------------------------------------------
(* The threads, the map and the children.                                  *)

\* It holds at first.
LEMMA InitCoreInv == Init => CoreInv
<1> SUFFICES ASSUME Init
             PROVE  CoreInv
  OBVIOUS
<1>1. MapTypes /\ MapInv
  BY DEF Init, MapTypes, MapInv
<1>2. ThreadTypes
  BY DEF Init, ThreadTypes
<1>3. GuiTypes /\ GuiInv
  BY DEF Init, GuiTypes, GuiInv
<1>4. child \in [Runners -> {"none", "running", "zombie", "reaped"}]
  BY DEF Init
<1>5. told \in [Runners -> BOOLEAN]
  BY DEF Init
<1>6. RunnerInv
  BY DEF Init, RunnerInv
<1>7. OwnedInv
  BY DEF Init, OwnedInv
<1> QED
  BY <1>1, <1>2, <1>3, <1>4, <1>5, <1>6, <1>7 DEF CoreInv

\* What the GUI thread takes from the queue was posted.
LEMMA HeadPostable ==
  ASSUME QueueInv, events # <<>>
  PROVE  Head(events) \in Postable /\ Tail(events) \in Seq(Postable)
BY HeadTailProperties DEF QueueInv

\* A TerminateEvent comes from a runner whose threads have been joined.
LEMMA HeadTerminate ==
  ASSUME QueueInv, events # <<>>, Head(events).type = "terminate"
  PROVE  Head(events).from \in Runners /\ svc[Head(events).from] = "done"
BY HeadPostable DEF Postable

\* Every step keeps it.
LEMMA NextCoreInv ==
  CoreInv /\ QueueInv /\ [Next]_vars => CoreInv'
<1> SUFFICES ASSUME CoreInv, QueueInv, [Next]_vars
             PROVE  CoreInv'
  OBVIOUS
<1> USE ConstantsAssumption
    DEF CoreInv, MapTypes, ThreadTypes, GuiTypes, RunnerInv, MapInv, GuiInv,
        OwnedInv, Owned, vars, mapVars, threadVars, childVars, jsVars, guiVars
<1>1. ASSUME NEW r \in Runners, ExecSucceeds(r)
      PROVE  CoreInv'
  BY <1>1 DEF ExecSucceeds
<1>2. ASSUME NEW r \in Runners, ExecFails(r)
      PROVE  CoreInv'
  BY <1>2 DEF ExecFails
<1>3. ASSUME NEW r \in Runners, SetTerminateFunc(r)
      PROVE  CoreInv'
  BY <1>3 DEF SetTerminateFunc
<1>4. ASSUME NEW r \in Runners, Reap(r)
      PROVE  CoreInv'
  BY <1>4 DEF Reap
<1>5. ASSUME NEW r \in Runners, CloseSinks(r)
      PROVE  CoreInv'
  BY <1>5 DEF CloseSinks
<1>6. ASSUME NEW r \in Runners, OnRead(r)
      PROVE  CoreInv'
  BY <1>6 DEF OnRead, Post
<1>7. ASSUME NEW r \in Runners, ServiceReturns(r)
      PROVE  CoreInv'
  BY <1>7 DEF ServiceReturns
<1>8. ASSUME NEW r \in Runners, PostTerminate(r)
      PROVE  CoreInv'
  BY <1>8 DEF PostTerminate, Post
<1>9. ASSUME NEW r \in Runners, Write(r)
      PROVE  CoreInv'
  BY <1>9 DEF Write
<1>10. ASSUME NEW r \in Runners, Exit(r)
       PROVE  CoreInv'
  BY <1>10 DEF Exit
<1>11. ASSUME NEW c \in Commands, NEW r \in Runners, RunCommand(c, r)
       PROVE  CoreInv'
  BY <1>11 DEF RunCommand
<1>12. ASSUME NEW c \in Commands, KillCommand(c)
       PROVE  CoreInv'
  <2>1. CASE TerminateAndErase(c)
    BY <1>12, <2>1 DEF KillCommand, TerminateAndErase, TerminateFuncSet, Erase, Kill
  <2>2. CASE BadFunctionCall(c)
    BY <1>12, <2>2 DEF KillCommand, BadFunctionCall
  <2> QED
    BY <1>12, <2>1, <2>2 DEF KillCommand
<1>13. ASSUME NEW c \in Commands, DestroyEntry(c)
       PROVE  CoreInv'
  BY <1>13 DEF DestroyEntry, Erase
<1>14. ASSUME RunThrows
       PROVE  CoreInv'
  BY <1>14 DEF RunThrows
<1>15. ASSUME RunReturns
       PROVE  CoreInv'
  BY <1>15 DEF RunReturns
<1>16. ASSUME Joined
       PROVE  CoreInv'
  BY <1>16 DEF Joined
<1>17. ASSUME DeliverRead
       PROVE  CoreInv'
  BY <1>17 DEF DeliverRead
<1>18. ASSUME DeliverTerminate
       PROVE  CoreInv'
  BY <1>18, HeadTerminate DEF DeliverTerminate
<1>19. ASSUME FinishTerminate
       PROVE  CoreInv'
  <2> DEFINE c == cmd[handling]
  <2>1. c \in Commands /\ gui = "js" /\ handling' = None /\ quitting' = quitting
        /\ UNCHANGED jsVars
    BY <1>19 DEF FinishTerminate
  <2>2. CASE processes[c] = None
    BY <1>19, <2>1, <2>2 DEF FinishTerminate
  <2>3. CASE processes[c] # None /\ TerminateAndErase(c)
    <3> HIDE DEF c
    <3> QED
      BY <2>1, <2>3 DEF TerminateAndErase, TerminateFuncSet, Erase, Kill
  <2>4. CASE processes[c] # None /\ BadFunctionCall(c)
    <3> HIDE DEF c
    <3> QED
      BY <2>1, <2>4 DEF BadFunctionCall
  <2> QED
    BY <1>19, <2>2, <2>3, <2>4 DEF FinishTerminate
<1>20. ASSUME Quit
       PROVE  CoreInv'
  BY <1>20 DEF Quit
<1>21. ASSUME AllDestroyed
       PROVE  CoreInv'
  BY <1>21 DEF AllDestroyed
<1>22. CASE UNCHANGED vars
  BY <1>22
<1> QED
  BY <1>1, <1>2, <1>3, <1>4, <1>5, <1>6, <1>7, <1>8, <1>9,
     <1>10, <1>11, <1>12, <1>13, <1>14, <1>15, <1>16, <1>17, <1>18,
     <1>19, <1>20, <1>21, <1>22
     DEF Next, Waiter, Service, Over
-----------------------------------------------------------------------------
(* The queue of posted events.                                             *)

\* What could be posted still can be: names are kept, threads stay joined.
LEMMA PostableGrows ==
  ASSUME QueueInv, MapTypes', MapTypes, ThreadTypes', ThreadTypes,
         \A r \in Runners : cmd[r] # None => cmd'[r] # None,
         \A r \in Runners : svc[r] = "done" => svc'[r] = "done"
  PROVE  events \in Seq(Postable')
<1>1. Postable \subseteq Postable'
  BY DEF Postable
<1> QED
  BY <1>1, SeqMonotonic DEF QueueInv

\* Taking its head from the queue, or posting to it, keeps its type.
LEMMA TailPostable ==
  ASSUME QueueInv, events # <<>>, events' = Tail(events), UNCHANGED <<cmd, svc>>
  PROVE  QueueInv'
BY HeadPostable DEF QueueInv, Postable

\* One more event may be posted.
LEMMA AppendPostable ==
  ASSUME events \in Seq(Postable'), NEW e \in Postable', events' = Append(events, e)
  PROVE  QueueInv'
BY AppendProperties DEF QueueInv

\* Every step keeps the queue well formed.
LEMMA NextQueueInv ==
  CoreInv /\ QueueInv /\ [Next]_vars => QueueInv'
<1> SUFFICES ASSUME CoreInv, QueueInv, [Next]_vars
             PROVE  QueueInv'
  OBVIOUS
<1> USE ConstantsAssumption
    DEF vars, mapVars, threadVars, childVars, jsVars, guiVars
<1>1. ASSUME NEW r \in Runners, ExecSucceeds(r)
      PROVE  QueueInv'
  BY <1>1 DEF ExecSucceeds, QueueInv, Postable
<1>2. ASSUME NEW r \in Runners, ExecFails(r)
      PROVE  QueueInv'
  BY <1>2 DEF ExecFails, QueueInv, Postable
<1>3. ASSUME NEW r \in Runners, SetTerminateFunc(r)
      PROVE  QueueInv'
  BY <1>3 DEF SetTerminateFunc, QueueInv, Postable
<1>4. ASSUME NEW r \in Runners, Reap(r)
      PROVE  QueueInv'
  BY <1>4 DEF Reap, QueueInv, Postable
<1>5. ASSUME NEW r \in Runners, CloseSinks(r)
      PROVE  QueueInv'
  BY <1>5 DEF CloseSinks, QueueInv, Postable
<1>6. ASSUME NEW r \in Runners, OnRead(r)
      PROVE  QueueInv'
  <2> DEFINE e == [type |-> "read", from |-> r]
  <2>1. e \in Postable' /\ events \in Seq(Postable')
    BY <1>6 DEF OnRead, CoreInv, RunnerInv, QueueInv, Postable
  <2>2. events' = Append(events, e)
    BY <1>6 DEF OnRead, Post
  <2> QED
    BY <2>1, <2>2, AppendPostable
<1>7. ASSUME NEW r \in Runners, ServiceReturns(r)
      PROVE  QueueInv'
  <2>1. UNCHANGED events /\ MapTypes' /\ ThreadTypes' /\ MapTypes /\ ThreadTypes
    BY <1>7, NextCoreInv DEF CoreInv, ServiceReturns
  <2>2. \A q \in Runners : cmd[q] # None => cmd'[q] # None
    BY <1>7, <2>1 DEF MapTypes, ServiceReturns
  <2>3. \A q \in Runners : svc[q] = "done" => svc'[q] = "done"
    BY <1>7, <2>1 DEF CoreInv, GuiInv, ThreadTypes, ServiceReturns
  <2> QED
    BY <2>1, <2>2, <2>3, PostableGrows DEF QueueInv
<1>8. ASSUME NEW r \in Runners, PostTerminate(r)
      PROVE  QueueInv'
  <2> DEFINE e == [type |-> "terminate", from |-> r]
  <2>1. MapTypes' /\ ThreadTypes' /\ MapTypes /\ ThreadTypes
    BY NextCoreInv DEF CoreInv
  <2>2. \A q \in Runners : cmd[q] # None => cmd'[q] # None
    BY <1>8, <2>1 DEF PostTerminate
  <2>3. \A q \in Runners : svc[q] = "done" => svc'[q] = "done"
    BY <1>8, <2>1 DEF PostTerminate, ThreadTypes
  <2>4. e \in Postable'
    BY <1>8, <2>1 DEF PostTerminate, ThreadTypes, Postable
  <2>5. events' = Append(events, e)
    BY <1>8 DEF PostTerminate, Post
  <2> QED
    BY <2>1, <2>2, <2>3, <2>4, <2>5, PostableGrows, AppendPostable
<1>9. ASSUME NEW r \in Runners, Write(r)
      PROVE  QueueInv'
  BY <1>9 DEF Write, QueueInv, Postable
<1>10. ASSUME NEW r \in Runners, Exit(r)
       PROVE  QueueInv'
  BY <1>10 DEF Exit, QueueInv, Postable
<1>11. ASSUME NEW c \in Commands, NEW r \in Runners, RunCommand(c, r)
       PROVE  QueueInv'
  <2>1. UNCHANGED events /\ MapTypes' /\ ThreadTypes' /\ MapTypes /\ ThreadTypes
    BY <1>11, NextCoreInv DEF CoreInv, RunCommand
  <2>2. \A q \in Runners : cmd[q] # None => cmd'[q] # None
    BY <1>11, <2>1 DEF MapTypes, RunCommand
  <2>3. \A q \in Runners : svc[q] = "done" => svc'[q] = "done"
    BY <1>11, <2>1 DEF CoreInv, GuiInv, ThreadTypes, RunCommand
  <2> QED
    BY <2>1, <2>2, <2>3, PostableGrows DEF QueueInv
<1>12. ASSUME NEW c \in Commands, KillCommand(c)
       PROVE  QueueInv'
  BY <1>12 DEF KillCommand, QueueInv, Postable, TerminateAndErase,
             BadFunctionCall, Erase, Kill
<1>13. ASSUME NEW c \in Commands, DestroyEntry(c)
       PROVE  QueueInv'
  BY <1>13 DEF DestroyEntry, Erase, QueueInv, Postable
<1>14. ASSUME RunThrows
       PROVE  QueueInv'
  BY <1>14 DEF RunThrows, QueueInv, Postable
<1>15. ASSUME RunReturns
       PROVE  QueueInv'
  <2>1. UNCHANGED events /\ MapTypes' /\ ThreadTypes' /\ MapTypes /\ ThreadTypes
    BY <1>15, NextCoreInv DEF CoreInv, RunReturns
  <2>2. \A q \in Runners : cmd[q] # None => cmd'[q] # None
    BY <1>15, <2>1 DEF MapTypes, RunReturns
  <2>3. \A q \in Runners : svc[q] = "done" => svc'[q] = "done"
    BY <1>15, <2>1 DEF CoreInv, GuiInv, ThreadTypes, RunReturns
  <2> QED
    BY <2>1, <2>2, <2>3, PostableGrows DEF QueueInv
<1>16. ASSUME Joined
       PROVE  QueueInv'
  BY <1>16 DEF Joined, QueueInv, Postable
<1>17. ASSUME DeliverRead
       PROVE  QueueInv'
  BY <1>17, TailPostable DEF DeliverRead
<1>18. ASSUME DeliverTerminate
       PROVE  QueueInv'
  BY <1>18, TailPostable DEF DeliverTerminate
<1>19. ASSUME FinishTerminate
       PROVE  QueueInv'
  BY <1>19 DEF FinishTerminate, QueueInv, Postable, TerminateAndErase,
             BadFunctionCall, Erase, Kill
<1>20. ASSUME Quit
       PROVE  QueueInv'
  BY <1>20 DEF Quit, QueueInv, Postable
<1>21. ASSUME AllDestroyed
       PROVE  QueueInv'
  BY <1>21 DEF AllDestroyed, QueueInv, Postable
<1>22. CASE UNCHANGED vars
  BY <1>22 DEF QueueInv, Postable
<1> QED
  BY <1>1, <1>2, <1>3, <1>4, <1>5, <1>6, <1>7, <1>8, <1>9,
     <1>10, <1>11, <1>12, <1>13, <1>14, <1>15, <1>16, <1>17, <1>18,
     <1>19, <1>20, <1>21, <1>22
     DEF Next, Waiter, Service, Over
-----------------------------------------------------------------------------
(* The numbers of lines.                                                   *)

\* The types that no other part of the invariant needs.
CountTypes ==
    /\ inherited \in [Runners -> SUBSET Runners]
    /\ pipe \in [Runners -> Nat]
    /\ written \in [Runners -> Nat]
    /\ heard \in [Runners -> Nat]

\* Every step keeps them.
LEMMA NextCountTypes ==
  CountTypes /\ QueueInv /\ [Next]_vars => CountTypes'
<1> SUFFICES ASSUME CountTypes, QueueInv, [Next]_vars
             PROVE  CountTypes'
  OBVIOUS
<1> USE DEF CountTypes, vars, mapVars, threadVars, childVars, jsVars, guiVars
<1>1. ASSUME NEW r \in Runners, ExecSucceeds(r)
      PROVE  CountTypes'
  BY <1>1 DEF ExecSucceeds
<1>2. ASSUME NEW r \in Runners, ExecFails(r)
      PROVE  CountTypes'
  BY <1>2 DEF ExecFails
<1>3. ASSUME NEW r \in Runners, SetTerminateFunc(r)
      PROVE  CountTypes'
  BY <1>3 DEF SetTerminateFunc
<1>4. ASSUME NEW r \in Runners, Reap(r)
      PROVE  CountTypes'
  BY <1>4 DEF Reap
<1>5. ASSUME NEW r \in Runners, CloseSinks(r)
      PROVE  CountTypes'
  BY <1>5 DEF CloseSinks
<1>6. ASSUME NEW r \in Runners, OnRead(r)
      PROVE  CountTypes'
  <2>1. pipe[r] \in Nat /\ pipe[r] > 0
    BY <1>6 DEF OnRead
  <2>2. pipe[r] - 1 \in Nat
    BY <2>1
  <2> QED
    BY <1>6, <2>2 DEF OnRead, Post
<1>7. ASSUME NEW r \in Runners, ServiceReturns(r)
      PROVE  CountTypes'
  BY <1>7 DEF ServiceReturns
<1>8. ASSUME NEW r \in Runners, PostTerminate(r)
      PROVE  CountTypes'
  BY <1>8 DEF PostTerminate, Post
<1>9. ASSUME NEW r \in Runners, Write(r)
      PROVE  CountTypes'
  <2>1. pipe[r] + 1 \in Nat /\ written[r] + 1 \in Nat
    BY <1>9 DEF Write
  <2> QED
    BY <1>9, <2>1 DEF Write
<1>10. ASSUME NEW r \in Runners, Exit(r)
       PROVE  CountTypes'
  BY <1>10 DEF Exit
<1>11. ASSUME NEW c \in Commands, NEW r \in Runners, RunCommand(c, r)
       PROVE  CountTypes'
  BY <1>11 DEF RunCommand
<1>12. ASSUME NEW c \in Commands, KillCommand(c)
       PROVE  CountTypes'
  BY <1>12 DEF KillCommand, TerminateAndErase, BadFunctionCall, Erase
<1>13. ASSUME NEW c \in Commands, DestroyEntry(c)
       PROVE  CountTypes'
  BY <1>13 DEF DestroyEntry, Erase
<1>14. ASSUME RunThrows
       PROVE  CountTypes'
  BY <1>14 DEF RunThrows
<1>15. ASSUME RunReturns
       PROVE  CountTypes'
  BY <1>15 DEF RunReturns
<1>16. ASSUME Joined
       PROVE  CountTypes'
  BY <1>16 DEF Joined
<1>17. ASSUME DeliverRead
       PROVE  CountTypes'
  <2> DEFINE r == Head(events).from
  <2>1. r \in Runners
    BY <1>17, HeadPostable DEF DeliverRead, Postable
  <2>2. heard[r] + 1 \in Nat
    BY <2>1
  <2>3. heard' = [heard EXCEPT ![r] = @ + 1] /\ UNCHANGED <<inherited, pipe, written>>
    BY <1>17 DEF DeliverRead
  <2> HIDE DEF r
  <2> QED
    BY <2>1, <2>2, <2>3
<1>18. ASSUME DeliverTerminate
       PROVE  CountTypes'
  BY <1>18 DEF DeliverTerminate
<1>19. ASSUME FinishTerminate
       PROVE  CountTypes'
  BY <1>19 DEF FinishTerminate, TerminateAndErase, BadFunctionCall, Erase
<1>20. ASSUME Quit
       PROVE  CountTypes'
  BY <1>20 DEF Quit
<1>21. ASSUME AllDestroyed
       PROVE  CountTypes'
  BY <1>21 DEF AllDestroyed
<1>22. CASE UNCHANGED vars
  BY <1>22
<1> QED
  BY <1>1, <1>2, <1>3, <1>4, <1>5, <1>6, <1>7, <1>8, <1>9,
     <1>10, <1>11, <1>12, <1>13, <1>14, <1>15, <1>16, <1>17, <1>18,
     <1>19, <1>20, <1>21, <1>22
     DEF Next, Waiter, Service, Over
-----------------------------------------------------------------------------
(* The output.                                                             *)

\* Where the queue has lines of r.
ReadEvent(r) == [type |-> "read", from |-> r]
ReadsOf(q, r) == {i \in 1..Len(q) : q[i] = ReadEvent(r)}

\* A finite set of positive numbers keeps its size when all move down by one.
LEMMA ShiftedSize ==
  ASSUME NEW S \in SUBSET Nat, IsFiniteSet(S),
         NEW T \in SUBSET Nat,
         \A i \in T : i + 1 \in S,
         \A i \in S : i - 1 \in T
  PROVE  IsFiniteSet(T) /\ Cardinality(T) = Cardinality(S)
<1> DEFINE f == [i \in S |-> i - 1]
<1>1. f \in [S -> T]
  OBVIOUS
<1>2. \A i, j \in S : f[i] = f[j] => i = j
  <2> SUFFICES ASSUME NEW i \in S, NEW j \in S, f[i] = f[j]
               PROVE  i = j
    OBVIOUS
  <2>1. i - 1 = j - 1 /\ i \in Nat /\ j \in Nat
    OBVIOUS
  <2> QED
    BY <2>1
<1>3. \A t \in T : \E i \in S : f[i] = t
  <2> SUFFICES ASSUME NEW t \in T
               PROVE  \E i \in S : f[i] = t
    OBVIOUS
  <2>1. t \in Nat /\ t + 1 \in S
    OBVIOUS
  <2>2. f[t + 1] = t
    BY <2>1
  <2> QED
    BY <2>1, <2>2
<1> HIDE DEF f
<1>4. f \in Bijection(S, T)
  BY <1>1, <1>2, <1>3, Fun_IsBij
<1>5. ExistsBijection(S, T)
  BY <1>4 DEF ExistsBijection
<1> QED
  BY <1>5, FS_Bijection

\* The lines of r in the queue when one more event has been posted.
LEMMA ReadsAppended ==
  ASSUME NEW q \in Seq(Postable), NEW e \in Postable, NEW r \in Runners
  PROVE  /\ IsFiniteSet(ReadsOf(q, r))
         /\ Cardinality(ReadsOf(q, r)) \in Nat
         /\ Cardinality(ReadsOf(Append(q, e), r)) =
               Cardinality(ReadsOf(q, r)) + (IF e = ReadEvent(r) THEN 1 ELSE 0)
<1> DEFINE R == ReadsOf(q, r)
           n == Len(q) + 1
<1>1. Len(q) \in Nat /\ n \in Nat /\ n \notin 1..Len(q) /\ 1..n = 1..Len(q) \cup {n}
  BY LenProperties
<1>2. IsFiniteSet(R)
  <2>1. IsFiniteSet(1..Len(q))
    BY <1>1, FS_Interval
  <2> QED
    BY <2>1, FS_Subset DEF ReadsOf
<1>3. Cardinality(R) \in Nat
  BY <1>2, FS_CardinalityType
<1>4. Len(Append(q, e)) = n /\ Append(q, e)[n] = e
      /\ \A i \in 1..Len(q) : Append(q, e)[i] = q[i]
  BY AppendProperties
<1>5. CASE e = ReadEvent(r)
  <2>1. ReadsOf(Append(q, e), r) = R \cup {n}
    BY <1>1, <1>4, <1>5 DEF ReadsOf
  <2>2. n \notin R
    BY <1>1 DEF ReadsOf
  <2> QED
    BY <1>2, <1>3, <1>5, <2>1, <2>2, FS_AddElement
<1>6. CASE e # ReadEvent(r)
  <2>1. ReadsOf(Append(q, e), r) = R
    BY <1>1, <1>4, <1>6 DEF ReadsOf
  <2> QED
    BY <1>2, <1>3, <1>6, <2>1
<1> QED
  BY <1>2, <1>3, <1>5, <1>6

\* The lines of r in the queue when the first event has been delivered.
LEMMA ReadsDelivered ==
  ASSUME NEW q \in Seq(Postable), q # <<>>, NEW r \in Runners
  PROVE  /\ Cardinality(ReadsOf(Tail(q), r)) \in Nat
         /\ Cardinality(ReadsOf(q, r)) =
               Cardinality(ReadsOf(Tail(q), r)) + (IF Head(q) = ReadEvent(r) THEN 1 ELSE 0)
<1> DEFINE R == ReadsOf(q, r)
           S == R \ {1}
           T == ReadsOf(Tail(q), r)
<1>1. Len(q) \in Nat /\ Len(q) > 0 /\ Head(q) = q[1]
  BY EmptySeq, LenProperties
<1>2. Len(Tail(q)) = Len(q) - 1 /\ \A i \in 1..Len(Tail(q)) : Tail(q)[i] = q[i + 1]
  BY HeadTailProperties
<1>3. IsFiniteSet(R)
  <2>1. IsFiniteSet(1..Len(q))
    BY <1>1, FS_Interval
  <2> QED
    BY <2>1, FS_Subset DEF ReadsOf
<1>4. IsFiniteSet(S) /\ Cardinality(S) \in Nat
      /\ Cardinality(S) = IF 1 \in R THEN Cardinality(R) - 1 ELSE Cardinality(R)
  <2>1. IsFiniteSet(S)
        /\ Cardinality(S) = IF 1 \in R THEN Cardinality(R) - 1 ELSE Cardinality(R)
    BY <1>3, FS_RemoveElement
  <2> QED
    BY <2>1, FS_CardinalityType
<1>5. \A i \in T : i + 1 \in S
  BY <1>1, <1>2 DEF ReadsOf
<1>6. \A i \in S : i - 1 \in T
  BY <1>1, <1>2 DEF ReadsOf
<1>7. S \in SUBSET Nat /\ T \in SUBSET Nat
  BY <1>1, <1>2 DEF ReadsOf
<1>8. Cardinality(T) = Cardinality(S)
  <2> HIDE DEF S, T
  <2> QED
    BY <1>4, <1>5, <1>6, <1>7, ShiftedSize
<1>9. 1 \in R <=> Head(q) = ReadEvent(r)
  BY <1>1 DEF ReadsOf
<1>10. Cardinality(R) \in Nat
  BY <1>3, FS_CardinalityType
<1> HIDE DEF R, S, T
<1>11. Cardinality(R) = Cardinality(T) + (IF Head(q) = ReadEvent(r) THEN 1 ELSE 0)
  BY <1>4, <1>8, <1>9, <1>10
<1> QED
  BY <1>4, <1>8, <1>11 DEF R, T

\* The exit of r, posted.
TerminateEvent(r) == [type |-> "terminate", from |-> r]

\* No line is lost or heard twice: what the child has written is in the pipe,
\* in the queue, or has been heard.
BalanceInv ==
    \A r \in Runners :
        written[r] = heard[r] + pipe[r] + Cardinality(ReadsOf(events, r))

\* A runner's TerminateEvent is behind its lines in the queue.
LastInv ==
    \A r \in Runners : \A i, j \in 1..Len(events) :
        events[i] = TerminateEvent(r) /\ events[j] = ReadEvent(r) => j < i

\* runService() is done with reading, unless the runner was stopped, when the
\* pipe is empty and the child, reaped, can write no more.
EndInv ==
    \A r \in Runners :
        svc[r] \in {"join", "done"} /\ ~ stopped[r] =>
            pipe[r] = 0 /\ waiter[r] \in {"done", "joined"}

\* What is known of the output.
OutputInv == BalanceInv /\ LastInv /\ EndInv

\* Every step keeps EndInv: nothing but the child fills the pipe.
LEMMA NextEndInv ==
  CoreInv /\ CountTypes /\ EndInv /\ [Next]_vars => EndInv'
<1> SUFFICES ASSUME ThreadTypes, GuiTypes, RunnerInv, GuiInv, CountTypes, EndInv, [Next]_vars,
                    child \in [Runners -> {"none", "running", "zombie", "reaped"}]
             PROVE  EndInv'
  BY DEF CoreInv
<1> USE ConstantsAssumption DEF vars, mapVars, threadVars, childVars, jsVars, guiVars
<1>1. ASSUME NEW r \in Runners, ExecSucceeds(r)
      PROVE  EndInv'
  BY <1>1 DEF EndInv, ThreadTypes, RunnerInv, GuiInv, GuiTypes, CountTypes, ExecSucceeds
<1>2. ASSUME NEW r \in Runners, ExecFails(r)
      PROVE  EndInv'
  BY <1>2 DEF EndInv, ThreadTypes, RunnerInv, GuiInv, GuiTypes, CountTypes, ExecFails
<1>3. ASSUME NEW r \in Runners, SetTerminateFunc(r)
      PROVE  EndInv'
  BY <1>3 DEF EndInv, ThreadTypes, RunnerInv, GuiInv, GuiTypes, CountTypes, SetTerminateFunc
<1>4. ASSUME NEW r \in Runners, Reap(r)
      PROVE  EndInv'
  BY <1>4 DEF EndInv, ThreadTypes, RunnerInv, GuiInv, GuiTypes, CountTypes, Reap
<1>5. ASSUME NEW r \in Runners, CloseSinks(r)
      PROVE  EndInv'
  BY <1>5 DEF EndInv, ThreadTypes, RunnerInv, GuiInv, GuiTypes, CountTypes, CloseSinks
<1>6. ASSUME NEW r \in Runners, OnRead(r)
      PROVE  EndInv'
  BY <1>6 DEF EndInv, ThreadTypes, RunnerInv, GuiInv, GuiTypes, CountTypes, OnRead, Post
<1>7. ASSUME NEW r \in Runners, ServiceReturns(r)
      PROVE  EndInv'
  <2>1. svc' = [svc EXCEPT ![r] = "join"] /\ UNCHANGED <<pipe, waiter, stopped>>
    BY <1>7 DEF ServiceReturns
  <2>2. ~ stopped[r] => pipe[r] = 0 /\ waiter[r] \in {"done", "joined"}
    BY <1>7 DEF ServiceReturns, EndOfFile, HoldsSink, ThreadTypes, RunnerInv
  <2> QED
    BY <2>1, <2>2 DEF EndInv, ThreadTypes
<1>8. ASSUME NEW r \in Runners, PostTerminate(r)
      PROVE  EndInv'
  BY <1>8 DEF EndInv, ThreadTypes, RunnerInv, GuiInv, GuiTypes, CountTypes, PostTerminate, Post
<1>9. ASSUME NEW r \in Runners, Write(r)
      PROVE  EndInv'
  BY <1>9 DEF EndInv, ThreadTypes, RunnerInv, GuiInv, GuiTypes, CountTypes, Write
<1>10. ASSUME NEW r \in Runners, Exit(r)
       PROVE  EndInv'
  BY <1>10 DEF EndInv, ThreadTypes, RunnerInv, GuiInv, GuiTypes, CountTypes, Exit
<1>11. ASSUME NEW c \in Commands, NEW r \in Runners, RunCommand(c, r)
       PROVE  EndInv'
  BY <1>11 DEF EndInv, ThreadTypes, RunnerInv, GuiInv, GuiTypes, CountTypes, RunCommand
<1>12. ASSUME NEW c \in Commands, KillCommand(c)
       PROVE  EndInv'
  <2>1. /\ UNCHANGED <<pipe, waiter, svc>>
        /\ \/ stopped' = [stopped EXCEPT ![processes[c]] = TRUE]
           \/ stopped' = stopped
    BY <1>12 DEF KillCommand, TerminateAndErase, BadFunctionCall, Erase
  <2> QED
    BY <2>1 DEF EndInv, ThreadTypes
<1>13. ASSUME NEW c \in Commands, DestroyEntry(c)
       PROVE  EndInv'
  BY <1>13 DEF EndInv, ThreadTypes, RunnerInv, GuiInv, GuiTypes, CountTypes, DestroyEntry, Erase
<1>14. ASSUME RunThrows
       PROVE  EndInv'
  BY <1>14 DEF EndInv, ThreadTypes, RunnerInv, GuiInv, GuiTypes, CountTypes, RunThrows
<1>15. ASSUME RunReturns
       PROVE  EndInv'
  BY <1>15 DEF EndInv, ThreadTypes, RunnerInv, GuiInv, GuiTypes, CountTypes, RunReturns
<1>16. ASSUME Joined
       PROVE  EndInv'
  BY <1>16 DEF EndInv, ThreadTypes, RunnerInv, GuiInv, GuiTypes, CountTypes, Joined
<1>17. ASSUME DeliverRead
       PROVE  EndInv'
  BY <1>17 DEF EndInv, ThreadTypes, RunnerInv, GuiInv, GuiTypes, CountTypes, DeliverRead
<1>18. ASSUME DeliverTerminate
       PROVE  EndInv'
  BY <1>18 DEF EndInv, ThreadTypes, RunnerInv, GuiInv, GuiTypes, CountTypes, DeliverTerminate
<1>19. ASSUME FinishTerminate
       PROVE  EndInv'
  <2>1. /\ UNCHANGED <<pipe, waiter, svc>>
        /\ \/ \E q : stopped' = [stopped EXCEPT ![q] = TRUE]
           \/ stopped' = stopped
    BY <1>19 DEF FinishTerminate, TerminateAndErase, BadFunctionCall, Erase
  <2> QED
    BY <2>1 DEF EndInv, ThreadTypes
<1>20. ASSUME Quit
       PROVE  EndInv'
  BY <1>20 DEF EndInv, ThreadTypes, RunnerInv, GuiInv, GuiTypes, CountTypes, Quit
<1>21. ASSUME AllDestroyed
       PROVE  EndInv'
  BY <1>21 DEF EndInv, ThreadTypes, RunnerInv, GuiInv, GuiTypes, CountTypes, AllDestroyed
<1>22. CASE UNCHANGED vars
  BY <1>22 DEF EndInv
<1> QED
  BY <1>1, <1>2, <1>3, <1>4, <1>5, <1>6, <1>7, <1>8, <1>9,
     <1>10, <1>11, <1>12, <1>13, <1>14, <1>15, <1>16, <1>17, <1>18,
     <1>19, <1>20, <1>21, <1>22
     DEF Next, Waiter, Service, Over

\* A TerminateEvent stays behind the lines when an event is delivered.
LEMMA LastDelivered ==
  ASSUME LastInv, QueueInv, events # <<>>, events' = Tail(events)
  PROVE  LastInv'
<1>1. Len(Tail(events)) = Len(events) - 1 /\ Len(events) \in Nat
      /\ \A i \in 1..Len(Tail(events)) : Tail(events)[i] = events[i + 1]
  BY HeadTailProperties, LenProperties DEF QueueInv
<1> SUFFICES ASSUME NEW r \in Runners,
                    NEW i \in 1..Len(Tail(events)), NEW j \in 1..Len(Tail(events)),
                    Tail(events)[i] = TerminateEvent(r), Tail(events)[j] = ReadEvent(r)
             PROVE  j < i
  BY DEF LastInv, TerminateEvent, ReadEvent
<1>2. i + 1 \in 1..Len(events) /\ j + 1 \in 1..Len(events)
  BY <1>1
<1>3. events[i + 1] = TerminateEvent(r) /\ events[j + 1] = ReadEvent(r)
  BY <1>1
<1>4. j + 1 < i + 1
  BY <1>2, <1>3 DEF LastInv
<1> QED
  BY <1>1, <1>4

\* It does when an event is posted that is no line of a runner whose
\* TerminateEvent is in the queue.
LEMMA LastPosted ==
  ASSUME LastInv, QueueInv, NEW e \in Events, events' = Append(events, e),
         \A r \in Runners : e = ReadEvent(r) =>
             \A i \in 1..Len(events) : events[i] # TerminateEvent(r)
  PROVE  LastInv'
<1> DEFINE n == Len(events)
<1>1. events \in Seq(Postable \cup {e})
  BY SeqMonotonic DEF QueueInv
<1>2. n \in Nat /\ Len(Append(events, e)) = n + 1 /\ Append(events, e)[n + 1] = e
      /\ \A i \in 1..n : Append(events, e)[i] = events[i]
  BY <1>1, AppendProperties, LenProperties
<1> SUFFICES ASSUME NEW r \in Runners,
                    NEW i \in 1..Len(Append(events, e)), NEW j \in 1..Len(Append(events, e)),
                    Append(events, e)[i] = TerminateEvent(r),
                    Append(events, e)[j] = ReadEvent(r)
             PROVE  j < i
  BY DEF LastInv, TerminateEvent, ReadEvent
<1>3. TerminateEvent(r) # ReadEvent(r)
  BY DEF TerminateEvent, ReadEvent
<1>4. (i \in 1..n \/ i = n + 1) /\ (j \in 1..n \/ j = n + 1)
  BY <1>2
<1>5. CASE i \in 1..n /\ j \in 1..n
  BY <1>2, <1>5 DEF LastInv
<1>6. CASE j = n + 1
  BY <1>2, <1>3, <1>4, <1>6
<1>7. CASE i = n + 1 /\ j \in 1..n
  BY <1>2, <1>7
<1> QED
  BY <1>4, <1>5, <1>6, <1>7

\* Every step keeps LastInv.
LEMMA NextLastInv ==
  LastInv /\ QueueInv /\ [Next]_vars => LastInv'
<1> SUFFICES ASSUME LastInv, QueueInv, [Next]_vars
             PROVE  LastInv'
  OBVIOUS
<1> USE DEF vars, mapVars, threadVars, childVars, jsVars, guiVars
<1>1. ASSUME NEW r \in Runners, ExecSucceeds(r)
      PROVE  LastInv'
  BY <1>1 DEF LastInv, ReadEvent, TerminateEvent, ExecSucceeds
<1>2. ASSUME NEW r \in Runners, ExecFails(r)
      PROVE  LastInv'
  BY <1>2 DEF LastInv, ReadEvent, TerminateEvent, ExecFails
<1>3. ASSUME NEW r \in Runners, SetTerminateFunc(r)
      PROVE  LastInv'
  BY <1>3 DEF LastInv, ReadEvent, TerminateEvent, SetTerminateFunc
<1>4. ASSUME NEW r \in Runners, Reap(r)
      PROVE  LastInv'
  BY <1>4 DEF LastInv, ReadEvent, TerminateEvent, Reap
<1>5. ASSUME NEW r \in Runners, CloseSinks(r)
      PROVE  LastInv'
  BY <1>5 DEF LastInv, ReadEvent, TerminateEvent, CloseSinks
<1>6. ASSUME NEW r \in Runners, OnRead(r)
      PROVE  LastInv'
  <2>1. events' = Append(events, ReadEvent(r)) /\ ReadEvent(r) \in Events /\ svc[r] # "done"
    BY <1>6 DEF OnRead, Post, ReadEvent, Events
  <2>2. \A i \in 1..Len(events) : events[i] # TerminateEvent(r)
    <3>1. TerminateEvent(r) \notin Postable
      BY <2>1 DEF TerminateEvent, Postable
    <3>2. \A i \in 1..Len(events) : events[i] \in Postable
      BY ElementOfSeq DEF QueueInv
    <3> QED
      BY <3>1, <3>2
  <2>3. \A q \in Runners : ReadEvent(r) = ReadEvent(q) => q = r
    BY DEF ReadEvent
  <2> QED
    BY <2>1, <2>2, <2>3, LastPosted
<1>7. ASSUME NEW r \in Runners, ServiceReturns(r)
      PROVE  LastInv'
  BY <1>7 DEF LastInv, ReadEvent, TerminateEvent, ServiceReturns
<1>8. ASSUME NEW r \in Runners, PostTerminate(r)
      PROVE  LastInv'
  <2>1. events' = Append(events, TerminateEvent(r)) /\ TerminateEvent(r) \in Events
    BY <1>8 DEF PostTerminate, Post, TerminateEvent, Events
  <2>2. \A q \in Runners : TerminateEvent(r) # ReadEvent(q)
    BY DEF ReadEvent, TerminateEvent
  <2> QED
    BY <2>1, <2>2, LastPosted
<1>9. ASSUME NEW r \in Runners, Write(r)
      PROVE  LastInv'
  BY <1>9 DEF LastInv, ReadEvent, TerminateEvent, Write
<1>10. ASSUME NEW r \in Runners, Exit(r)
       PROVE  LastInv'
  BY <1>10 DEF LastInv, ReadEvent, TerminateEvent, Exit
<1>11. ASSUME NEW c \in Commands, NEW r \in Runners, RunCommand(c, r)
       PROVE  LastInv'
  BY <1>11 DEF LastInv, ReadEvent, TerminateEvent, RunCommand
<1>12. ASSUME NEW c \in Commands, KillCommand(c)
       PROVE  LastInv'
  BY <1>12 DEF LastInv, ReadEvent, TerminateEvent, KillCommand, TerminateAndErase,
              BadFunctionCall, Erase, Kill
<1>13. ASSUME NEW c \in Commands, DestroyEntry(c)
       PROVE  LastInv'
  BY <1>13 DEF LastInv, ReadEvent, TerminateEvent, DestroyEntry, Erase
<1>14. ASSUME RunThrows
       PROVE  LastInv'
  BY <1>14 DEF LastInv, ReadEvent, TerminateEvent, RunThrows
<1>15. ASSUME RunReturns
       PROVE  LastInv'
  BY <1>15 DEF LastInv, ReadEvent, TerminateEvent, RunReturns
<1>16. ASSUME Joined
       PROVE  LastInv'
  BY <1>16 DEF LastInv, ReadEvent, TerminateEvent, Joined
<1>17. ASSUME DeliverRead
       PROVE  LastInv'
  BY <1>17, LastDelivered DEF DeliverRead
<1>18. ASSUME DeliverTerminate
       PROVE  LastInv'
  BY <1>18, LastDelivered DEF DeliverTerminate
<1>19. ASSUME FinishTerminate
       PROVE  LastInv'
  BY <1>19 DEF LastInv, ReadEvent, TerminateEvent, FinishTerminate, TerminateAndErase,
              BadFunctionCall, Erase, Kill
<1>20. ASSUME Quit
       PROVE  LastInv'
  BY <1>20 DEF LastInv, ReadEvent, TerminateEvent, Quit
<1>21. ASSUME AllDestroyed
       PROVE  LastInv'
  BY <1>21 DEF LastInv, ReadEvent, TerminateEvent, AllDestroyed
<1>22. CASE UNCHANGED vars
  BY <1>22 DEF LastInv, ReadEvent, TerminateEvent
<1> QED
  BY <1>1, <1>2, <1>3, <1>4, <1>5, <1>6, <1>7, <1>8, <1>9,
     <1>10, <1>11, <1>12, <1>13, <1>14, <1>15, <1>16, <1>17, <1>18,
     <1>19, <1>20, <1>21, <1>22
     DEF Next, Waiter, Service, Over

\* The queue has finitely many lines of each runner.
LEMMA LinesCounted ==
  ASSUME QueueInv, NEW r \in Runners
  PROVE  Cardinality(ReadsOf(events, r)) \in Nat
<1>1. Len(events) \in Nat
  BY LenProperties DEF QueueInv
<1>2. IsFiniteSet(1..Len(events))
  BY <1>1, FS_Interval
<1> QED
  BY <1>2, FS_Subset, FS_CardinalityType DEF ReadsOf

\* Every step keeps BalanceInv: a line is moved from place to place.
LEMMA NextBalanceInv ==
  BalanceInv /\ CoreInv /\ CountTypes /\ QueueInv /\ [Next]_vars => BalanceInv'
<1> SUFFICES ASSUME BalanceInv, ThreadTypes, RunnerInv, CountTypes, QueueInv, [Next]_vars
             PROVE  BalanceInv'
  BY DEF CoreInv
<1> USE DEF vars, mapVars, threadVars, childVars, jsVars, guiVars
<1>1. ASSUME NEW r \in Runners, ExecSucceeds(r)
      PROVE  BalanceInv'
  BY <1>1 DEF BalanceInv, ReadsOf, ReadEvent, ExecSucceeds
<1>2. ASSUME NEW r \in Runners, ExecFails(r)
      PROVE  BalanceInv'
  BY <1>2 DEF BalanceInv, ReadsOf, ReadEvent, ExecFails
<1>3. ASSUME NEW r \in Runners, SetTerminateFunc(r)
      PROVE  BalanceInv'
  BY <1>3 DEF BalanceInv, ReadsOf, ReadEvent, SetTerminateFunc
<1>4. ASSUME NEW r \in Runners, Reap(r)
      PROVE  BalanceInv'
  BY <1>4 DEF BalanceInv, ReadsOf, ReadEvent, Reap
<1>5. ASSUME NEW r \in Runners, CloseSinks(r)
      PROVE  BalanceInv'
  BY <1>5 DEF BalanceInv, ReadsOf, ReadEvent, CloseSinks
<1>6. ASSUME NEW r \in Runners, OnRead(r)
      PROVE  BalanceInv'
  <2>1. /\ pipe' = [pipe EXCEPT ![r] = @ - 1]
        /\ events' = Append(events, ReadEvent(r))
        /\ UNCHANGED <<written, heard>>
    BY <1>6 DEF OnRead, Post, ReadEvent
  <2>2. ReadEvent(r) \in Postable
    BY <1>6 DEF OnRead, RunnerInv, ReadEvent, Postable
  <2> SUFFICES ASSUME NEW q \in Runners
               PROVE  written[q] = heard[q] + pipe'[q]
                         + Cardinality(ReadsOf(Append(events, ReadEvent(r)), q))
    BY <2>1 DEF BalanceInv, ReadsOf, ReadEvent
  <2>3. ReadEvent(r) = ReadEvent(q) <=> r = q
    BY DEF ReadEvent
  <2>4. /\ Cardinality(ReadsOf(events, q)) \in Nat
        /\ Cardinality(ReadsOf(Append(events, ReadEvent(r)), q)) =
              Cardinality(ReadsOf(events, q)) + (IF r = q THEN 1 ELSE 0)
    BY <2>2, <2>3, ReadsAppended DEF QueueInv
  <2>5. pipe'[q] = IF r = q THEN pipe[q] - 1 ELSE pipe[q]
    BY <2>1 DEF CountTypes
  <2>6. written[q] = heard[q] + pipe[q] + Cardinality(ReadsOf(events, q))
    BY DEF BalanceInv
  <2>7. written[q] \in Nat /\ heard[q] \in Nat /\ pipe[q] \in Nat
    BY DEF CountTypes
  <2> QED
    BY <2>4, <2>5, <2>6, <2>7
<1>7. ASSUME NEW r \in Runners, ServiceReturns(r)
      PROVE  BalanceInv'
  BY <1>7 DEF BalanceInv, ReadsOf, ReadEvent, ServiceReturns
<1>8. ASSUME NEW r \in Runners, PostTerminate(r)
      PROVE  BalanceInv'
  <2>1. events' = Append(events, TerminateEvent(r)) /\ UNCHANGED <<written, heard, pipe>>
    BY <1>8 DEF PostTerminate, Post, TerminateEvent, childVars
  <2>2. events \in Seq(Postable \cup {TerminateEvent(r)})
    BY SeqMonotonic DEF QueueInv
  <2> SUFFICES ASSUME NEW q \in Runners
               PROVE  ReadsOf(Append(events, TerminateEvent(r)), q) = ReadsOf(events, q)
    BY <2>1 DEF BalanceInv, ReadsOf, ReadEvent, TerminateEvent
  <2>3. TerminateEvent(r) # ReadEvent(q)
    BY DEF ReadEvent, TerminateEvent
  <2> QED
    BY <2>2, <2>3, AppendProperties, LenProperties DEF ReadsOf
<1>9. ASSUME NEW r \in Runners, Write(r)
      PROVE  BalanceInv'
  <2>1. /\ written' = [written EXCEPT ![r] = @ + 1]
        /\ pipe' = [pipe EXCEPT ![r] = @ + 1]
        /\ UNCHANGED <<heard, events>>
    BY <1>9 DEF Write
  <2> SUFFICES ASSUME NEW q \in Runners
               PROVE  written'[q] = heard[q] + pipe'[q] + Cardinality(ReadsOf(events, q))
    BY <2>1 DEF BalanceInv, ReadsOf, ReadEvent
  <2>2. Cardinality(ReadsOf(events, q)) \in Nat
    BY LinesCounted
  <2>3. /\ written'[q] = IF r = q THEN written[q] + 1 ELSE written[q]
        /\ pipe'[q] = IF r = q THEN pipe[q] + 1 ELSE pipe[q]
    BY <2>1 DEF CountTypes
  <2>4. written[q] = heard[q] + pipe[q] + Cardinality(ReadsOf(events, q))
    BY DEF BalanceInv
  <2>5. written[q] \in Nat /\ heard[q] \in Nat /\ pipe[q] \in Nat
    BY DEF CountTypes
  <2> QED
    BY <2>2, <2>3, <2>4, <2>5
<1>10. ASSUME NEW r \in Runners, Exit(r)
       PROVE  BalanceInv'
  BY <1>10 DEF BalanceInv, ReadsOf, ReadEvent, Exit
<1>11. ASSUME NEW c \in Commands, NEW r \in Runners, RunCommand(c, r)
       PROVE  BalanceInv'
  BY <1>11 DEF BalanceInv, ReadsOf, ReadEvent, RunCommand
<1>12. ASSUME NEW c \in Commands, KillCommand(c)
       PROVE  BalanceInv'
  BY <1>12 DEF BalanceInv, ReadsOf, ReadEvent, KillCommand, TerminateAndErase,
              BadFunctionCall, Erase, Kill
<1>13. ASSUME NEW c \in Commands, DestroyEntry(c)
       PROVE  BalanceInv'
  BY <1>13 DEF BalanceInv, ReadsOf, ReadEvent, DestroyEntry, Erase
<1>14. ASSUME RunThrows
       PROVE  BalanceInv'
  BY <1>14 DEF BalanceInv, ReadsOf, ReadEvent, RunThrows
<1>15. ASSUME RunReturns
       PROVE  BalanceInv'
  BY <1>15 DEF BalanceInv, ReadsOf, ReadEvent, RunReturns
<1>16. ASSUME Joined
       PROVE  BalanceInv'
  BY <1>16 DEF BalanceInv, ReadsOf, ReadEvent, Joined
<1>17. ASSUME DeliverRead
       PROVE  BalanceInv'
  <2> DEFINE r == Head(events).from
  <2>1. events # <<>> /\ Head(events) \in Postable /\ Head(events).type = "read"
    BY <1>17, HeadPostable DEF DeliverRead
  <2>2. r \in Runners /\ Head(events) = ReadEvent(r)
    BY <2>1 DEF Postable, ReadEvent
  <2>3. heard' = [heard EXCEPT ![r] = @ + 1] /\ events' = Tail(events)
        /\ UNCHANGED <<written, pipe>>
    BY <1>17 DEF DeliverRead
  <2> HIDE DEF r
  <2> SUFFICES ASSUME NEW q \in Runners
               PROVE  written[q] = heard'[q] + pipe[q] + Cardinality(ReadsOf(Tail(events), q))
    BY <2>3 DEF BalanceInv, ReadsOf, ReadEvent
  <2>4. Head(events) = ReadEvent(q) <=> r = q
    BY <2>2 DEF ReadEvent
  <2>5. /\ Cardinality(ReadsOf(Tail(events), q)) \in Nat
        /\ Cardinality(ReadsOf(events, q)) =
              Cardinality(ReadsOf(Tail(events), q)) + (IF r = q THEN 1 ELSE 0)
    BY <2>1, <2>4, ReadsDelivered DEF QueueInv
  <2>6. heard'[q] = IF r = q THEN heard[q] + 1 ELSE heard[q]
    BY <2>2, <2>3 DEF CountTypes
  <2>7. written[q] = heard[q] + pipe[q] + Cardinality(ReadsOf(events, q))
    BY DEF BalanceInv
  <2>8. written[q] \in Nat /\ heard[q] \in Nat /\ pipe[q] \in Nat
    BY DEF CountTypes
  <2> QED
    BY <2>5, <2>6, <2>7, <2>8
<1>18. ASSUME DeliverTerminate
       PROVE  BalanceInv'
  <2>1. events # <<>> /\ Head(events).type = "terminate" /\ events' = Tail(events)
        /\ UNCHANGED <<written, heard, pipe>>
    BY <1>18 DEF DeliverTerminate
  <2> SUFFICES ASSUME NEW q \in Runners
               PROVE  Cardinality(ReadsOf(Tail(events), q)) = Cardinality(ReadsOf(events, q))
    BY <2>1 DEF BalanceInv, ReadsOf, ReadEvent
  <2>2. Head(events) # ReadEvent(q)
    BY <2>1 DEF ReadEvent
  <2> QED
    BY <2>1, <2>2, ReadsDelivered DEF QueueInv
<1>19. ASSUME FinishTerminate
       PROVE  BalanceInv'
  BY <1>19 DEF BalanceInv, ReadsOf, ReadEvent, FinishTerminate, TerminateAndErase,
              BadFunctionCall, Erase, Kill
<1>20. ASSUME Quit
       PROVE  BalanceInv'
  BY <1>20 DEF BalanceInv, ReadsOf, ReadEvent, Quit
<1>21. ASSUME AllDestroyed
       PROVE  BalanceInv'
  BY <1>21 DEF BalanceInv, ReadsOf, ReadEvent, AllDestroyed
<1>22. CASE UNCHANGED vars
  BY <1>22 DEF BalanceInv, ReadsOf, ReadEvent
<1> QED
  BY <1>1, <1>2, <1>3, <1>4, <1>5, <1>6, <1>7, <1>8, <1>9,
     <1>10, <1>11, <1>12, <1>13, <1>14, <1>15, <1>16, <1>17, <1>18,
     <1>19, <1>20, <1>21, <1>22
     DEF Next, Waiter, Service, Over
-----------------------------------------------------------------------------
(* Whose exit is reported, and what the GUI thread waits for.              *)

\* A runner that nobody has stopped has its entry, and once its output has
\* been read to the end, its child is dead: execve() has not failed, for the
\* sinks of a failed start are closed only with the runner.
LiveInv ==
    \A r \in Runners :
        ~ stopped[r] =>
            /\ cmd[r] # None => processes[cmd[r]] = r
            /\ svc[r] \in {"join", "done"} =>
                  child[r] = "reaped" /\ waiter[r] \in {"done", "joined"}

\* A waiter that has started a child has yet to reap it, and one that is not
\* joined is there to be joined.
ThreadInv ==
    \A r \in Runners :
        /\ waiter[r] \in {"started", "waiting"} => child[r] \in {"running", "zombie"}
        /\ svc[r] \in {"reading", "join"} => waiter[r] \notin {"none", "joined"}

\* An entry's service thread has been started, unless run() is about to, which
\* has not joined the waiter.
StartedInv ==
    /\ \A c \in Commands : processes[c] # None =>
          svc[processes[c]] # "none" \/ (gui = "starting" /\ current = processes[c])
    /\ gui = "starting" => waiter[current] # "joined"

\* A destructor is executed of a runner that has been stopped, and whose
\* child, if it can still run, was killed before; except at exit.
DestructorInv ==
    gui = "joining" =>
        /\ stopped[current]
        /\ svc[current] # "none"
        /\ ~ quitting => TerminateFuncSet(current) /\ child[current] # "running"

JoinInv == ThreadInv /\ StartedInv /\ DestructorInv

\* Every step keeps LiveInv.
LEMMA NextLiveInv ==
  LiveInv /\ JoinInv /\ CoreInv /\ QueueInv /\ [Next]_vars => LiveInv'
<1> SUFFICES ASSUME LiveInv, ThreadInv,
                    MapTypes, ThreadTypes, GuiTypes, RunnerInv, MapInv, GuiInv,
                    QueueInv, [Next]_vars,
                    child \in [Runners -> {"none", "running", "zombie", "reaped"}]
             PROVE  LiveInv'
  BY DEF CoreInv, JoinInv
<1> USE ConstantsAssumption
    DEF LiveInv, MapTypes, ThreadTypes, GuiTypes, RunnerInv, MapInv,
        GuiInv, ThreadInv,
        vars, mapVars, threadVars, childVars, jsVars, guiVars
<1>1. ASSUME NEW r \in Runners, ExecSucceeds(r)
      PROVE  LiveInv'
  BY <1>1 DEF ExecSucceeds
<1>2. ASSUME NEW r \in Runners, ExecFails(r)
      PROVE  LiveInv'
  BY <1>2 DEF ExecFails
<1>3. ASSUME NEW r \in Runners, SetTerminateFunc(r)
      PROVE  LiveInv'
  BY <1>3 DEF SetTerminateFunc
<1>4. ASSUME NEW r \in Runners, Reap(r)
      PROVE  LiveInv'
  BY <1>4 DEF Reap
<1>5. ASSUME NEW r \in Runners, CloseSinks(r)
      PROVE  LiveInv'
  BY <1>5 DEF CloseSinks
<1>6. ASSUME NEW r \in Runners, OnRead(r)
      PROVE  LiveInv'
  BY <1>6 DEF OnRead, Post
<1>7. ASSUME NEW r \in Runners, ServiceReturns(r)
      PROVE  LiveInv'
  <2>1. svc' = [svc EXCEPT ![r] = "join"] /\ UNCHANGED <<mapVars, waiter, stopped, child>>
    BY <1>7 DEF ServiceReturns
  <2>2. ~ stopped[r] => child[r] = "reaped" /\ waiter[r] \in {"done", "joined"}
    BY <1>7 DEF ServiceReturns, EndOfFile, HoldsSink, ThreadInv
  <2> QED
    BY <2>1, <2>2
<1>8. ASSUME NEW r \in Runners, PostTerminate(r)
      PROVE  LiveInv'
  BY <1>8 DEF PostTerminate, Post
<1>9. ASSUME NEW r \in Runners, Write(r)
      PROVE  LiveInv'
  BY <1>9 DEF Write
<1>10. ASSUME NEW r \in Runners, Exit(r)
       PROVE  LiveInv'
  BY <1>10 DEF Exit
<1>11. ASSUME NEW c \in Commands, NEW r \in Runners, RunCommand(c, r)
       PROVE  LiveInv'
  BY <1>11 DEF RunCommand
<1>12. ASSUME NEW c \in Commands, KillCommand(c)
       PROVE  LiveInv'
  <2>1. CASE TerminateAndErase(c)
    BY <1>12, <2>1 DEF KillCommand, TerminateAndErase, Erase, Kill
  <2>2. CASE BadFunctionCall(c)
    BY <1>12, <2>2 DEF KillCommand, BadFunctionCall
  <2> QED
    BY <1>12, <2>1, <2>2 DEF KillCommand
<1>13. ASSUME NEW c \in Commands, DestroyEntry(c)
       PROVE  LiveInv'
  BY <1>13 DEF DestroyEntry, Erase
<1>14. ASSUME RunThrows
       PROVE  LiveInv'
  BY <1>14 DEF RunThrows
<1>15. ASSUME RunReturns
       PROVE  LiveInv'
  BY <1>15 DEF RunReturns
<1>16. ASSUME Joined
       PROVE  LiveInv'
  BY <1>16 DEF Joined
<1>17. ASSUME DeliverRead
       PROVE  LiveInv'
  BY <1>17 DEF DeliverRead
<1>18. ASSUME DeliverTerminate
       PROVE  LiveInv'
  BY <1>18 DEF DeliverTerminate
<1>19. ASSUME FinishTerminate
       PROVE  LiveInv'
  <2> DEFINE c == cmd[handling]
  <2>1. c \in Commands
    BY <1>19 DEF FinishTerminate
  <2>2. CASE UNCHANGED <<mapVars, threadVars, childVars>>
    BY <2>2
  <2>3. CASE processes[c] # None /\ TerminateAndErase(c)
    <3> HIDE DEF c
    <3> QED
      BY <2>1, <2>3 DEF TerminateAndErase, Erase, Kill
  <2> QED
    BY <1>19, <2>2, <2>3 DEF FinishTerminate, BadFunctionCall
<1>20. ASSUME Quit
       PROVE  LiveInv'
  BY <1>20 DEF Quit
<1>21. ASSUME AllDestroyed
       PROVE  LiveInv'
  BY <1>21 DEF AllDestroyed
<1>22. CASE UNCHANGED vars
  BY <1>22
<1> QED
  BY <1>1, <1>2, <1>3, <1>4, <1>5, <1>6, <1>7, <1>8, <1>9,
     <1>10, <1>11, <1>12, <1>13, <1>14, <1>15, <1>16, <1>17, <1>18,
     <1>19, <1>20, <1>21, <1>22
     DEF Next, Waiter, Service, Over

\* Every step keeps JoinInv.
LEMMA NextJoinInv ==
  JoinInv /\ CoreInv /\ QueueInv /\ [Next]_vars => JoinInv'
<1> SUFFICES ASSUME ThreadInv, StartedInv, DestructorInv,
                    MapTypes, ThreadTypes, GuiTypes, RunnerInv, MapInv, GuiInv,
                    QueueInv, [Next]_vars,
                    child \in [Runners -> {"none", "running", "zombie", "reaped"}]
             PROVE  JoinInv'
  BY DEF CoreInv, JoinInv
<1> USE ConstantsAssumption
    DEF JoinInv, ThreadInv, StartedInv, DestructorInv, TerminateFuncSet, MapTypes,
        ThreadTypes, GuiTypes, RunnerInv, MapInv, GuiInv,
        vars, mapVars, threadVars, childVars, jsVars, guiVars
<1>1. ASSUME NEW r \in Runners, ExecSucceeds(r)
      PROVE  JoinInv'
  BY <1>1 DEF ExecSucceeds
<1>2. ASSUME NEW r \in Runners, ExecFails(r)
      PROVE  JoinInv'
  BY <1>2 DEF ExecFails
<1>3. ASSUME NEW r \in Runners, SetTerminateFunc(r)
      PROVE  JoinInv'
  BY <1>3 DEF SetTerminateFunc
<1>4. ASSUME NEW r \in Runners, Reap(r)
      PROVE  JoinInv'
  BY <1>4 DEF Reap
<1>5. ASSUME NEW r \in Runners, CloseSinks(r)
      PROVE  JoinInv'
  BY <1>5 DEF CloseSinks
<1>6. ASSUME NEW r \in Runners, OnRead(r)
      PROVE  JoinInv'
  BY <1>6 DEF OnRead, Post
<1>7. ASSUME NEW r \in Runners, ServiceReturns(r)
      PROVE  JoinInv'
  BY <1>7 DEF ServiceReturns
<1>8. ASSUME NEW r \in Runners, PostTerminate(r)
      PROVE  JoinInv'
  BY <1>8 DEF PostTerminate, Post
<1>9. ASSUME NEW r \in Runners, Write(r)
      PROVE  JoinInv'
  BY <1>9 DEF Write
<1>10. ASSUME NEW r \in Runners, Exit(r)
       PROVE  JoinInv'
  BY <1>10 DEF Exit
<1>11. ASSUME NEW c \in Commands, NEW r \in Runners, RunCommand(c, r)
       PROVE  JoinInv'
  BY <1>11 DEF RunCommand
<1>12. ASSUME NEW c \in Commands, KillCommand(c)
       PROVE  JoinInv'
  <2>1. CASE TerminateAndErase(c)
    BY <1>12, <2>1 DEF KillCommand, TerminateAndErase, Erase, Kill
  <2>2. CASE BadFunctionCall(c)
    BY <1>12, <2>2 DEF KillCommand, BadFunctionCall
  <2> QED
    BY <1>12, <2>1, <2>2 DEF KillCommand
<1>13. ASSUME NEW c \in Commands, DestroyEntry(c)
       PROVE  JoinInv'
  BY <1>13 DEF DestroyEntry, Erase
<1>14. ASSUME RunThrows
       PROVE  JoinInv'
  BY <1>14 DEF RunThrows
<1>15. ASSUME RunReturns
       PROVE  JoinInv'
  BY <1>15 DEF RunReturns
<1>16. ASSUME Joined
       PROVE  JoinInv'
  BY <1>16 DEF Joined
<1>17. ASSUME DeliverRead
       PROVE  JoinInv'
  BY <1>17 DEF DeliverRead
<1>18. ASSUME DeliverTerminate
       PROVE  JoinInv'
  BY <1>18 DEF DeliverTerminate
<1>19. ASSUME FinishTerminate
       PROVE  JoinInv'
  <2> DEFINE c == cmd[handling]
  <2>1. c \in Commands /\ gui = "js" /\ quitting' = quitting
    BY <1>19 DEF FinishTerminate
  <2>2. CASE processes[c] = None
    BY <1>19, <2>2 DEF FinishTerminate
  <2>3. CASE processes[c] # None /\ TerminateAndErase(c)
    <3> HIDE DEF c
    <3> QED
      BY <2>1, <2>3 DEF TerminateAndErase, Erase, Kill
  <2>4. CASE processes[c] # None /\ BadFunctionCall(c)
    <3> HIDE DEF c
    <3> QED
      BY <2>1, <2>4 DEF BadFunctionCall
  <2> QED
    BY <1>19, <2>2, <2>3, <2>4 DEF FinishTerminate
<1>20. ASSUME Quit
       PROVE  JoinInv'
  BY <1>20 DEF Quit
<1>21. ASSUME AllDestroyed
       PROVE  JoinInv'
  BY <1>21 DEF AllDestroyed
<1>22. CASE UNCHANGED vars
  BY <1>22
<1> QED
  BY <1>1, <1>2, <1>3, <1>4, <1>5, <1>6, <1>7, <1>8, <1>9,
     <1>10, <1>11, <1>12, <1>13, <1>14, <1>15, <1>16, <1>17, <1>18,
     <1>19, <1>20, <1>21, <1>22
     DEF Next, Waiter, Service, Over

-----------------------------------------------------------------------------
(* The theorems.                                                           *)

\* The inductive invariant holds.
THEOREM Inductive == Spec => []IInv
<1>1. Init => QueueInv
  BY EmptySeq DEF Init, QueueInv
<1>2. Init => IInv
  BY <1>1, InitCoreInv DEF IInv
<1>3. IInv /\ [Next]_vars => IInv'
  BY NextCoreInv, NextQueueInv DEF IInv
<1> QED
  BY <1>2, <1>3, PTL DEF Spec

\* Every variable keeps its type; in particular a line is never read that
\* was not written, and what is posted comes from a runner.
THEOREM TypeCorrect == Spec => []TypeOK
<1>1. Init => CountTypes
  BY DEF Init, CountTypes
<1>2. Spec => []CountTypes
  BY <1>1, NextCountTypes, Inductive, PTL DEF Spec, IInv
<1>3. QueueInv => events \in Seq(Events)
  <2>1. Postable \subseteq Events
    BY DEF Postable, Events
  <2> QED
    BY <2>1, SeqMonotonic DEF QueueInv
<1>4. IInv /\ CountTypes => TypeOK
  BY <1>3 DEF IInv, CoreInv, CountTypes, TypeOK, ChildTypes, JsTypes
<1> QED
  BY <1>2, <1>4, Inductive, PTL

\* A running child is never lost: JavaScript can kill it under its name, or
\* its runner is being destroyed at exit.  So no two children run under one
\* name, and none outlives a program that comes to its end.
THEOREM NoChildLost == Spec => []Killable
<1>1. IInv => Killable
  BY DEF IInv, CoreInv, OwnedInv, Owned, Killable
<1> QED
  BY <1>1, Inductive, PTL

\* JavaScript is told that a command has terminated only after its child
\* has been reaped, or if none was ever started.
THEOREM DeadBeforeTold == Spec => []ExitAfterDeath
<1>1. IInv => ExitAfterDeath
  BY DEF IInv, CoreInv, RunnerInv, ExitAfterDeath
<1> QED
  BY <1>1, Inductive, PTL

\* No line of a command's output is lost, or heard after its exit: when
\* JavaScript is told that a command has terminated that nobody has killed, it
\* has been told every line the child has written.
THEOREM OutputFirst == Spec => OutputBeforeExit
<1>1. Init => CountTypes
  BY DEF Init, CountTypes
<1>2. Spec => []CountTypes
  BY <1>1, NextCountTypes, Inductive, PTL DEF Spec, IInv
<1>3. ASSUME Init
      PROVE  OutputInv
  <2>1. \A r \in Runners : ReadsOf(events, r) = {}
    BY <1>3 DEF Init, ReadsOf
  <2>2. BalanceInv
    <3> SUFFICES ASSUME NEW r \in Runners
                 PROVE  written[r] = heard[r] + pipe[r] + Cardinality(ReadsOf(events, r))
      BY DEF BalanceInv
    <3>1. written[r] = 0 /\ heard[r] = 0 /\ pipe[r] = 0
      BY <1>3 DEF Init
    <3>2. Cardinality(ReadsOf(events, r)) = 0
      BY <2>1, FS_EmptySet
    <3> QED
      BY <3>1, <3>2
  <2>3. LastInv
    BY <1>3 DEF Init, LastInv
  <2>4. EndInv
    BY <1>3 DEF Init, EndInv
  <2> QED
    BY <2>2, <2>3, <2>4 DEF OutputInv
<1>4. OutputInv /\ IInv /\ CountTypes /\ [Next]_vars => OutputInv'
  BY NextBalanceInv, NextLastInv, NextEndInv DEF OutputInv, IInv
<1>5. Spec => []OutputInv
  BY <1>2, <1>3, <1>4, Inductive, PTL DEF Spec
<1>6. ASSUME OutputInv, IInv, CountTypes, [Next]_vars,
             NEW r \in Runners, told'[r], ~ told[r]
      PROVE  stopped[r] \/ heard[r] = written[r]
  <2>1. QueueInv /\ told \in [Runners -> BOOLEAN]
    BY <1>6 DEF IInv, CoreInv
  <2>2. DeliverTerminate
    BY <1>6, <2>1 DEF Next, vars, mapVars, threadVars, childVars, jsVars, guiVars,
        Waiter, ExecSucceeds, ExecFails, SetTerminateFunc, Reap, CloseSinks,
        Service, OnRead, ServiceReturns, PostTerminate, Write, Exit,
        RunCommand, KillCommand, DestroyEntry, RunThrows, RunReturns, Joined,
        DeliverRead, FinishTerminate, Quit, AllDestroyed, Over
  <2>3. events # <<>> /\ Head(events).type = "terminate" /\ Head(events).from = r
    BY <1>6, <2>1, <2>2 DEF DeliverTerminate
  <2>4. Head(events) = TerminateEvent(r) /\ svc[r] = "done"
    <3>1. Head(events) \in Postable
      BY <2>1, <2>3, HeadPostable
    <3> QED
      BY <2>3, <3>1 DEF Postable, TerminateEvent
  <2>5. ReadsOf(events, r) = {}
    <3>1. Len(events) \in Nat /\ 1 \in 1..Len(events) /\ events[1] = TerminateEvent(r)
      BY <2>1, <2>3, <2>4, EmptySeq, LenProperties DEF QueueInv
    <3>2. \A j \in 1..Len(events) : events[j] = ReadEvent(r) => j < 1
      BY <1>6, <3>1 DEF OutputInv, LastInv
    <3> QED
      BY <3>1, <3>2 DEF ReadsOf
  <2>6. ~ stopped[r] => pipe[r] = 0
    BY <1>6, <2>4 DEF OutputInv, EndInv
  <2>7. written[r] = heard[r] + pipe[r] + 0
    BY <1>6, <2>5, FS_EmptySet DEF OutputInv, BalanceInv
  <2>8. written[r] \in Nat /\ heard[r] \in Nat /\ pipe[r] \in Nat
    BY <1>6 DEF CountTypes
  <2> QED
    BY <2>6, <2>7, <2>8
<1>7. OutputInv /\ IInv /\ CountTypes /\ [Next]_vars =>
         [\A r \in Runners :
             told'[r] /\ ~ told[r] => stopped[r] \/ heard[r] = written[r]]_vars
  BY <1>6
<1> QED
  BY <1>2, <1>5, <1>7, Inductive, PTL DEF Spec, OutputBeforeExit

\* Where the service thread of a runner has ended, or it or its waiter can go
\* on without the child and without any other runner.
Advances(r) ==
    \/ svc[r] = "done"
    \/ svc[r] = "reading" /\ stopped[r]
    \/ svc[r] = "join" /\ waiter[r] \in {"execute", "started", "reaped", "done", "failed"}
    \/ svc[r] = "join" /\ waiter[r] = "waiting" /\ child[r] = "zombie"

\* What the exits of commands and the destructors of runners rest on.
LEMMA OwnInductive == Spec => [](LiveInv /\ JoinInv)
<1>1. Init => LiveInv
  BY DEF Init, LiveInv
<1>2. Init => JoinInv
  BY DEF Init, JoinInv, ThreadInv, StartedInv, DestructorInv
<1>3. LiveInv /\ JoinInv /\ IInv /\ [Next]_vars => (LiveInv /\ JoinInv)'
  BY NextLiveInv, NextJoinInv DEF IInv
<1> QED
  BY <1>1, <1>2, <1>3, Inductive, PTL DEF Spec

\* A destructor never waits for a pipe, for another runner or for a thread
\* that cannot go on: all it can wait for is a child nobody has killed, and
\* that only when the program is closed.
THEOREM DestructorWaitsForChildOnly ==
  Spec => [](gui = "joining" => Advances(current) \/ (quitting /\ child[current] = "running"))
<1>1. IInv /\ JoinInv /\ gui = "joining" =>
         Advances(current) \/ (quitting /\ child[current] = "running")
  <2> SUFFICES ASSUME CoreInv, ThreadInv, DestructorInv, gui = "joining"
               PROVE  Advances(current) \/ (quitting /\ child[current] = "running")
    BY DEF IInv, JoinInv
  <2>1. current \in Runners /\ svc[current] \in {"reading", "join", "done"} /\ stopped[current]
        /\ waiter[current] \in {"none", "execute", "started", "waiting",
                                "reaped", "done", "failed", "joined"}
    BY DEF CoreInv, GuiInv, DestructorInv, ThreadTypes
  <2>2. CASE svc[current] \in {"reading", "done"}
    BY <2>1, <2>2 DEF Advances
  <2>3. CASE svc[current] = "join"
    BY <2>1, <2>3 DEF Advances, ThreadInv, DestructorInv
  <2> QED
    BY <2>1, <2>2, <2>3
<1> QED
  BY <1>1, Inductive, OwnInductive, PTL

\* Which steps change handling: a TerminateEvent is delivered, or its handler
\* ends.
LEMMA HandlingChanges ==
  ASSUME [Next]_vars, handling' # handling
  PROVE  DeliverTerminate \/ FinishTerminate
BY DEF Next, vars, mapVars, threadVars, childVars, jsVars, guiVars,
    Waiter, ExecSucceeds, ExecFails, SetTerminateFunc, Reap, CloseSinks,
    Service, OnRead, ServiceReturns, PostTerminate, Write, Exit,
    RunCommand, KillCommand, DestroyEntry, RunThrows, RunReturns, Joined,
    DeliverRead, Quit, AllDestroyed, Over

\* A service thread that has ended stays so.
LEMMA DoneStays ==
  ASSUME IInv, [Next]_vars, NEW r \in Runners, svc[r] = "done"
  PROVE  svc'[r] = "done"
BY DEF Next, vars, mapVars, threadVars, childVars, jsVars, guiVars,
    Waiter, ExecSucceeds, ExecFails, SetTerminateFunc, Reap, CloseSinks,
    Service, OnRead, ServiceReturns, PostTerminate, Write, Exit,
    RunCommand, KillCommand, DestroyEntry, Erase, RunThrows, RunReturns, Joined,
    DeliverRead, DeliverTerminate, FinishTerminate, TerminateAndErase, BadFunctionCall,
    Quit, AllDestroyed, Over, IInv, CoreInv, GuiInv, GuiTypes, ThreadTypes

\* The exit that is being handled is that of a runner whose threads have ended.
HandledInv == handling # None => svc[handling] = "done"

\* It always is.
LEMMA ExitsHandled == Spec => []HandledInv
<1>1. Init => HandledInv
  BY DEF Init, HandledInv
<1>2. HandledInv /\ IInv /\ [Next]_vars => HandledInv'
  <2> SUFFICES ASSUME HandledInv, IInv, [Next]_vars
               PROVE  HandledInv'
    OBVIOUS
  <2>1. CASE handling' = handling
    <3> SUFFICES ASSUME handling # None
                 PROVE  svc'[handling] = "done"
      BY <2>1 DEF HandledInv
    <3>1. handling \in Runners /\ svc[handling] = "done"
      BY DEF HandledInv, IInv, CoreInv, GuiTypes
    <3> QED
      BY <3>1, DoneStays
  <2>2. CASE DeliverTerminate
    BY <2>2, HeadTerminate, ConstantsAssumption
       DEF DeliverTerminate, HandledInv, IInv, threadVars
  <2>3. CASE FinishTerminate
    BY <2>3 DEF FinishTerminate, HandledInv
  <2> QED
    BY <2>1, <2>2, <2>3, HandlingChanges
<1> QED
  BY <1>1, <1>2, Inductive, PTL DEF Spec

\* The exit of a command that nobody has killed is reported while the map
\* still has its runner, and after its child was reaped: only the exit of a
\* killed run can be reported of a later one, and a start that has failed too
\* late for runCommand() to say so is never reported as an exit.
THEOREM ExitOfOwnRun ==
  Spec => [][\A r \in Runners :
                handling # r /\ handling' = r /\ ~ stopped[r] =>
                    processes[cmd[r]] = r /\ child[r] = "reaped"]_vars
<1>1. ASSUME IInv, LiveInv, [Next]_vars, NEW r \in Runners,
             handling # r, handling' = r, ~ stopped[r]
      PROVE  processes[cmd[r]] = r /\ child[r] = "reaped"
  <2>1. DeliverTerminate
    <3>1. ~ FinishTerminate
      BY <1>1, ConstantsAssumption DEF FinishTerminate
    <3> QED
      BY <1>1, <3>1, HandlingChanges
  <2>2. svc[r] = "done"
    BY <1>1, <2>1, HeadTerminate DEF DeliverTerminate, IInv
  <2>3. cmd[r] # None
    BY <1>1, <2>2 DEF IInv, CoreInv, RunnerInv
  <2> QED
    BY <1>1, <2>2, <2>3 DEF LiveInv
<1>2. IInv /\ LiveInv /\ [Next]_vars =>
         [\A r \in Runners :
             handling # r /\ handling' = r /\ ~ stopped[r] =>
                 processes[cmd[r]] = r /\ child[r] = "reaped"]_vars
  BY <1>1
<1> QED
  BY <1>2, Inductive, OwnInductive, PTL DEF Spec

\* The handler of such an exit kills no child and throws nothing: terminate()
\* finds the reaped child of the same run, and erase() makes its name free.
THEOREM OwnExitKillsNothing ==
  Spec => [][\A r \in Runners :
                handling = r /\ handling' # r /\ ~ stopped[r] =>
                    /\ child' = child
                    /\ gui' # "crashed"
                    /\ processes' = [processes EXCEPT ![cmd[r]] = None]]_vars
<1>1. ASSUME IInv, LiveInv, HandledInv, [Next]_vars, NEW r \in Runners,
             handling = r, handling' # r, ~ stopped[r]
      PROVE  child' = child /\ gui' # "crashed"
             /\ processes' = [processes EXCEPT ![cmd[r]] = None]
  <2>1. FinishTerminate
    <3>1. r # None
      BY ConstantsAssumption
    <3> QED
      BY <1>1, <3>1, HandlingChanges DEF DeliverTerminate
  <2> DEFINE c == cmd[r]
  <2>2. c \in Commands /\ processes[c] = r /\ processes[c] # None
    BY <1>1, ConstantsAssumption DEF IInv, CoreInv, GuiInv, MapTypes, LiveInv
  <2>3. svc[r] = "done" /\ child[r] = "reaped" /\ TerminateFuncSet(r)
    BY <1>1, ConstantsAssumption
       DEF HandledInv, LiveInv, IInv, CoreInv, RunnerInv, TerminateFuncSet
  <2>4. TerminateAndErase(c)
    BY <1>1, <2>1, <2>2, <2>3 DEF FinishTerminate, BadFunctionCall
  <2>5. child' = [child EXCEPT ![r] = "reaped"]
    BY <2>2, <2>3, <2>4 DEF TerminateAndErase, Kill
  <2> QED
    BY <1>1, <2>2, <2>3, <2>4, <2>5 DEF TerminateAndErase, Erase, IInv, CoreInv
<1>2. IInv /\ LiveInv /\ HandledInv /\ [Next]_vars =>
         [\A r \in Runners :
             handling = r /\ handling' # r /\ ~ stopped[r] =>
                 /\ child' = child
                 /\ gui' # "crashed"
                 /\ processes' = [processes EXCEPT ![cmd[r]] = None]]_vars
  BY <1>1
<1> QED
  BY <1>2, Inductive, OwnInductive, ExitsHandled, PTL DEF Spec

=============================================================================
