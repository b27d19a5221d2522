------------------------ MODULE UnitsyncServiceProofs ------------------------
(***************************************************************************)
(* What the page can rely on: no call of an asynchronous handler is lost   *)
(* or answered twice, and a handler whose path is opened once is a         *)
(* first-in first-out service.                                             *)
(***************************************************************************)
EXTENDS UnitsyncHandlerAsyncProofs, FiniteSetTheorems, SequenceTheorems

-----------------------------------------------------------------------------
(* Every call in one place.                                                *)

\* ExactlyOnce of one handler: only finitely many workers hold a call, and
\* nothing is discarded while the handler may still be called.
PlacedOf(h) ==
    /\ 1..submitted[h] = Queued(h) \cup Taken(h) \cup Posted(h) \cup dropped[h]
    /\ IsFiniteSet(Holding(h)) /\ IsFiniteSet(dropped[h])
    /\ submitted[h] = Len(queue[h]) + Cardinality(Holding(h))
                        + Len(results[h]) + Cardinality(dropped[h])
    /\ ready[h] \/ entry[h] = "absent" => dropped[h] = {}

\* ... and of all.
PlaceInv == \A h \in Handlers : PlacedOf(h)

\* What is in a sequence.
Values(q) == {q[i] : i \in DOMAIN q}

\* What is in a sequence that is added to.
LEMMA AppendRange ==
    ASSUME NEW q \in Seq(Nat), NEW x \in Nat
    PROVE  Values(Append(q, x)) = Values(q) \cup {x}
<1>1. /\ Len(q) \in Nat /\ Len(Append(q, x)) = Len(q) + 1
      /\ DOMAIN q = 1..Len(q) /\ DOMAIN Append(q, x) = 1..(Len(q) + 1)
      /\ \A i \in 1..Len(q) : Append(q, x)[i] = q[i]
      /\ Append(q, x)[Len(q) + 1] = x
  OBVIOUS
<1> QED
  BY <1>1 DEF Values

\* What is in a sequence whose head is taken.
LEMMA TailRange ==
    ASSUME NEW q \in Seq(Nat), q # <<>>
    PROVE  Values(q) = Values(Tail(q)) \cup {Head(q)}
<1>1. /\ Len(q) \in Nat \ {0} /\ Len(Tail(q)) = Len(q) - 1
      /\ DOMAIN q = 1..Len(q) /\ DOMAIN Tail(q) = 1..(Len(q) - 1)
      /\ \A i \in 1..(Len(q) - 1) : Tail(q)[i] = q[i + 1]
      /\ Head(q) = q[1]
  BY EmptySeq
<1>2. ASSUME NEW i \in 1..Len(q)
      PROVE  q[i] \in Values(Tail(q)) \cup {Head(q)}
  <2>1. CASE i = 1
    BY <1>1, <2>1 DEF Values
  <2>2. CASE i # 1
    <3>1. i - 1 \in DOMAIN Tail(q) /\ Tail(q)[i - 1] = q[i]
      BY <1>1, <2>2
    <3> QED
      BY <3>1 DEF Values
  <2> QED
    BY <2>1, <2>2
<1>3. ASSUME NEW i \in DOMAIN Tail(q)
      PROVE  Tail(q)[i] \in Values(q)
  <2>1. i + 1 \in DOMAIN q /\ Tail(q)[i] = q[i + 1]
    BY <1>1
  <2> QED
    BY <2>1 DEF Values
<1>4. Head(q) \in Values(q)
  BY <1>1 DEF Values
<1> QED
  BY <1>1, <1>2, <1>3, <1>4 DEF Values

\* The last k numbers up to n are k.
LEMMA SegmentSize ==
    ASSUME NEW q \in Seq(Nat), NEW n \in Nat, \A i \in DOMAIN q : q[i] = n - Len(q) + i
    PROVE  /\ IsFiniteSet(Values(q))
           /\ Cardinality(Values(q)) = Len(q)
<1>1. Len(q) \in Nat /\ DOMAIN q = 1..Len(q)
  OBVIOUS
<1>2. Values(q) = (n - Len(q) + 1)..n
  <2>1. ASSUME NEW i \in 1..Len(q)
        PROVE  q[i] \in (n - Len(q) + 1)..n
    BY <1>1
  <2>2. ASSUME NEW x \in (n - Len(q) + 1)..n
        PROVE  x \in Values(q)
    <3>1. /\ x - (n - Len(q)) \in 1..Len(q)
          /\ n - Len(q) + (x - (n - Len(q))) = x
      BY <1>1
    <3>2. q[x - (n - Len(q))] = x
      BY <1>1, <3>1
    <3> QED
      BY <1>1, <3>1, <3>2 DEF Values
  <2> QED
    BY <1>1, <2>1, <2>2 DEF Values
<1>3. n - Len(q) + 1 \in Int /\ n \in Int
  BY <1>1
<1> DEFINE a == n - Len(q) + 1
<1>4. IsFiniteSet(a..n) /\ Cardinality(a..n) = IF a > n THEN 0 ELSE n - a + 1
  BY <1>3, FS_Interval
<1>5. (IF a > n THEN 0 ELSE n - a + 1) = Len(q)
  BY <1>1
<1> HIDE DEF a
<1> QED
  BY <1>2, <1>4, <1>5 DEF a

\* No call has been made at first.
LEMMA InitPlaceInv == Init => PlaceInv
<1> SUFFICES ASSUME Init, NEW h \in Handlers
             PROVE  PlacedOf(h)
  BY DEF PlaceInv
<1>1. Holding(h) = {}
  BY DEF Init, Holding, WorkersOf
<1>2. Queued(h) = {} /\ Taken(h) = {} /\ Posted(h) = {} /\ dropped[h] = {}
  BY <1>1 DEF Init, Queued, Taken, Posted
<1>3. submitted[h] = 0 /\ Len(queue[h]) = 0 /\ Len(results[h]) = 0
  BY DEF Init
<1>4. 1..submitted[h] = {}
  BY <1>3
<1> QED
  BY <1>1, <1>2, <1>3, <1>4, FS_EmptySet DEF PlacedOf

\* The sizes of the places, when a call enters the first of them, goes on to
\* the next, or all of the first becomes the last.
LEMMA CountMoves ==
    ASSUME NEW n \in Nat, NEW l \in Nat, NEW c \in Nat, NEW r \in Nat, NEW d \in Nat,
           n = l + c + r + d
    PROVE  /\ n + 1 = (l + 1) + c + r + d
           /\ n = (l - 1) + (c + 1) + r + d
           /\ d = 0 => n = 0 + c + r + l
  OBVIOUS

\* A call stays in its place unless it is put into another.
LEMMA Unplaced ==
    ASSUME NEW h \in Handlers, PlacedOf(h), Holding(h)' = Holding(h), Taken(h)' = Taken(h),
           queue'[h] = queue[h], results'[h] = results[h], dropped'[h] = dropped[h],
           submitted'[h] = submitted[h],
           ready'[h] \/ entry'[h] = "absent" => ready[h] \/ entry[h] = "absent"
    PROVE  PlacedOf(h)'
  BY DEF PlacedOf, Queued, Posted

\* A step that changes neither the calls nor who holds them.
LEMMA NothingMoved ==
    ASSUME PlaceInv, UNCHANGED <<entry, ready, queue, submitted, results, dropped, owner, func>>
    PROVE  PlaceInv'
<1>1. ASSUME NEW h \in Handlers
      PROVE  PlacedOf(h)'
  <2>1. Holding(h)' = Holding(h) /\ Taken(h)' = Taken(h)
    BY DEF Holding, Taken, WorkersOf
  <2> QED
    BY <2>1, Unplaced DEF PlaceInv
<1> QED
  BY <1>1 DEF PlaceInv

\* A call is pushed, popped, answered or discarded: it leaves one place for
\* the next.
LEMMA NextPlaceInv == TypeInv /\ CloseInv /\ QueueInv /\ PlaceInv /\ [Next]_vars => PlaceInv'
<1> SUFFICES ASSUME TypeInv, CloseInv, QueueInv, PlaceInv, [Next]_vars
             PROVE  PlaceInv'
  OBVIOUS
<1> USE DEF vars, handlerVars, lockVars, threadVars, guiVars
<1>0. ASSUME UNCHANGED <<entry, ready, queue, submitted, results, dropped, owner, func>>
      PROVE  PlaceInv'
  BY <1>0, NothingMoved
<1>1. ASSUME NEW h \in Handlers, NEW w \in Workers, GetUnitsyncAsync(h, w)
      PROVE  PlaceInv'
  <2>1. /\ pc[w] = "unborn" /\ owner' = [owner EXCEPT ![w] = h]
        /\ gui = "run" /\ (entry[h] = "absent" \/ entry[h] = "live")
        /\ ready' = [ready EXCEPT ![h] = TRUE] /\ entry' = [entry EXCEPT ![h] = "live"]
        /\ UNCHANGED <<queue, submitted, results, dropped, func>>
    BY <1>1 DEF GetUnitsyncAsync
  <2>2. func[w] = None
    BY <2>1 DEF TypeInv, ThreadInv
  <2>3. ASSUME NEW g \in Handlers
        PROVE  PlacedOf(g)'
    <3>1. Holding(g)' = Holding(g)
      BY <2>1, <2>2 DEF Holding, WorkersOf, TypeInv, TypeOK
    <3>2. Taken(g)' = Taken(g)
      BY <2>1, <3>1 DEF Taken
    <3>3. ready[h] \/ entry[h] = "absent"
      BY <2>1 DEF CloseInv
    <3>4. ready'[g] \/ entry'[g] = "absent" => ready[g] \/ entry[g] = "absent"
      BY <2>1, <3>3 DEF TypeInv, TypeOK
    <3> QED
      BY <2>1, <3>1, <3>2, <3>4, Unplaced DEF PlaceInv
  <2> QED
    BY <2>3 DEF PlaceInv
<1>2. ASSUME NEW h \in Handlers, Call(h)
      PROVE  PlaceInv'
  <2>1. /\ submitted' = [submitted EXCEPT ![h] = submitted[h] + 1]
        /\ queue' = [queue EXCEPT ![h] = Append(queue[h], submitted[h] + 1)]
        /\ UNCHANGED <<entry, ready, results, dropped, owner, func>>
    BY <1>2 DEF Call
  <2>2. /\ submitted \in [Handlers -> Nat] /\ queue \in [Handlers -> Seq(Nat)]
        /\ results \in [Handlers -> Seq(Nat)]
    BY DEF TypeInv, TypeOK
  <2>3. ASSUME NEW g \in Handlers
        PROVE  PlacedOf(g)'
    <3>1. Holding(g)' = Holding(g) /\ Taken(g)' = Taken(g)
      BY <2>1 DEF Holding, Taken, WorkersOf
    <3>2. CASE g # h
      <4>1. queue'[g] = queue[g] /\ submitted'[g] = submitted[g]
        BY <2>1, <2>2, <3>2
      <4> QED
        BY <2>1, <3>1, <4>1, Unplaced DEF PlaceInv
    <3>3. CASE g = h
      <4>1. queue'[g] = Append(queue[g], submitted[g] + 1) /\ submitted'[g] = submitted[g] + 1
        BY <2>1, <2>2, <3>3
      <4>2. queue[g] \in Seq(Nat) /\ submitted[g] \in Nat /\ submitted[g] + 1 \in Nat
        BY <2>2
      <4>3. Queued(g)' = Queued(g) \cup {submitted[g] + 1}
        <5>1. Queued(g) = Values(queue[g]) /\ Queued(g)' = Values(queue'[g])
          BY DEF Queued, Values
        <5>2. Values(Append(queue[g], submitted[g] + 1)) = Values(queue[g]) \cup {submitted[g] + 1}
          BY <4>2, AppendRange
        <5> QED
          BY <4>1, <5>1, <5>2
      <4>4. Posted(g)' = Posted(g) /\ dropped'[g] = dropped[g]
        BY <2>1 DEF Posted
      <4>5. 1..submitted'[g] = (1..submitted[g]) \cup {submitted[g] + 1}
        BY <4>1, <4>2
      <4>6. 1..submitted'[g] = Queued(g)' \cup Taken(g)' \cup Posted(g)' \cup dropped'[g]
        BY <3>1, <4>3, <4>4, <4>5 DEF PlaceInv, PlacedOf
      <4>7. Len(queue'[g]) = Len(queue[g]) + 1
        BY <4>1, <4>2, AppendProperties
      <4>8. /\ IsFiniteSet(Holding(g)) /\ IsFiniteSet(dropped[g])
            /\ submitted[g] = Len(queue[g]) + Cardinality(Holding(g))
                                + Len(results[g]) + Cardinality(dropped[g])
            /\ ready[g] \/ entry[g] = "absent" => dropped[g] = {}
        BY DEF PlaceInv, PlacedOf
      <4>9. /\ Cardinality(Holding(g)) \in Nat /\ Cardinality(dropped[g]) \in Nat
            /\ Len(queue[g]) \in Nat /\ Len(results[g]) \in Nat
        BY <2>2, <4>8, FS_CardinalityType
      <4>10. submitted[g] + 1 = (Len(queue[g]) + 1) + Cardinality(Holding(g))
                                  + Len(results[g]) + Cardinality(dropped[g])
        BY <4>2, <4>8, <4>9, CountMoves
      <4>11. submitted'[g] = Len(queue'[g]) + Cardinality(Holding(g)')
                               + Len(results'[g]) + Cardinality(dropped'[g])
        BY <2>1, <3>1, <4>1, <4>7, <4>10
      <4> QED
        BY <2>1, <3>1, <4>6, <4>8, <4>11 DEF PlacedOf
    <3> QED
      BY <3>2, <3>3
  <2> QED
    BY <2>3 DEF PlaceInv
<1>3. ASSUME NEW w \in Workers, TestReady(w)
      PROVE  PlaceInv'
  BY <1>3, <1>0 DEF TestReady
<1>4. ASSUME NEW w \in Workers, LockQueue(w)
      PROVE  PlaceInv'
  BY <1>4, <1>0 DEF LockQueue
<1>5. ASSUME NEW w \in Workers, MustWait(w)
      PROVE  PlaceInv'
  BY <1>5, <1>0 DEF MustWait
<1>6. ASSUME NEW w \in Workers, Wait(w)
      PROVE  PlaceInv'
  BY <1>6, <1>0 DEF Wait
<1>7. ASSUME NEW w \in Workers, SpuriousWakeup(w)
      PROVE  PlaceInv'
  BY <1>7, <1>0 DEF SpuriousWakeup
<1>8. ASSUME NEW w \in Workers, Break(w)
      PROVE  PlaceInv'
  BY <1>8, <1>0 DEF Break
<1>9. ASSUME NEW w \in Workers, Pop(w)
      PROVE  PlaceInv'
  <2>1. /\ func' = [func EXCEPT ![w] = Head(queue[owner[w]])]
        /\ queue' = [queue EXCEPT ![owner[w]] = Tail(queue[owner[w]])]
        /\ queue[owner[w]] # <<>> /\ pc[w] = "check"
        /\ UNCHANGED <<entry, ready, results, dropped, submitted, owner>>
    BY <1>9 DEF Pop, AtStep
  <2>2. /\ owner[w] \in Handlers /\ func[w] = None
        /\ func \in [Workers -> Nat \cup {None}] /\ queue \in [Handlers -> Seq(Nat)]
        /\ submitted \in [Handlers -> Nat] /\ results \in [Handlers -> Seq(Nat)]
    BY <2>1 DEF TypeInv, TypeOK, ThreadInv, WorkerStates
  <2>3. ASSUME NEW g \in Handlers
        PROVE  PlacedOf(g)'
    <3>1. CASE g # owner[w]
      <4>1. queue'[g] = queue[g]
        BY <2>1, <2>2, <3>1
      <4>2. Holding(g)' = Holding(g)
        BY <2>1, <2>2, <3>1 DEF Holding, WorkersOf
      <4>3. Taken(g)' = Taken(g)
        BY <2>1, <2>2, <3>1, <4>2 DEF Taken, Holding, WorkersOf
      <4> QED
        BY <2>1, <4>1, <4>2, <4>3, Unplaced DEF PlaceInv
    <3>2. CASE g = owner[w]
      <4> DEFINE x == Head(queue[g])
      <4>1. /\ queue'[g] = Tail(queue[g]) /\ func'[w] = x /\ queue[g] # <<>>
            /\ queue[g] \in Seq(Nat)
        BY <2>1, <2>2, <3>2
      <4>2. /\ x \in Nat /\ Len(queue[g]) \in Nat \ {0}
            /\ Len(Tail(queue[g])) = Len(queue[g]) - 1
        BY <4>1, EmptySeq, HeadTailProperties
      <4>3. x # None
        BY <4>2, ConstantsAssumption
      <4> HIDE DEF x
      <4>4. Holding(g)' = Holding(g) \cup {w} /\ w \notin Holding(g)
        BY <2>1, <2>2, <3>2, <4>1, <4>3 DEF Holding, WorkersOf
      <4>5. Taken(g)' = Taken(g) \cup {x}
        <5>1. \A v \in Holding(g) : func'[v] = func[v]
          BY <2>1, <2>2, <4>4 DEF Holding, WorkersOf
        <5> QED
          BY <4>1, <4>4, <5>1 DEF Taken
      <4>6. Queued(g) = Queued(g)' \cup {x}
        <5>1. Queued(g) = Values(queue[g]) /\ Queued(g)' = Values(queue'[g])
          BY DEF Queued, Values
        <5>2. Values(queue[g]) = Values(Tail(queue[g])) \cup {x}
          BY <4>1, TailRange DEF x
        <5> QED
          BY <4>1, <5>1, <5>2
      <4>7. Posted(g)' = Posted(g)
        BY <2>1 DEF Posted
      <4>8. /\ 1..submitted[g] = Queued(g) \cup Taken(g) \cup Posted(g) \cup dropped[g]
            /\ IsFiniteSet(Holding(g)) /\ IsFiniteSet(dropped[g])
            /\ submitted[g] = Len(queue[g]) + Cardinality(Holding(g))
                                + Len(results[g]) + Cardinality(dropped[g])
            /\ ready[g] \/ entry[g] = "absent" => dropped[g] = {}
        BY DEF PlaceInv, PlacedOf
      <4>9. /\ IsFiniteSet(Holding(g)')
            /\ Cardinality(Holding(g)') = Cardinality(Holding(g)) + 1
        BY <4>4, <4>8, FS_AddElement
      <4>10. /\ Cardinality(Holding(g)) \in Nat /\ Cardinality(dropped[g]) \in Nat
             /\ Len(results[g]) \in Nat /\ submitted[g] \in Nat
        BY <2>2, <4>8, FS_CardinalityType
      <4>11. submitted[g] = (Len(queue[g]) - 1) + (Cardinality(Holding(g)) + 1)
                              + Len(results[g]) + Cardinality(dropped[g])
        BY <4>2, <4>8, <4>10, CountMoves
      <4>12. submitted'[g] = Len(queue'[g]) + Cardinality(Holding(g)')
                               + Len(results'[g]) + Cardinality(dropped'[g])
        BY <2>1, <4>1, <4>2, <4>9, <4>11
      <4>13. 1..submitted'[g] = Queued(g)' \cup Taken(g)' \cup Posted(g)' \cup dropped'[g]
        BY <2>1, <4>5, <4>6, <4>7, <4>8
      <4> QED
        BY <2>1, <4>8, <4>9, <4>12, <4>13 DEF PlacedOf
    <3> QED
      BY <3>1, <3>2
  <2> QED
    BY <2>3 DEF PlaceInv
<1>10. ASSUME NEW w \in Workers, BeginCall(w)
       PROVE  PlaceInv'
  BY <1>10, <1>0 DEF BeginCall
<1>11. ASSUME NEW w \in Workers, EndCall(w)
       PROVE  PlaceInv'
  <2>1. /\ results' = [results EXCEPT ![owner[w]] = Append(results[owner[w]], func[w])]
        /\ func' = [func EXCEPT ![w] = None]
        /\ pc[w] = "exec"
        /\ UNCHANGED <<entry, ready, queue, dropped, submitted, owner>>
    BY <1>11 DEF EndCall, AtStep
  <2>2. /\ owner[w] \in Handlers /\ func[w] \in Nat /\ func[w] # None
        /\ func \in [Workers -> Nat \cup {None}] /\ queue \in [Handlers -> Seq(Nat)]
        /\ submitted \in [Handlers -> Nat] /\ results \in [Handlers -> Seq(Nat)]
    BY <2>1 DEF TypeInv, TypeOK, ThreadInv, WorkerStates
  <2>3. ASSUME NEW g \in Handlers
        PROVE  PlacedOf(g)'
    <3>1. CASE g # owner[w]
      <4>1. results'[g] = results[g]
        BY <2>1, <2>2, <3>1
      <4>2. Holding(g)' = Holding(g)
        BY <2>1, <2>2, <3>1 DEF Holding, WorkersOf
      <4>3. Taken(g)' = Taken(g)
        BY <2>1, <2>2, <3>1, <4>2 DEF Taken, Holding, WorkersOf
      <4> QED
        BY <2>1, <4>1, <4>2, <4>3, Unplaced DEF PlaceInv
    <3>2. CASE g = owner[w]
      <4>1. results'[g] = Append(results[g], func[w]) /\ func'[w] = None
            /\ results[g] \in Seq(Nat)
        BY <2>1, <2>2, <3>2
      <4>2. Len(results'[g]) = Len(results[g]) + 1 /\ Len(results[g]) \in Nat
        BY <2>2, <4>1, AppendProperties
      <4>3. Holding(g)' = Holding(g) \ {w} /\ w \in Holding(g)
        BY <2>1, <2>2, <3>2, <4>1 DEF Holding, WorkersOf
      <4>4. Taken(g) = Taken(g)' \cup {func[w]}
        <5>1. \A v \in Holding(g) \ {w} : func'[v] = func[v]
          BY <2>1, <2>2 DEF Holding, WorkersOf
        <5> QED
          BY <4>3, <5>1 DEF Taken
      <4>5. Posted(g)' = Posted(g) \cup {func[w]}
        <5>1. Posted(g) = Values(results[g]) /\ Posted(g)' = Values(results'[g])
          BY DEF Posted, Values
        <5>2. Values(Append(results[g], func[w])) = Values(results[g]) \cup {func[w]}
          BY <2>2, <4>1, AppendRange
        <5> QED
          BY <4>1, <5>1, <5>2
      <4>6. Queued(g)' = Queued(g)
        BY <2>1 DEF Queued
      <4>7. /\ 1..submitted[g] = Queued(g) \cup Taken(g) \cup Posted(g) \cup dropped[g]
            /\ IsFiniteSet(Holding(g)) /\ IsFiniteSet(dropped[g])
            /\ submitted[g] = Len(queue[g]) + Cardinality(Holding(g))
                                + Len(results[g]) + Cardinality(dropped[g])
            /\ ready[g] \/ entry[g] = "absent" => dropped[g] = {}
        BY DEF PlaceInv, PlacedOf
      <4>8. /\ IsFiniteSet(Holding(g)')
            /\ Cardinality(Holding(g)') = Cardinality(Holding(g)) - 1
        BY <4>3, <4>7, FS_RemoveElement
      <4>9. /\ Cardinality(Holding(g)) \in Nat /\ Cardinality(dropped[g]) \in Nat
            /\ Len(queue[g]) \in Nat /\ submitted[g] \in Nat
        BY <2>2, <4>7, FS_CardinalityType
      <4>10. submitted[g] = Len(queue[g]) + (Cardinality(Holding(g)) - 1)
                              + (Len(results[g]) + 1) + Cardinality(dropped[g])
        <5>1. submitted[g] = Len(queue[g]) + Cardinality(Holding(g))
                               + Len(results[g]) + Cardinality(dropped[g])
          BY <4>7
        <5>2. PICK l, c, r, d : l = Len(queue[g]) /\ c = Cardinality(Holding(g))
                                 /\ r = Len(results[g]) /\ d = Cardinality(dropped[g])
          OBVIOUS
        <5>3. l \in Nat /\ c \in Nat /\ r \in Nat /\ d \in Nat
          BY <4>2, <4>9, <5>2
        <5>4. submitted[g] = l + c + r + d
          BY <5>1, <5>2
        <5>5. l + c + r + d = l + (c - 1) + (r + 1) + d
          BY <5>3
        <5> QED
          BY <5>2, <5>4, <5>5
      <4>11. submitted'[g] = Len(queue'[g]) + Cardinality(Holding(g)')
                               + Len(results'[g]) + Cardinality(dropped'[g])
        BY <2>1, <4>2, <4>8, <4>10
      <4>12. 1..submitted'[g] = Queued(g)' \cup Taken(g)' \cup Posted(g)' \cup dropped'[g]
        BY <2>1, <4>4, <4>5, <4>6, <4>7
      <4> QED
        BY <2>1, <4>7, <4>8, <4>11, <4>12 DEF PlacedOf
    <3> QED
      BY <3>1, <3>2
  <2> QED
    BY <2>3 DEF PlaceInv
<1>12. ASSUME Shutdown
       PROVE  PlaceInv'
  BY <1>12, <1>0 DEF Shutdown
<1>13. ASSUME NEW h \in Handlers, ClearQueue(h)
       PROVE  PlaceInv'
  <2>1. /\ gui = "destroy" /\ entry[h] = "live"
        /\ dropped' = [dropped EXCEPT ![h] = Queued(h)]
        /\ queue' = [queue EXCEPT ![h] = <<>>] /\ ready' = [ready EXCEPT ![h] = FALSE]
        /\ UNCHANGED <<entry, submitted, results, owner, func>>
    BY <1>13 DEF ClearQueue, Queued
  <2>2. /\ queue \in [Handlers -> Seq(Nat)] /\ ready \in [Handlers -> BOOLEAN]
        /\ submitted \in [Handlers -> Nat] /\ results \in [Handlers -> Seq(Nat)]
        /\ dropped \in [Handlers -> SUBSET Nat]
    BY DEF TypeInv, TypeOK
  <2>3. ready[h]
    BY <2>1 DEF CloseInv
  <2>4. ASSUME NEW g \in Handlers
        PROVE  PlacedOf(g)'
    <3>1. Holding(g)' = Holding(g) /\ Taken(g)' = Taken(g)
      BY <2>1 DEF Holding, Taken, WorkersOf
    <3>2. CASE g # h
      <4>1. /\ queue'[g] = queue[g] /\ dropped'[g] = dropped[g] /\ ready'[g] = ready[g]
        BY <2>1, <2>2, <3>2
      <4> QED
        BY <2>1, <3>1, <4>1, Unplaced DEF PlaceInv
    <3>3. CASE g = h
      <4>1. /\ queue'[g] = <<>> /\ dropped'[g] = Queued(g) /\ ready'[g] = FALSE
            /\ entry'[g] = "live"
        BY <2>1, <2>2, <3>3
      <4>2. IsFiniteSet(Queued(g)) /\ Cardinality(Queued(g)) = Len(queue[g])
        BY <2>2, SegmentSize DEF Queued, Values, QueueInv
      <4>3. /\ 1..submitted[g] = Queued(g) \cup Taken(g) \cup Posted(g) \cup dropped[g]
            /\ IsFiniteSet(Holding(g)) /\ dropped[g] = {}
            /\ submitted[g] = Len(queue[g]) + Cardinality(Holding(g))
                                + Len(results[g]) + Cardinality(dropped[g])
        BY <2>3, <3>3 DEF PlaceInv, PlacedOf
      <4>4. /\ Cardinality(Holding(g)) \in Nat /\ Cardinality(dropped[g]) = 0
            /\ Len(queue[g]) \in Nat /\ Len(results[g]) \in Nat /\ submitted[g] \in Nat
        BY <2>2, <4>3, FS_CardinalityType, FS_EmptySet
      <4>5. submitted[g] = 0 + Cardinality(Holding(g)) + Len(results[g]) + Len(queue[g])
        BY <4>3, <4>4, CountMoves
      <4>6. submitted'[g] = Len(queue'[g]) + Cardinality(Holding(g)')
                              + Len(results'[g]) + Cardinality(dropped'[g])
        BY <2>1, <3>1, <4>1, <4>2, <4>5
      <4>7. Queued(g)' = {} /\ Posted(g)' = Posted(g)
        BY <2>1, <4>1 DEF Queued, Posted
      <4>8. 1..submitted'[g] = Queued(g)' \cup Taken(g)' \cup Posted(g)' \cup dropped'[g]
        BY <2>1, <3>1, <4>1, <4>3, <4>7
      <4> QED
        BY <3>1, <4>1, <4>2, <4>3, <4>6, <4>8 DEF PlacedOf
    <3> QED
      BY <3>2, <3>3
  <2> QED
    BY <2>4 DEF PlaceInv
<1>14. ASSUME NotifyExit
       PROVE  PlaceInv'
  BY <1>14, <1>0 DEF NotifyExit
<1>15. ASSUME JoinAndClose
       PROVE  PlaceInv'
  <2>1. /\ entry' = [entry EXCEPT ![target] = "destroyed"]
        /\ UNCHANGED <<ready, queue, submitted, results, dropped, owner, func>>
    BY <1>15 DEF JoinAndClose
  <2>2. ASSUME NEW g \in Handlers
        PROVE  PlacedOf(g)'
    <3>1. Holding(g)' = Holding(g) /\ Taken(g)' = Taken(g)
      BY <2>1 DEF Holding, Taken, WorkersOf
    <3>2. entry'[g] = "absent" => entry[g] = "absent"
      BY <2>1 DEF TypeInv, TypeOK
    <3> QED
      BY <2>1, <3>1, <3>2, Unplaced DEF PlaceInv
  <2> QED
    BY <2>2 DEF PlaceInv
<1>16. ASSUME AllDestroyed
       PROVE  PlaceInv'
  BY <1>16, <1>0 DEF AllDestroyed
<1>17. ASSUME NEW w \in Workers, UseAfterDestroy(w)
       PROVE  PlaceInv'
  BY <1>17, <1>0 DEF UseAfterDestroy
<1>18. CASE UNCHANGED vars
  BY <1>18, <1>0
<1> QED
  BY <1>1, <1>2, <1>3, <1>4, <1>5, <1>6, <1>7, <1>8, <1>9,
     <1>10, <1>11, <1>12, <1>13, <1>14, <1>15, <1>16, <1>17, <1>18
     DEF Next, Worker, Destructor, Stopped

\* Every call a handler accepted is in exactly one place, waiting, taken,
\* answered or discarded, with any number of workers on its queue.
THEOREM CallsKept == Spec => []ExactlyOnce
<1>1. PlaceInv => ExactlyOnce
  BY DEF PlaceInv, PlacedOf, ExactlyOnce
<1>2. Init => QueueInv
  BY InitFifoInv DEF FifoInv
<1> QED
  BY <1>1, <1>2, InitTypeInv, NextTypeInv, InitCloseInv, NextCloseInv, NextQueueInv,
     InitPlaceInv, NextPlaceInv, PTL DEF Spec
-----------------------------------------------------------------------------
(* The service, when no path is opened again.                              *)

\* Every handler has one worker, and it is workThread.
OneWorker == \A w \in Workers : owner[w] # None => thread[owner[w]] = w

\* What the refinement needs to know of a state.
ServiceInv == TypeInv /\ CloseInv /\ OpenedInv /\ OneWorker

\* No worker has been started at first.
LEMMA InitOneWorker == Init => OneWorker
  BY DEF Init, OneWorker

\* startThread() is called once, when the entry is made.
LEMMA NextOneWorker ==
    ASSUME Reopen = FALSE, TypeInv, CloseInv, OneWorker, [Next]_vars
    PROVE  OneWorker'
<1> USE DEF vars, handlerVars, lockVars, threadVars, guiVars
<1>0. ASSUME UNCHANGED <<thread, owner>>
      PROVE  OneWorker'
  BY <1>0 DEF OneWorker
<1>1. ASSUME NEW h \in Handlers, NEW w \in Workers, GetUnitsyncAsync(h, w)
      PROVE  OneWorker'
  <2>1. /\ entry[h] = "absent" /\ owner' = [owner EXCEPT ![w] = h]
        /\ thread' = [thread EXCEPT ![h] = w]
    BY <1>1 DEF GetUnitsyncAsync
  <2>2. /\ owner \in [Workers -> Handlers \cup {None}]
        /\ thread \in [Handlers -> Workers \cup {None}]
    BY DEF TypeInv, TypeOK
  <2>3. ASSUME NEW v \in Workers, owner'[v] # None
        PROVE  thread'[owner'[v]] = v
    <3>1. CASE v = w
      BY <2>1, <2>2, <3>1
    <3>2. CASE v # w
      <4>1. owner'[v] = owner[v]
        BY <2>1, <2>2, <3>2
      <4>2. owner[v] # h /\ thread[owner[v]] = v
        BY <2>1, <2>3, <4>1 DEF CloseInv, OneWorker
      <4> QED
        BY <2>1, <2>2, <4>1, <4>2
    <3> QED
      BY <3>1, <3>2
  <2> QED
    BY <2>3 DEF OneWorker
<1>2. ASSUME NEW h \in Handlers, Call(h)
      PROVE  OneWorker'
  BY <1>2, <1>0 DEF Call
<1>3. ASSUME NEW w \in Workers, Worker(w) \/ SpuriousWakeup(w) \/ UseAfterDestroy(w)
      PROVE  OneWorker'
  BY <1>3, <1>0 DEF Worker, TestReady, LockQueue, MustWait, Wait, Break, Pop, BeginCall,
                    EndCall, SpuriousWakeup, UseAfterDestroy
<1>4. ASSUME Shutdown \/ Destructor
      PROVE  OneWorker'
  BY <1>4, <1>0 DEF Shutdown, Destructor, ClearQueue, NotifyExit, JoinAndClose, AllDestroyed
<1>5. CASE UNCHANGED vars
  BY <1>5, <1>0
<1> QED
  BY <1>1, <1>2, <1>3, <1>4, <1>5 DEF Next, Stopped

\* The service's variables, as ServiceRefinement maps them.
pendingOf == [h \in Handlers |-> inService[h] \o queue[h]]

serviceVars == <<phaseOf, submitted, pendingOf, results>>

\* The service changes only when a handler's entry, calls or results do.
LEMMA ServiceStutters ==
    ASSUME UNCHANGED <<phaseOf, inService, queue, submitted, results>>
    PROVE  UNCHANGED serviceVars
  BY DEF serviceVars, pendingOf

\* ... and not when only locks, wake-ups and the GUI thread's progress do.
LEMMA ServiceWaits ==
    ASSUME UNCHANGED <<entry, ready, queue, submitted, results, thread, func>>
    PROVE  UNCHANGED serviceVars
<1>1. phaseOf' = phaseOf /\ inService' = inService
  BY DEF phaseOf, inService
<1> QED
  BY <1>1, ServiceStutters

\* What the service of a handler holds while its worker has taken a call.
LEMMA InServiceOf ==
    ASSUME ServiceInv, NEW w \in Workers, owner[w] # None
    PROVE  /\ owner[w] \in Handlers /\ thread[owner[w]] = w
           /\ inService[owner[w]] = IF func[w] = None THEN <<>> ELSE <<func[w]>>
<1>1. owner[w] \in Handlers
  BY DEF ServiceInv, TypeInv, TypeOK
<1>2. thread[owner[w]] = w
  BY DEF ServiceInv, OneWorker
<1>3. w # None
  BY ConstantsAssumption
<1> QED
  BY <1>1, <1>2, <1>3 DEF inService

\* One call, or none, is in service.
LEMMA InServiceType ==
    ASSUME ServiceInv, NEW h \in Handlers
    PROVE  inService[h] \in Seq(Nat) /\ queue[h] \in Seq(Nat)
<1>1. queue[h] \in Seq(Nat)
  BY DEF ServiceInv, TypeInv, TypeOK
<1>2. thread[h] # None => func[thread[h]] \in Nat \cup {None}
  BY DEF ServiceInv, TypeInv, TypeOK
<1>3. inService[h] = <<>> \/ \E x \in Nat : inService[h] = <<x>>
  BY <1>2 DEF inService
<1>4. <<>> \in Seq(Nat) /\ \A x \in Nat : <<x>> \in Seq(Nat)
  OBVIOUS
<1> QED
  BY <1>1, <1>3, <1>4

\* Before the first path is opened all services are absent.
LEMMA ServiceInit == Init => Service!Init
<1> SUFFICES ASSUME Init
             PROVE  Service!Init
  OBVIOUS
<1>1. phaseOf = [h \in Handlers |-> "absent"]
  BY DEF Init, phaseOf
<1>2. inService = [h \in Handlers |-> <<>>]
  BY DEF Init, inService
<1>3. \A h \in Handlers : inService[h] \o queue[h] = <<>>
  BY <1>2 DEF Init
<1> QED
  BY <1>1, <1>3 DEF Init, Service!Init

\* getUnitsyncAsync() opens a service.
LEMMA ServiceOpens ==
    ASSUME Reopen = FALSE, ServiceInv, NEW h \in Handlers, NEW w \in Workers,
           GetUnitsyncAsync(h, w)
    PROVE  Service!Open(h)
<1> USE DEF vars, handlerVars, lockVars, threadVars, guiVars
<1>1. /\ entry[h] = "absent" /\ pc[w] = "unborn"
      /\ entry' = [entry EXCEPT ![h] = "live"] /\ ready' = [ready EXCEPT ![h] = TRUE]
      /\ thread' = [thread EXCEPT ![h] = w]
      /\ UNCHANGED <<queue, submitted, results, func>>
  BY DEF GetUnitsyncAsync
<1>2. /\ entry \in [Handlers -> {"absent", "live", "destroyed"}]
      /\ ready \in [Handlers -> BOOLEAN] /\ thread \in [Handlers -> Workers \cup {None}]
      /\ func[w] = None /\ thread[h] = None
  BY <1>1 DEF ServiceInv, TypeInv, TypeOK, ThreadInv, OpenedInv
<1>3. phaseOf[h] = "absent"
  BY <1>1 DEF phaseOf
<1>4. phaseOf' = [phaseOf EXCEPT ![h] = "open"]
  BY <1>1, <1>2 DEF phaseOf
<1>5. inService' = inService
  BY <1>1, <1>2, ConstantsAssumption DEF inService
<1> QED
  BY <1>1, <1>3, <1>4, <1>5 DEF Service!Open

\* A call is submitted to an open service.
LEMMA ServiceSubmits ==
    ASSUME ServiceInv, NEW h \in Handlers, Call(h)
    PROVE  Service!Submit(h)
<1> USE DEF vars, handlerVars, lockVars, threadVars, guiVars
<1>1. /\ gui = "run" /\ entry[h] = "live"
      /\ submitted' = [submitted EXCEPT ![h] = submitted[h] + 1]
      /\ queue' = [queue EXCEPT ![h] = Append(queue[h], submitted[h] + 1)]
      /\ UNCHANGED <<entry, ready, thread, func, results>>
  BY DEF Call
<1>2. ready[h]
  BY <1>1 DEF ServiceInv, CloseInv
<1>3. phaseOf[h] = "open" /\ phaseOf' = phaseOf /\ inService' = inService
  BY <1>1, <1>2 DEF phaseOf, inService
<1>4. queue \in [Handlers -> Seq(Nat)] /\ submitted[h] + 1 \in Nat
  BY DEF ServiceInv, TypeInv, TypeOK
<1>5. inService[h] \o Append(queue[h], submitted[h] + 1)
        = Append(inService[h] \o queue[h], submitted[h] + 1)
  <2> DEFINE p == inService[h]
             q == queue[h]
             x == submitted[h] + 1
  <2>1. p \in Seq(Nat) /\ q \in Seq(Nat) /\ x \in Nat
    BY <1>4, InServiceType
  <2> HIDE DEF p, q, x
  <2>2. <<x>> \in Seq(Nat) /\ p \o q \in Seq(Nat)
    BY <2>1, ConcatProperties
  <2>3. Append(q, x) = q \o <<x>> /\ Append(p \o q, x) = (p \o q) \o <<x>>
    BY <2>1, <2>2, AppendIsConcat
  <2>4. p \o (q \o <<x>>) = (p \o q) \o <<x>>
    BY <2>1, <2>2, ConcatAssociative
  <2>5. p \o Append(q, x) = Append(p \o q, x)
    BY <2>3, <2>4
  <2> QED
    BY <2>5 DEF p, q, x
<1>6. pendingOf' = [pendingOf EXCEPT ![h] = Append(pendingOf[h], submitted[h] + 1)]
  BY <1>1, <1>3, <1>4, <1>5 DEF pendingOf
<1> QED
  BY <1>1, <1>3, <1>6 DEF Service!Submit, pendingOf

\* A call that is popped stays the oldest one pending.
LEMMA ServiceHolds ==
    ASSUME ServiceInv, NEW w \in Workers, Pop(w)
    PROVE  UNCHANGED serviceVars
<1> USE DEF vars, handlerVars, lockVars, threadVars, guiVars
<1> DEFINE h == owner[w]
<1>1. /\ func' = [func EXCEPT ![w] = Head(queue[h])]
      /\ queue' = [queue EXCEPT ![h] = Tail(queue[h])]
      /\ queue[h] # <<>> /\ pc[w] = "check"
      /\ UNCHANGED <<entry, ready, results, submitted, owner, thread>>
  BY DEF Pop, AtStep
<1>2. /\ owner[w] # None /\ func[w] = None
      /\ func \in [Workers -> Nat \cup {None}] /\ queue \in [Handlers -> Seq(Nat)]
      /\ thread \in [Handlers -> Workers \cup {None}]
  BY <1>1 DEF ServiceInv, TypeInv, TypeOK, ThreadInv, WorkerStates
<1>3. h \in Handlers /\ thread[h] = w /\ inService[h] = <<>>
  BY <1>2, InServiceOf
<1>4. Head(queue[h]) \in Nat /\ queue[h] \in Seq(Nat)
  BY <1>1, <1>2, <1>3, EmptySeq, HeadTailProperties
<1>5. func'[w] = Head(queue[h]) /\ func'[w] # None /\ queue'[h] = Tail(queue[h])
  BY <1>1, <1>2, <1>3, <1>4, ConstantsAssumption
<1>6. inService'[h] = <<Head(queue[h])>>
  BY <1>1, <1>3, <1>5, ConstantsAssumption DEF inService
<1>7. <<Head(queue[h])>> \o Tail(queue[h]) = <<>> \o queue[h]
  BY <1>1, <1>4
<1>8. ASSUME NEW g \in Handlers, g # h
      PROVE  inService'[g] = inService[g] /\ queue'[g] = queue[g]
  <2>1. thread[g] # w
    BY <1>8, ConstantsAssumption DEF ServiceInv, OpenedInv
  <2> QED
    BY <1>1, <1>2, <1>8, <2>1 DEF inService
<1>9. \A g \in Handlers : inService'[g] \o queue'[g] = inService[g] \o queue[g]
  BY <1>3, <1>5, <1>6, <1>7, <1>8
<1>10. phaseOf' = phaseOf
  BY <1>1 DEF phaseOf
<1> QED
  BY <1>1, <1>9, <1>10 DEF serviceVars, pendingOf

\* A result that is posted answers the oldest call pending.
LEMMA ServiceAnswers ==
    ASSUME ServiceInv, NEW w \in Workers, EndCall(w), NEW h, h = owner[w]
    PROVE  h \in Handlers /\ Service!Answer(h)
<1> USE DEF vars, handlerVars, lockVars, threadVars, guiVars
<1>1. /\ results' = [results EXCEPT ![h] = Append(results[h], func[w])]
      /\ func' = [func EXCEPT ![w] = None] /\ pc[w] = "exec"
      /\ UNCHANGED <<entry, ready, queue, submitted, owner, thread>>
  BY DEF EndCall, AtStep
<1>2. /\ owner[w] # None /\ func[w] \in Nat /\ func[w] # None
      /\ func \in [Workers -> Nat \cup {None}] /\ queue \in [Handlers -> Seq(Nat)]
  BY <1>1 DEF ServiceInv, TypeInv, TypeOK, ThreadInv, WorkerStates
<1>3. h \in Handlers /\ thread[h] = w /\ inService[h] = <<func[w]>>
  BY <1>2, InServiceOf
<1>4. func'[w] = None /\ queue' = queue
  BY <1>1, <1>2
<1>5. inService'[h] = <<>>
  BY <1>1, <1>3, <1>4 DEF inService
<1>6. queue[h] \in Seq(Nat)
  BY <1>2, <1>3
<1>7. /\ <<func[w]>> \o queue[h] # <<>> /\ Head(<<func[w]>> \o queue[h]) = func[w]
      /\ Tail(<<func[w]>> \o queue[h]) = <<>> \o queue[h]
  BY <1>2, <1>6
<1>8. ASSUME NEW g \in Handlers, g # h
      PROVE  inService'[g] = inService[g]
  <2>1. thread[g] # w
    BY <1>8, ConstantsAssumption DEF ServiceInv, OpenedInv
  <2> QED
    BY <1>1, <1>2, <1>8, <2>1 DEF inService
<1>9. pendingOf[h] # <<>> /\ Head(pendingOf[h]) = func[w]
  BY <1>3, <1>7 DEF pendingOf
<1>10. pendingOf' = [pendingOf EXCEPT ![h] = Tail(pendingOf[h])]
  BY <1>3, <1>4, <1>5, <1>7, <1>8 DEF pendingOf
<1>11. phaseOf' = phaseOf
  BY <1>1 DEF phaseOf
<1> QED
  BY <1>1, <1>3, <1>9, <1>10, <1>11 DEF Service!Answer, pendingOf

\* The destructor closes the service: what is queued is discarded, what has
\* been taken is still pending.
LEMMA ServiceCloses ==
    ASSUME ServiceInv, NEW h \in Handlers, ClearQueue(h)
    PROVE  Service!Close(h)
<1> USE DEF vars, handlerVars, lockVars, threadVars, guiVars
<1>1. /\ gui = "destroy" /\ entry[h] = "live"
      /\ queue' = [queue EXCEPT ![h] = <<>>] /\ ready' = [ready EXCEPT ![h] = FALSE]
      /\ UNCHANGED <<entry, submitted, results, func, thread>>
  BY DEF ClearQueue
<1>2. ready[h] /\ ready \in [Handlers -> BOOLEAN] /\ queue \in [Handlers -> Seq(Nat)]
  BY <1>1 DEF ServiceInv, CloseInv, TypeInv, TypeOK
<1>3. inService' = inService
  BY <1>1 DEF inService
<1>4. phaseOf[h] = "open" /\ phaseOf' = [phaseOf EXCEPT ![h] = "closed"]
  BY <1>1, <1>2 DEF phaseOf
<1>5. inService[h] = <<>> \/ \E x \in Nat : inService[h] = <<x>>
  <2>1. thread[h] # None => func[thread[h]] \in Nat \cup {None}
    BY DEF ServiceInv, TypeInv, TypeOK
  <2> QED
    BY <2>1 DEF inService
<1>6. \A g \in Handlers : g # h => queue'[g] = queue[g]
  BY <1>1, <1>2
<1>7. CASE inService[h] = <<>>
  <2>1. <<>> \o <<>> = <<>>
    OBVIOUS
  <2>2. inService'[h] \o queue'[h] = <<>>
    BY <1>1, <1>2, <1>3, <1>7, <2>1
  <2>3. pendingOf' = [pendingOf EXCEPT ![h] = <<>>]
    BY <1>3, <1>6, <2>2 DEF pendingOf
  <2> QED
    BY <1>1, <1>4, <2>3 DEF Service!Close, pendingOf
<1>8. ASSUME NEW x \in Nat, inService[h] = <<x>>
      PROVE  Service!Close(h)
  <2>1. <<x>> \o queue[h] # <<>> /\ Head(<<x>> \o queue[h]) = x /\ <<x>> \o <<>> = <<x>>
    BY <1>2
  <2>2. pendingOf[h] # <<>> /\ Head(pendingOf[h]) = x
    BY <1>8, <2>1 DEF pendingOf
  <2>3. pendingOf' = [pendingOf EXCEPT ![h] = <<Head(pendingOf[h])>>]
    BY <1>1, <1>2, <1>3, <1>6, <1>8, <2>1, <2>2 DEF pendingOf
  <2> QED
    BY <1>1, <1>4, <2>2, <2>3 DEF Service!Close, pendingOf
<1> QED
  BY <1>5, <1>7, <1>8

\* Every step of the handlers is one of the services, or none.
LEMMA ServiceNext ==
    ASSUME Reopen = FALSE, ServiceInv, [Next]_vars
    PROVE  [Service!Next]_(Service!vars)
<1> USE DEF vars, handlerVars, lockVars, threadVars, guiVars
<1>0. UNCHANGED serviceVars => UNCHANGED Service!vars
  BY DEF serviceVars, pendingOf, Service!vars
<1>1. ASSUME NEW h \in Handlers, NEW w \in Workers, GetUnitsyncAsync(h, w)
      PROVE  Service!Next
  BY <1>1, ServiceOpens DEF Service!Next
<1>2. ASSUME NEW h \in Handlers, Call(h)
      PROVE  Service!Next
  BY <1>2, ServiceSubmits DEF Service!Next
<1>3. ASSUME NEW w \in Workers, Pop(w)
      PROVE  UNCHANGED Service!vars
  BY <1>3, <1>0, ServiceHolds
<1>4. ASSUME NEW w \in Workers, EndCall(w)
      PROVE  Service!Next
  <2>1. PICK h : h = owner[w]
    OBVIOUS
  <2>2. h \in Handlers /\ Service!Answer(h)
    BY <1>4, <2>1, ServiceAnswers
  <2> QED
    BY <2>2 DEF Service!Next
<1>5. ASSUME NEW h \in Handlers, ClearQueue(h)
      PROVE  Service!Next
  BY <1>5, ServiceCloses DEF Service!Next
<1>6. ASSUME NEW w \in Workers,
             \/ TestReady(w) \/ LockQueue(w) \/ MustWait(w) \/ Wait(w) \/ Break(w)
             \/ BeginCall(w) \/ SpuriousWakeup(w) \/ UseAfterDestroy(w)
      PROVE  UNCHANGED Service!vars
  BY <1>6, <1>0, ServiceWaits
     DEF TestReady, LockQueue, MustWait, Wait, Break, BeginCall, SpuriousWakeup,
         UseAfterDestroy
<1>7. ASSUME Shutdown \/ NotifyExit \/ AllDestroyed
      PROVE  UNCHANGED Service!vars
  BY <1>7, <1>0, ServiceWaits DEF Shutdown, NotifyExit, AllDestroyed
<1>8. ASSUME JoinAndClose
      PROVE  UNCHANGED Service!vars
  <2>1. /\ gui = "join" /\ entry' = [entry EXCEPT ![target] = "destroyed"]
        /\ UNCHANGED <<ready, queue, submitted, results, func, thread>>
    BY <1>8 DEF JoinAndClose
  <2>2. /\ target \in Handlers /\ entry[target] = "live" /\ ~ ready[target]
        /\ entry \in [Handlers -> {"absent", "live", "destroyed"}]
    BY <2>1 DEF ServiceInv, CloseInv, TypeInv, TypeOK, ThreadInv
  <2>3. phaseOf' = phaseOf
    BY <2>1, <2>2 DEF phaseOf
  <2>4. inService' = inService
    BY <2>1 DEF inService
  <2> QED
    BY <1>0, <2>1, <2>3, <2>4, ServiceStutters
<1>9. CASE UNCHANGED vars
  BY <1>9, <1>0, ServiceWaits
<1> QED
  BY <1>1, <1>2, <1>3, <1>4, <1>5, <1>6, <1>7, <1>8, <1>9
     DEF Next, Worker, Destructor, Stopped

\* A handler whose path is never opened again is a first-in first-out call
\* service: the queue, its worker and the worker's func together implement
\* CallService.
THEOREM ImplementsService == ASSUME Reopen = FALSE PROVE Spec => ServiceRefinement
<1>1. Init => ServiceInv /\ Service!Init
  BY InitTypeInv, InitCloseInv, InitFifoInv, InitOneWorker, ServiceInit
     DEF ServiceInv, FifoInv
<1>2. ServiceInv /\ [Next]_vars => ServiceInv'
  BY NextTypeInv, NextCloseInv, NextOpenedInv, NextOneWorker DEF ServiceInv
<1>3. ServiceInv /\ [Next]_vars => [Service!Next]_(Service!vars)
  BY ServiceNext
<1> QED
  BY <1>1, <1>2, <1>3, PTL DEF Spec, ServiceRefinement, Service!Spec

-----------------------------------------------------------------------------
(* The pool, when paths are opened again and again.                        *)

\* A worker that is at s has the n-th call of h.
HeldAt(s, h, n) == \E w \in Workers : pc[w] = s /\ owner[w] = h /\ func[w] = n

\* The calls in the four states of CallPool.
AllCalls    == Handlers \X Nat
WaitingOf   == {c \in AllCalls : c[2] \in Queued(c[1]) \/ HeldAt("popped", c[1], c[2])}
RunningOf   == {c \in AllCalls : HeldAt("exec", c[1], c[2])}
AnsweredOf  == {c \in AllCalls : c[2] \in Posted(c[1])}
DiscardedOf == {c \in AllCalls : c[2] \in dropped[c[1]]}

poolVars == <<WaitingOf, RunningOf, AnsweredOf, DiscardedOf>>

Pool == INSTANCE CallPool WITH
    Calls     <- AllCalls,
    waiting   <- WaitingOf,
    running   <- RunningOf,
    answered  <- AnsweredOf,
    discarded <- DiscardedOf

\* The calls that workers hold are older than those in the queue, and no two
\* workers have the same.
HeldInv ==
    /\ \A w \in Workers :
          func[w] # None => func[w] <= submitted[owner[w]] - Len(queue[owner[w]])
    /\ \A v, w \in Workers :
          func[v] # None /\ func[w] # None /\ owner[v] = owner[w] /\ func[v] = func[w] => v = w

\* What the refinement needs to know of a state.
PoolInv == TypeInv /\ LockInv /\ CloseInv /\ QueueInv /\ PlaceInv /\ HeldInv

\* A call is its handler and its number.
LEMMA CallPair ==
    /\ \A c \in AllCalls : /\ c[1] \in Handlers /\ c[2] \in Nat
                           /\ \A h, n : c = <<h, n>> <=> c[1] = h /\ c[2] = n
    /\ \A h \in Handlers, n \in Nat : <<h, n>> \in AllCalls /\ <<h, n>>[1] = h /\ <<h, n>>[2] = n
  BY DEF AllCalls

\* A set of the pool is the same if it has the same calls of each handler.
LEMMA WaitingKept ==
    ASSUME \A h \in Handlers, n \in Nat :
               n \in Queued(h)' \/ HeldAt("popped", h, n)'
                  <=> n \in Queued(h) \/ HeldAt("popped", h, n)
    PROVE  WaitingOf' = WaitingOf
  BY CallPair DEF WaitingOf

\* ... so with the call in the library,
LEMMA RunningKept ==
    ASSUME \A h \in Handlers, n \in Nat : HeldAt("exec", h, n)' <=> HeldAt("exec", h, n)
    PROVE  RunningOf' = RunningOf
  BY CallPair DEF RunningOf

\* ... those with a result,
LEMMA AnsweredKept == ASSUME results' = results PROVE AnsweredOf' = AnsweredOf
  BY DEF AnsweredOf, Posted

\* ... and those dropped.
LEMMA DiscardedKept == ASSUME dropped' = dropped PROVE DiscardedOf' = DiscardedOf
  BY DEF DiscardedOf

\* A worker takes the oldest call of the queue, which leaves it.
LEMMA NextHeldInv == TypeInv /\ QueueInv /\ HeldInv /\ [Next]_vars => HeldInv'
<1> SUFFICES ASSUME TypeInv, QueueInv, HeldInv, [Next]_vars
             PROVE  HeldInv'
  OBVIOUS
<1> USE DEF vars, handlerVars, lockVars, threadVars, guiVars
<1>0. ASSUME UNCHANGED <<queue, submitted, owner, func>>
      PROVE  HeldInv'
  BY <1>0 DEF HeldInv
<1>t. /\ queue \in [Handlers -> Seq(Nat)] /\ submitted \in [Handlers -> Nat]
      /\ owner \in [Workers -> Handlers \cup {None}]
      /\ func \in [Workers -> Nat \cup {None}]
      /\ \A w \in Workers : func[w] # None => owner[w] \in Handlers /\ func[w] \in Nat
      /\ \A h \in Handlers : Len(queue[h]) \in Nat
  <2>1. /\ queue \in [Handlers -> Seq(Nat)] /\ submitted \in [Handlers -> Nat]
        /\ owner \in [Workers -> Handlers \cup {None}]
        /\ func \in [Workers -> Nat \cup {None}]
    BY DEF TypeInv, TypeOK
  <2>2. ASSUME NEW w \in Workers, func[w] # None
        PROVE  owner[w] \in Handlers /\ func[w] \in Nat
    <3>1. owner[w] # None
      BY <2>2 DEF TypeInv, ThreadInv
    <3> QED
      BY <2>1, <2>2, <3>1
  <2>3. ASSUME NEW h \in Handlers
        PROVE  Len(queue[h]) \in Nat
    <3>1. queue[h] \in Seq(Nat)
      BY <2>1
    <3> QED
      BY <3>1
  <2> QED
    BY <2>1, <2>2, <2>3
<1>1. ASSUME NEW h \in Handlers, NEW w \in Workers, GetUnitsyncAsync(h, w)
      PROVE  HeldInv'
  <2>1. /\ pc[w] = "unborn" /\ owner' = [owner EXCEPT ![w] = h]
        /\ UNCHANGED <<queue, submitted, func>>
    BY <1>1 DEF GetUnitsyncAsync
  <2>2. func[w] = None
    BY <2>1 DEF TypeInv, ThreadInv
  <2>3. \A v \in Workers : func'[v] # None => owner'[v] = owner[v]
    BY <1>t, <2>1, <2>2
  <2> QED
    BY <2>1, <2>3 DEF HeldInv
<1>2. ASSUME NEW h \in Handlers, Call(h)
      PROVE  HeldInv'
  <2>1. /\ submitted' = [submitted EXCEPT ![h] = submitted[h] + 1]
        /\ queue' = [queue EXCEPT ![h] = Append(queue[h], submitted[h] + 1)]
        /\ UNCHANGED <<owner, func>>
    BY <1>2 DEF Call
  <2>2. Len(Append(queue[h], submitted[h] + 1)) = Len(queue[h]) + 1
    BY <1>t, AppendProperties
  <2>3. ASSUME NEW g \in Handlers
        PROVE  submitted'[g] - Len(queue'[g]) = submitted[g] - Len(queue[g])
    BY <1>t, <2>1, <2>2
  <2>4. ASSUME NEW w \in Workers, func'[w] # None
        PROVE  func'[w] <= submitted'[owner'[w]] - Len(queue'[owner'[w]])
    BY <1>t, <2>1, <2>3, <2>4 DEF HeldInv
  <2> QED
    BY <2>1, <2>4 DEF HeldInv
<1>3. ASSUME NEW w \in Workers, Pop(w)
      PROVE  HeldInv'
  <2> DEFINE h == owner[w]
             q == queue[h]
             n == submitted[h]
  <2>1. /\ pc[w] = "check" /\ q # <<>>
        /\ func' = [func EXCEPT ![w] = Head(q)]
        /\ queue' = [queue EXCEPT ![h] = Tail(q)]
        /\ UNCHANGED <<submitted, owner>>
    BY <1>3 DEF Pop, AtStep
  <2>2. h \in Handlers
    BY <2>1, <1>t DEF TypeInv, ThreadInv
  <2>3. q \in Seq(Nat) /\ n \in Nat
    BY <1>t, <2>2
  <2>4. \A i \in DOMAIN q : q[i] = n - Len(q) + i
    BY <2>2 DEF QueueInv
  <2> HIDE DEF q, n
  <2>5. Len(q) \in Nat /\ Len(q) >= 1 /\ Len(Tail(q)) = Len(q) - 1 /\ Head(q) = q[1]
        /\ 1 \in DOMAIN q
    BY <2>1, <2>3, EmptySeq
  <2>6. Head(q) = n - Len(q) + 1 /\ Head(q) = n - Len(Tail(q))
    BY <2>3, <2>4, <2>5
  <2>7. ASSUME NEW v \in Workers, v # w, func[v] # None
        PROVE  /\ func'[v] = func[v] /\ func[v] \in Nat /\ owner[v] \in Handlers
               /\ owner[v] = h => func[v] < Head(q)
               /\ func[v] <= submitted[owner[v]] - Len(queue'[owner[v]])
    <3>1. /\ func'[v] = func[v] /\ func[v] \in Nat /\ owner[v] \in Handlers
          /\ func[v] <= submitted[owner[v]] - Len(queue[owner[v]])
      BY <1>t, <2>1, <2>7 DEF HeldInv
    <3>2. CASE owner[v] = h
      <4>1. func[v] <= n - Len(q)
        BY <3>1, <3>2 DEF q, n
      <4>2. submitted[owner[v]] = n /\ queue'[owner[v]] = Tail(q)
        BY <1>t, <2>1, <2>2, <3>2 DEF n
      <4> QED
        BY <2>3, <2>5, <2>6, <3>1, <4>1, <4>2
    <3>3. CASE owner[v] # h
      <4>1. queue'[owner[v]] = queue[owner[v]]
        BY <1>t, <2>1, <2>2, <3>1, <3>3
      <4> QED
        BY <3>1, <3>3, <4>1
    <3> QED
      BY <3>2, <3>3
  <2>8. func'[w] = Head(q) /\ queue'[h] = Tail(q) /\ submitted'[h] = n
    BY <1>t, <2>1, <2>2 DEF n
  <2>9. /\ Head(q) <= n - Len(Tail(q))
        /\ \A v \in Workers : v # w /\ func[v] # None /\ owner[v] = h => func[v] # Head(q)
    BY <2>3, <2>5, <2>6, <2>7
  <2>10. \A v \in Workers : v # w => func'[v] = func[v]
    BY <1>t, <2>1
  <2>11. ASSUME NEW v \in Workers, func'[v] # None
         PROVE  func'[v] <= submitted'[owner'[v]] - Len(queue'[owner'[v]])
    BY <2>1, <2>7, <2>8, <2>9, <2>10, <2>11
  <2>12. ASSUME NEW u \in Workers, NEW v \in Workers, func'[u] # None, func'[v] # None,
                owner'[u] = owner'[v], func'[u] = func'[v]
         PROVE  u = v
    BY <2>1, <2>8, <2>9, <2>10, <2>12 DEF HeldInv
  <2> QED
    BY <2>11, <2>12 DEF HeldInv
<1>4. ASSUME NEW w \in Workers, EndCall(w)
      PROVE  HeldInv'
  <2>1. func' = [func EXCEPT ![w] = None] /\ UNCHANGED <<queue, submitted, owner>>
    BY <1>4 DEF EndCall
  <2>2. \A v \in Workers : func'[v] # None => func'[v] = func[v]
    BY <1>t, <2>1
  <2> QED
    BY <2>1, <2>2 DEF HeldInv
<1>5. ASSUME NEW h \in Handlers, ClearQueue(h)
      PROVE  HeldInv'
  <2>1. queue' = [queue EXCEPT ![h] = <<>>] /\ UNCHANGED <<submitted, owner, func>>
    BY <1>5 DEF ClearQueue
  <2>2. ASSUME NEW g \in Handlers
        PROVE  Len(queue'[g]) \in Nat /\ Len(queue'[g]) <= Len(queue[g])
    BY <1>t, <2>1
  <2>3. ASSUME NEW w \in Workers, func'[w] # None
        PROVE  func'[w] <= submitted'[owner'[w]] - Len(queue'[owner'[w]])
    BY <1>t, <2>1, <2>2, <2>3 DEF HeldInv
  <2> QED
    BY <2>1, <2>3 DEF HeldInv
<1>6. ASSUME NEW w \in Workers, \/ TestReady(w) \/ LockQueue(w) \/ MustWait(w) \/ Wait(w)
                                \/ SpuriousWakeup(w) \/ Break(w) \/ BeginCall(w)
                                \/ UseAfterDestroy(w)
      PROVE  HeldInv'
  BY <1>6, <1>0 DEF TestReady, LockQueue, MustWait, Wait, SpuriousWakeup, Break, BeginCall,
                    UseAfterDestroy
<1>7. ASSUME Shutdown \/ NotifyExit \/ JoinAndClose \/ AllDestroyed \/ UNCHANGED vars
      PROVE  HeldInv'
  BY <1>7, <1>0 DEF Shutdown, NotifyExit, JoinAndClose, AllDestroyed
<1> QED
  BY <1>1, <1>2, <1>3, <1>4, <1>5, <1>6, <1>7 DEF Next, Worker, Destructor, Stopped

\* The pool changes only when calls are queued, taken, posted or dropped.
LEMMA PoolStutters ==
    ASSUME UNCHANGED <<queue, results, dropped>>,
           \A h \in Handlers, n \in Nat : /\ HeldAt("popped", h, n)' <=> HeldAt("popped", h, n)
                                          /\ HeldAt("exec", h, n)' <=> HeldAt("exec", h, n)
    PROVE  UNCHANGED poolVars
<1>1. \A h \in Handlers : Queued(h)' = Queued(h)
  BY DEF Queued
<1> QED
  BY <1>1, WaitingKept, RunningKept, AnsweredKept, DiscardedKept DEF poolVars

\* ... and not when a worker without a call moves.
LEMMA PoolWaits ==
    ASSUME UNCHANGED <<queue, results, dropped, owner, func>>,
           \A w \in Workers : \/ pc'[w] = pc[w]
                              \/ {pc[w], pc'[w]} \cap {"popped", "exec"} = {}
    PROVE  UNCHANGED poolVars
<1>1. ASSUME NEW h \in Handlers, NEW n \in Nat
      PROVE  /\ HeldAt("popped", h, n)' <=> HeldAt("popped", h, n)
             /\ HeldAt("exec", h, n)' <=> HeldAt("exec", h, n)
  BY DEF HeldAt
<1> QED
  BY <1>1, PoolStutters

\* A slot adds to the pool a call that was never in it.
LEMMA PoolSubmits ==
    ASSUME PoolInv, NEW h \in Handlers, Call(h)
    PROVE  Pool!Submit(<<h, submitted[h] + 1>>) /\ <<h, submitted[h] + 1>> \in AllCalls
<1> DEFINE m == submitted[h] + 1
           c == <<h, m>>
<1>1. /\ queue \in [Handlers -> Seq(Nat)] /\ submitted[h] \in Nat
      /\ pc \in [Workers -> WorkerStates]
  BY DEF PoolInv, TypeInv, TypeOK
<1>2. /\ queue' = [queue EXCEPT ![h] = Append(queue[h], m)]
      /\ pc' = [w \in Workers |-> IF owner[w] = h /\ pc[w] = "waiting" THEN "lock" ELSE pc[w]]
      /\ UNCHANGED <<results, dropped, owner, func>>
  BY DEF Call, NotifyAll
<1>3. m \in Nat /\ m \notin 1..submitted[h] /\ c \in AllCalls
  BY <1>1 DEF AllCalls
<1>4. Queued(h)' = Queued(h) \cup {m}
  <2>1. Queued(h) = Values(queue[h]) /\ Queued(h)' = Values(queue'[h])
    BY DEF Queued, Values
  <2>2. queue'[h] = Append(queue[h], m) /\ queue[h] \in Seq(Nat)
    BY <1>1, <1>2
  <2> QED
    BY <1>3, <2>1, <2>2, AppendRange
<1>5. \A g \in Handlers : g # h => Queued(g)' = Queued(g)
  BY <1>1, <1>2 DEF Queued
<1>6. \A g \in Handlers, n \in Nat : /\ HeldAt("popped", g, n)' <=> HeldAt("popped", g, n)
                                     /\ HeldAt("exec", g, n)' <=> HeldAt("exec", g, n)
  BY <1>1, <1>2 DEF HeldAt
<1>7. c \notin WaitingOf /\ c \notin RunningOf /\ c \notin AnsweredOf /\ c \notin DiscardedOf
  <2>1. m \notin Queued(h) /\ m \notin Taken(h) /\ m \notin Posted(h) /\ m \notin dropped[h]
    BY <1>3 DEF PoolInv, PlaceInv, PlacedOf
  <2>2. ~ HeldAt("popped", h, m) /\ ~ HeldAt("exec", h, m)
    BY <1>3, <2>1, ConstantsAssumption DEF HeldAt, Taken, Holding, WorkersOf
  <2> HIDE DEF m
  <2> QED
    BY <1>3, <2>1, <2>2, CallPair DEF WaitingOf, RunningOf, AnsweredOf, DiscardedOf
<1> HIDE DEF m
<1>8. WaitingOf' = WaitingOf \cup {c}
  <2>1. ASSUME NEW d \in AllCalls
        PROVE  d \in WaitingOf' <=> d \in WaitingOf \/ d = c
    BY <1>4, <1>5, <1>6, CallPair DEF WaitingOf
  <2>2. WaitingOf \subseteq AllCalls /\ WaitingOf' \subseteq AllCalls
    BY DEF WaitingOf, AllCalls
  <2> QED
    BY <1>3, <2>1, <2>2
<1>9. UNCHANGED <<RunningOf, AnsweredOf, DiscardedOf>>
  BY <1>2, <1>6, RunningKept, AnsweredKept, DiscardedKept
<1> QED
  BY <1>3, <1>7, <1>8, <1>9 DEF Pool!Submit, Pool!Made, m

\* A call that is taken from the queue is still waiting.
LEMMA PoolTakes ==
    ASSUME PoolInv, NEW w \in Workers, Pop(w), NEW h, h = owner[w], NEW m, m = Head(queue[h])
    PROVE  UNCHANGED poolVars
<1>1. /\ queue \in [Handlers -> Seq(Nat)] /\ pc \in [Workers -> WorkerStates]
      /\ func \in [Workers -> Nat \cup {None}]
  BY DEF PoolInv, TypeInv, TypeOK
<1>2. /\ queue' = [queue EXCEPT ![h] = Tail(queue[h])]
      /\ func' = [func EXCEPT ![w] = m]
      /\ pc' = [pc EXCEPT ![w] = "popped"]
      /\ queue[h] # <<>> /\ pc[w] = "check"
      /\ UNCHANGED <<results, dropped, owner>>
  BY DEF Pop, AtStep, Goto
<1>3. h \in Handlers
  BY <1>2 DEF PoolInv, TypeInv, TypeOK, ThreadInv
<1>4. queue[h] \in Seq(Nat)
  BY <1>1, <1>3
<1>5. Queued(h) = Queued(h)' \cup {m} /\ \A g \in Handlers : g # h => Queued(g)' = Queued(g)
  <2>1. Queued(h) = Values(queue[h]) /\ Queued(h)' = Values(queue'[h])
    BY DEF Queued, Values
  <2>2. queue'[h] = Tail(queue[h])
    BY <1>1, <1>2, <1>3
  <2>3. \A g \in Handlers : g # h => Queued(g)' = Queued(g)
    BY <1>1, <1>2 DEF Queued
  <2> QED
    BY <1>2, <1>4, <2>1, <2>2, <2>3, TailRange
<1>6. ASSUME NEW g \in Handlers, NEW n \in Nat
      PROVE  /\ HeldAt("popped", g, n)' <=> HeldAt("popped", g, n) \/ (g = h /\ n = m)
             /\ HeldAt("exec", g, n)' <=> HeldAt("exec", g, n)
  <2>1. /\ pc'[w] = "popped" /\ owner'[w] = h /\ func'[w] = m /\ pc[w] = "check"
        /\ \A v \in Workers : v # w => pc'[v] = pc[v] /\ func'[v] = func[v]
        /\ \A v \in Workers : owner'[v] = owner[v]
    BY <1>1, <1>2
  <2> QED
    BY <2>1 DEF HeldAt
<1>7. ASSUME NEW g \in Handlers, NEW n \in Nat
      PROVE  n \in Queued(g)' \/ HeldAt("popped", g, n)'
                <=> n \in Queued(g) \/ HeldAt("popped", g, n)
  <2>1. CASE g = h
    BY <1>5, <1>6, <2>1
  <2>2. CASE g # h
    BY <1>5, <1>6, <2>2
  <2> QED
    BY <2>1, <2>2
<1> QED
  BY <1>2, <1>6, <1>7, WaitingKept, RunningKept, AnsweredKept, DiscardedKept DEF poolVars

\* A worker that gets executionMutex finds nobody else in the library, and no
\* other worker and no queue has its call.
LEMMA PoolBegins ==
    ASSUME PoolInv, NEW w \in Workers, BeginCall(w)
    PROVE  Pool!Begin(<<owner[w], func[w]>>) /\ <<owner[w], func[w]>> \in AllCalls
<1> DEFINE h == owner[w]
           m == func[w]
           c == <<h, m>>
<1>1. /\ queue \in [Handlers -> Seq(Nat)] /\ pc \in [Workers -> WorkerStates]
      /\ func \in [Workers -> Nat \cup {None}] /\ submitted \in [Handlers -> Nat]
  BY DEF PoolInv, TypeInv, TypeOK
<1>2. /\ pc' = [pc EXCEPT ![w] = "exec"] /\ pc[w] = "popped" /\ executionMutex = None
      /\ UNCHANGED <<queue, results, dropped, owner, func>>
  BY DEF BeginCall, AtStep, Goto, handlerVars
<1>3. h \in Handlers /\ m \in Nat /\ m # None
  BY <1>1, <1>2 DEF PoolInv, TypeInv, TypeOK, ThreadInv
<1>4. ASSUME NEW v \in Workers
      PROVE  pc[v] # "exec"
  BY <1>2, ConstantsAssumption DEF PoolInv, LockInv
<1>5. m \notin Queued(h)
  <2>1. m <= submitted[h] - Len(queue[h])
    BY <1>3 DEF PoolInv, HeldInv
  <2>2. \A i \in DOMAIN queue[h] : queue[h][i] = submitted[h] - Len(queue[h]) + i
    BY <1>3 DEF PoolInv, QueueInv
  <2>3. queue[h] \in Seq(Nat) /\ submitted[h] \in Nat
    BY <1>1, <1>3
  <2>4. DOMAIN queue[h] = 1..Len(queue[h]) /\ Len(queue[h]) \in Nat
    BY <2>3
  <2> HIDE DEF m, h
  <2>5. \A i \in DOMAIN queue[h] : queue[h][i] # m
    BY <1>3, <2>1, <2>2, <2>3, <2>4
  <2> QED
    BY <2>5 DEF Queued
<1>6. ASSUME NEW v \in Workers, pc[v] = "popped", owner[v] = h, func[v] = m
      PROVE  v = w
  BY <1>3, <1>6 DEF PoolInv, HeldInv
<1> HIDE DEF m, h
<1>7. ASSUME NEW g \in Handlers, NEW n \in Nat
      PROVE  /\ HeldAt("popped", g, n)' <=> HeldAt("popped", g, n) /\ ~ (g = h /\ n = m)
             /\ HeldAt("exec", g, n)' <=> g = h /\ n = m
             /\ HeldAt("popped", h, m) /\ ~ HeldAt("exec", g, n)
  <2>1. /\ pc'[w] = "exec" /\ owner[w] = h /\ func[w] = m
        /\ \A v \in Workers : v # w => pc'[v] = pc[v]
        /\ \A v \in Workers : owner'[v] = owner[v] /\ func'[v] = func[v]
    BY <1>1, <1>2 DEF h, m
  <2>2. HeldAt("popped", g, n)' <=> HeldAt("popped", g, n) /\ ~ (g = h /\ n = m)
    BY <1>2, <1>6, <2>1 DEF HeldAt
  <2>3. HeldAt("exec", g, n)' <=> g = h /\ n = m
    BY <1>2, <1>4, <2>1 DEF HeldAt
  <2>4. HeldAt("popped", h, m) /\ ~ HeldAt("exec", g, n)
    BY <1>2, <1>4, <2>1 DEF HeldAt
  <2> QED
    BY <2>2, <2>3, <2>4
<1>8. \A g \in Handlers : Queued(g)' = Queued(g)
  BY <1>2 DEF Queued
<1>9. c \in AllCalls /\ c \in WaitingOf /\ RunningOf = {}
  BY <1>3, <1>7, CallPair DEF WaitingOf, RunningOf
<1>10. RunningOf' = {c}
  <2>1. ASSUME NEW d \in AllCalls
        PROVE  d \in RunningOf' <=> d = c
    BY <1>7, CallPair DEF RunningOf
  <2>2. RunningOf' \subseteq AllCalls
    BY DEF RunningOf, AllCalls
  <2> QED
    BY <1>9, <2>1, <2>2
<1>11. WaitingOf' = WaitingOf \ {c}
  <2>1. ASSUME NEW d \in AllCalls
        PROVE  d \in WaitingOf' <=> d \in WaitingOf /\ d # c
    BY <1>5, <1>7, <1>8, CallPair DEF WaitingOf
  <2>2. WaitingOf \subseteq AllCalls /\ WaitingOf' \subseteq AllCalls
    BY DEF WaitingOf, AllCalls
  <2> QED
    BY <2>1, <2>2
<1> QED
  BY <1>2, <1>9, <1>10, <1>11, AnsweredKept, DiscardedKept DEF Pool!Begin, h, m

\* The call in the library gets its result, and nobody is in the library.
LEMMA PoolAnswers ==
    ASSUME PoolInv, NEW w \in Workers, EndCall(w), NEW h, h = owner[w], NEW m, m = func[w]
    PROVE  Pool!Answer(<<h, m>>) /\ <<h, m>> \in AllCalls
<1> DEFINE c == <<h, m>>
<1>1. /\ results \in [Handlers -> Seq(Nat)] /\ pc \in [Workers -> WorkerStates]
      /\ func \in [Workers -> Nat \cup {None}]
  BY DEF PoolInv, TypeInv, TypeOK
<1>2. /\ pc' = [pc EXCEPT ![w] = "test"] /\ pc[w] = "exec"
      /\ results' = [results EXCEPT ![h] = Append(results[h], m)]
      /\ func' = [func EXCEPT ![w] = None]
      /\ UNCHANGED <<queue, dropped, owner>>
  BY DEF EndCall, AtStep, Goto
<1>3. h \in Handlers /\ m \in Nat
  BY <1>1, <1>2 DEF PoolInv, TypeInv, TypeOK, ThreadInv
<1>4. ASSUME NEW v \in Workers, v # w
      PROVE  pc[v] # "exec"
  BY <1>2, <1>4 DEF PoolInv, LockInv
<1>5. /\ pc'[w] = "test"
      /\ \A v \in Workers : v # w => pc'[v] = pc[v] /\ func'[v] = func[v]
      /\ \A v \in Workers : owner'[v] = owner[v]
  BY <1>1, <1>2
<1>6. ASSUME NEW g \in Handlers, NEW n \in Nat
      PROVE  /\ HeldAt("popped", g, n)' <=> HeldAt("popped", g, n)
             /\ ~ HeldAt("exec", g, n)' /\ HeldAt("exec", h, m)
  BY <1>2, <1>4, <1>5 DEF HeldAt
<1>7. Posted(h)' = Posted(h) \cup {m} /\ \A g \in Handlers : g # h => Posted(g)' = Posted(g)
  <2>1. Posted(h) = Values(results[h]) /\ Posted(h)' = Values(results'[h])
    BY DEF Posted, Values
  <2>2. results'[h] = Append(results[h], m) /\ results[h] \in Seq(Nat)
    BY <1>1, <1>2, <1>3
  <2>3. \A g \in Handlers : g # h => Posted(g)' = Posted(g)
    BY <1>1, <1>2 DEF Posted
  <2> QED
    BY <1>3, <2>1, <2>2, <2>3, AppendRange
<1>8. \A g \in Handlers : Queued(g)' = Queued(g)
  BY <1>2 DEF Queued
<1>9. c \in AllCalls /\ c \in RunningOf
  BY <1>3, <1>6, CallPair DEF RunningOf
<1>10. RunningOf' = {}
  BY <1>6, CallPair DEF RunningOf
<1>11. AnsweredOf' = AnsweredOf \cup {c}
  <2>1. ASSUME NEW d \in AllCalls
        PROVE  d \in AnsweredOf' <=> d \in AnsweredOf \/ d = c
    BY <1>7, CallPair DEF AnsweredOf
  <2>2. AnsweredOf \subseteq AllCalls /\ AnsweredOf' \subseteq AllCalls
    BY DEF AnsweredOf, AllCalls
  <2> QED
    BY <1>9, <2>1, <2>2
<1> QED
  BY <1>2, <1>6, <1>8, <1>9, <1>10, <1>11, WaitingKept, DiscardedKept DEF Pool!Answer

\* A destructor discards what is in its queue, and no call a worker holds.
LEMMA PoolDiscards ==
    ASSUME PoolInv, NEW h \in Handlers, ClearQueue(h),
           NEW D, D = {c \in AllCalls : c[1] = h /\ c[2] \in Queued(h)}
    PROVE  Pool!Discard(D)
<1>1. /\ queue \in [Handlers -> Seq(Nat)] /\ submitted \in [Handlers -> Nat]
      /\ func \in [Workers -> Nat \cup {None}] /\ dropped \in [Handlers -> SUBSET Nat]
  BY DEF PoolInv, TypeInv, TypeOK
<1>2. /\ queue' = [queue EXCEPT ![h] = <<>>]
      /\ dropped' = [dropped EXCEPT ![h] = Queued(h)]
      /\ entry[h] = "live" /\ gui = "destroy"
      /\ UNCHANGED <<results, pc, owner, func>>
  BY DEF ClearQueue, Queued, threadVars
<1>3. dropped[h] = {}
  <2>1. ready[h]
    BY <1>2 DEF PoolInv, CloseInv
  <2> QED
    BY <2>1 DEF PoolInv, PlaceInv, PlacedOf
<1>4. /\ Queued(h)' = {} /\ \A g \in Handlers : g # h => Queued(g)' = Queued(g)
      /\ dropped'[h] = Queued(h) /\ \A g \in Handlers : g # h => dropped'[g] = dropped[g]
  BY <1>1, <1>2 DEF Queued
<1>5. \A g \in Handlers, n \in Nat : /\ HeldAt("popped", g, n)' <=> HeldAt("popped", g, n)
                                     /\ HeldAt("exec", g, n)' <=> HeldAt("exec", g, n)
  BY <1>2 DEF HeldAt
<1>6. ASSUME NEW n \in Nat, HeldAt("popped", h, n)
      PROVE  n \notin Queued(h)
  <2>1. PICK w \in Workers : pc[w] = "popped" /\ owner[w] = h /\ func[w] = n
    BY <1>6 DEF HeldAt
  <2>2. func[w] # None
    BY <2>1, ConstantsAssumption
  <2>3. n <= submitted[h] - Len(queue[h])
    BY <2>1, <2>2 DEF PoolInv, HeldInv
  <2>4. \A i \in DOMAIN queue[h] : queue[h][i] = submitted[h] - Len(queue[h]) + i
    BY DEF PoolInv, QueueInv
  <2>5. queue[h] \in Seq(Nat) /\ submitted[h] \in Nat
    BY <1>1
  <2>6. DOMAIN queue[h] = 1..Len(queue[h]) /\ Len(queue[h]) \in Nat
    BY <2>5
  <2>7. \A i \in DOMAIN queue[h] : queue[h][i] # n
    BY <2>3, <2>4, <2>5, <2>6
  <2> QED
    BY <2>7 DEF Queued
<1>7. D \subseteq WaitingOf
  BY DEF WaitingOf
<1>8. WaitingOf' = WaitingOf \ D
  <2>1. ASSUME NEW d \in AllCalls
        PROVE  d \in WaitingOf' <=> d \in WaitingOf /\ d \notin D
    <3>1. d[1] \in Handlers /\ d[2] \in Nat
      BY CallPair
    <3>2. CASE d[1] = h
      BY <1>4, <1>5, <1>6, <3>1, <3>2 DEF WaitingOf
    <3>3. CASE d[1] # h
      BY <1>4, <1>5, <3>1, <3>3 DEF WaitingOf
    <3> QED
      BY <3>2, <3>3
  <2>2. WaitingOf \subseteq AllCalls /\ WaitingOf' \subseteq AllCalls
    BY DEF WaitingOf, AllCalls
  <2> QED
    BY <2>1, <2>2
<1>9. DiscardedOf' = DiscardedOf \cup D
  <2>1. ASSUME NEW d \in AllCalls
        PROVE  d \in DiscardedOf' <=> d \in DiscardedOf \/ d \in D
    <3>1. d[1] \in Handlers /\ d[2] \in Nat
      BY CallPair
    <3>2. CASE d[1] = h
      BY <1>3, <1>4, <3>1, <3>2 DEF DiscardedOf
    <3>3. CASE d[1] # h
      BY <1>4, <3>1, <3>3 DEF DiscardedOf
    <3> QED
      BY <3>2, <3>3
  <2>2. DiscardedOf \subseteq AllCalls /\ DiscardedOf' \subseteq AllCalls /\ D \subseteq AllCalls
    BY DEF DiscardedOf, AllCalls
  <2> QED
    BY <2>1, <2>2
<1> QED
  BY <1>2, <1>5, <1>7, <1>8, <1>9, RunningKept, AnsweredKept DEF Pool!Discard

\* There are no calls at first.
LEMMA PoolInit == Init => Pool!Init
<1> SUFFICES ASSUME Init
             PROVE  Pool!Init
  OBVIOUS
<1>1. ASSUME NEW h \in Handlers, NEW n \in Nat
      PROVE  /\ n \notin Queued(h) /\ n \notin Posted(h) /\ n \notin dropped[h]
             /\ ~ HeldAt("popped", h, n) /\ ~ HeldAt("exec", h, n)
  BY DEF Init, Queued, Posted, HeldAt
<1> QED
  BY <1>1, CallPair DEF Pool!Init, WaitingOf, RunningOf, AnsweredOf, DiscardedOf

\* Every step is one of the pool, or changes nothing there.
LEMMA PoolNext == ASSUME PoolInv, [Next]_vars PROVE [Pool!Next]_(Pool!vars)
<1> SUFFICES ASSUME UNCHANGED poolVars => UNCHANGED Pool!vars
             PROVE  Pool!Next \/ UNCHANGED poolVars
  BY DEF poolVars, Pool!vars
<1> USE DEF vars, handlerVars, lockVars, threadVars, guiVars
<1>t. pc \in [Workers -> WorkerStates]
  BY DEF PoolInv, TypeInv, TypeOK
<1>1. ASSUME NEW h \in Handlers, NEW w \in Workers, GetUnitsyncAsync(h, w)
      PROVE  UNCHANGED poolVars
  <2>1. /\ pc[w] = "unborn" /\ pc' = [pc EXCEPT ![w] = "test"]
        /\ owner' = [owner EXCEPT ![w] = h]
        /\ UNCHANGED <<queue, results, dropped, func>>
    BY <1>1 DEF GetUnitsyncAsync
  <2>2. owner \in [Workers -> Handlers \cup {None}]
    BY DEF PoolInv, TypeInv, TypeOK
  <2>3. /\ pc'[w] = "test"
        /\ \A v \in Workers : v # w => pc'[v] = pc[v] /\ owner'[v] = owner[v]
    BY <1>t, <2>1, <2>2
  <2>4. \A g \in Handlers, n \in Nat : /\ HeldAt("popped", g, n)' <=> HeldAt("popped", g, n)
                                       /\ HeldAt("exec", g, n)' <=> HeldAt("exec", g, n)
    BY <2>1, <2>3 DEF HeldAt
  <2> QED
    BY <2>1, <2>4, PoolStutters
<1>2. ASSUME NEW h \in Handlers, Call(h)
      PROVE  Pool!Next
  BY <1>2, PoolSubmits DEF Pool!Next
<1>3. ASSUME NEW w \in Workers, \/ TestReady(w) \/ LockQueue(w) \/ MustWait(w) \/ Wait(w)
                                \/ SpuriousWakeup(w) \/ Break(w)
      PROVE  UNCHANGED poolVars
  <2>1. UNCHANGED <<queue, results, dropped, owner, func>>
    BY <1>3 DEF TestReady, LockQueue, MustWait, Wait, SpuriousWakeup, Break
  <2>2. ASSUME NEW v \in Workers
        PROVE  \/ pc'[v] = pc[v]
               \/ {pc[v], pc'[v]} \cap {"popped", "exec"} = {}
    BY <1>3, <1>t DEF TestReady, LockQueue, MustWait, Wait, SpuriousWakeup, Break, AtStep, Goto
  <2> QED
    BY <2>1, <2>2, PoolWaits
<1>4. ASSUME NEW w \in Workers, Pop(w)
      PROVE  UNCHANGED poolVars
  BY <1>4, PoolTakes
<1>5. ASSUME NEW w \in Workers, BeginCall(w)
      PROVE  Pool!Next
  BY <1>5, PoolBegins DEF Pool!Next
<1>6. ASSUME NEW w \in Workers, EndCall(w)
      PROVE  Pool!Next
  BY <1>6, PoolAnswers DEF Pool!Next
<1>7. ASSUME NEW h \in Handlers, ClearQueue(h)
      PROVE  Pool!Next
  <2> DEFINE D == {c \in AllCalls : c[1] = h /\ c[2] \in Queued(h)}
  <2>1. D \in SUBSET AllCalls
    OBVIOUS
  <2>2. Pool!Discard(D)
    BY <1>7, PoolDiscards
  <2> QED
    BY <2>1, <2>2 DEF Pool!Next
<1>8. ASSUME \/ Shutdown \/ NotifyExit \/ JoinAndClose \/ AllDestroyed
             \/ (\E w \in Workers : UseAfterDestroy(w)) \/ UNCHANGED vars
      PROVE  UNCHANGED poolVars
  <2>1. UNCHANGED <<queue, results, dropped, owner, func>>
    BY <1>8 DEF Shutdown, NotifyExit, JoinAndClose, AllDestroyed, UseAfterDestroy
  <2>2. ASSUME NEW v \in Workers
        PROVE  \/ pc'[v] = pc[v]
               \/ {pc[v], pc'[v]} \cap {"popped", "exec"} = {}
    BY <1>8, <1>t DEF Shutdown, NotifyExit, NotifyAll, JoinAndClose, AllDestroyed,
                      UseAfterDestroy
  <2> QED
    BY <2>1, <2>2, PoolWaits
<1> QED
  BY <1>1, <1>2, <1>3, <1>4, <1>5, <1>6, <1>7, <1>8 DEF Next, Worker, Destructor, Stopped

\* However often paths are opened again, and however many workers then empty
\* one queue, the handlers together are the pool of calls the page may take
\* them for: what is begun was waiting and alone, what is answered was begun,
\* what is discarded was not, and nothing happens to a call twice.
PoolRefinement == Pool!Spec

THEOREM ImplementsPool == Spec => PoolRefinement
<1>1. Init => PoolInv /\ Pool!Init
  <2>1. Init => HeldInv
    BY DEF Init, HeldInv
  <2>2. Init => QueueInv
    BY InitFifoInv DEF FifoInv
  <2> QED
    BY <2>1, <2>2, InitTypeInv, InitLockInv, InitCloseInv, InitPlaceInv, PoolInit DEF PoolInv
<1>2. PoolInv /\ [Next]_vars => PoolInv'
  BY NextTypeInv, NextLockInv, NextCloseInv, NextQueueInv, NextPlaceInv, NextHeldInv DEF PoolInv
<1>3. PoolInv /\ [Next]_vars => [Pool!Next]_(Pool!vars)
  BY PoolNext
<1> QED
  BY <1>1, <1>2, <1>3, PTL DEF Spec, PoolRefinement, Pool!Spec
=============================================================================
