------------------------- MODULE UnitsyncPageProofs -------------------------
(***************************************************************************)
(* Theorems about the calls of a page, for any number of workers, calls    *)
(* and reloads: what has to have happened for a call to get the result of  *)
(* another, and that the calls are those of the pool the handlers share.   *)
(***************************************************************************)
EXTENDS UnitsyncPage, SequenceTheorems, TLAPS

-----------------------------------------------------------------------------
(* Types.                                                                  *)

\* What a worker holds is a request, the library's buffer holds a call's
\* result while somebody is in the library, and ids are no more than calls.
TypeInv ==
    /\ TypeOK
    /\ nextId <= Len(made) + 1
    /\ \A w \in Workers : at[w] # "idle" => holds[w] \in Requests
    /\ \A w \in Workers : at[w] = "inside" => buffer \in Calls
    /\ gui # 0 => buffer \in Calls

\* At first nothing has been made and nothing is held.
LEMMA InitTypeInv == Init => TypeInv
<1> SUFFICES ASSUME Init
             PROVE  TypeInv
  OBVIOUS
<1> USE PageAssumption DEF Init, Calls, Ids, Requests, Nothing
<1>1. /\ promises \in [Ids -> 0..MaxCalls] /\ nextId \in 1..(MaxCalls + 1)
      /\ page \in 0..MaxReloads /\ gui \in 0..MaxCalls /\ buffer \in 0..MaxCalls
  OBVIOUS
<1>2. /\ at \in [Workers -> {"idle", "holds", "inside"}]
      /\ holds \in [Workers -> [id : 0..MaxCalls, call : 0..MaxCalls]]
  OBVIOUS
<1>3. /\ made \in Seq(0..MaxReloads) /\ Len(made) = 0
      /\ queue \in Seq(Requests) /\ events \in Seq(Requests)
  OBVIOUS
<1>4. started \in SUBSET Workers /\ settled \in SUBSET [call : Calls, got : Calls]
  OBVIOUS
<1>5. /\ loading \in BOOLEAN /\ opened \in BOOLEAN /\ mixed \in BOOLEAN
  OBVIOUS
<1>6. Len(made) <= MaxCalls
  <2> HIDE DEF Init
  <2> QED
    BY <1>3
<1>7. /\ \A w \in Workers : at[w] = "idle"
      /\ gui = 0 /\ nextId = 1
  OBVIOUS
<1> HIDE DEF Init, Calls, Ids, Requests, Nothing
<1>8. TypeOK
  BY <1>1, <1>2, <1>3, <1>4, <1>5, <1>6 DEF TypeOK
<1> QED
  BY <1>3, <1>7, <1>8 DEF TypeInv

\* Each step keeps it.
LEMMA NextTypeInv == TypeInv /\ [Next]_vars => TypeInv'
<1> SUFFICES ASSUME TypeInv, [Next]_vars
             PROVE  TypeInv'
  OBVIOUS
<1> USE PageAssumption
    DEF TypeInv, TypeOK, Calls, Ids, Requests, NewCall, Nothing, Inside, vars, pageVars, workVars
<1>1. ASSUME Loaded
      PROVE  TypeInv'
  BY <1>1 DEF Loaded
<1>2. ASSUME NEW w \in Workers, Open(w)
      PROVE  TypeInv'
  BY <1>2 DEF Open
<1>3. ASSUME CallAsync
      PROVE  TypeInv'
  BY <1>3 DEF CallAsync
<1>4. ASSUME Reload
      PROVE  TypeInv'
  <2>1. page' \in 0..MaxReloads /\ nextId' \in 1..(MaxCalls + 1) /\ nextId' <= Len(made') + 1
    BY <1>4 DEF Reload
  <2>2. promises' \in [Ids -> 0..MaxCalls] /\ loading' \in BOOLEAN /\ opened' \in BOOLEAN
    BY <1>4 DEF Reload
  <2>3. UNCHANGED <<made, workVars, gui, buffer, events, mixed, settled>>
    BY <1>4 DEF Reload
  <2> QED
    BY <2>1, <2>2, <2>3
<1>5. ASSUME Deliver
      PROVE  TypeInv'
  <2> DEFINE e == Head(events)
  <2>1. e \in Requests /\ events' \in Seq(Requests)
    BY <1>5, HeadTailProperties DEF Deliver
  <2>2. e.id \in Ids /\ e.call \in Calls
    BY <2>1
  <2>3. UNCHANGED <<page, loading, opened, nextId, made, workVars, gui, buffer, mixed>>
    BY <1>5 DEF Deliver, Resolved
  <2> HIDE DEF e
  <2>4. CASE ~ loading /\ promises[e.id] # 0
    <3>1. /\ settled' = settled \cup {[call |-> promises[e.id], got |-> e.call]}
          /\ promises' = [promises EXCEPT ![e.id] = 0]
      BY <1>5, <2>4 DEF Deliver, Resolved, e
    <3>2. promises[e.id] \in Calls
      BY <2>2, <2>4
    <3>3. settled' \in SUBSET [call : Calls, got : Calls]
      BY <2>2, <3>1, <3>2
    <3>4. promises' \in [Ids -> 0..MaxCalls]
      BY <2>2, <3>1
    <3> QED
      BY <2>1, <2>3, <3>3, <3>4
  <2>5. CASE loading \/ promises[e.id] = 0
    <3>1. UNCHANGED <<settled, promises>>
      BY <1>5, <2>5 DEF Deliver, Resolved, e
    <3> QED
      BY <2>1, <2>3, <3>1
  <2> QED
    BY <2>4, <2>5
<1>6. ASSUME SyncBegin
      PROVE  TypeInv'
  <2>1. Len(made) \in Nat /\ NewCall \in Calls
    BY <1>6 DEF SyncBegin
  <2>2. made' \in Seq(0..MaxReloads) /\ Len(made') <= MaxCalls /\ Len(made) <= Len(made')
    BY <1>6, AppendProperties DEF SyncBegin
  <2>3. gui' = NewCall /\ buffer' = NewCall /\ mixed' \in BOOLEAN
    BY <1>6 DEF SyncBegin
  <2>4. UNCHANGED <<pageVars, workVars, events, settled>>
    BY <1>6 DEF SyncBegin
  <2>5. nextId' <= Len(made') + 1
    BY <2>1, <2>2, <2>4
  <2>6. gui' \in 0..MaxCalls /\ buffer' \in 0..MaxCalls /\ buffer' \in Calls
    BY <2>1, <2>3
  <2>7. TypeOK'
    BY <2>2, <2>3, <2>4, <2>6
  <2> HIDE DEF TypeOK, NewCall
  <2> QED
    BY <2>4, <2>5, <2>6, <2>7
<1>7. ASSUME SyncEnd
      PROVE  TypeInv'
  BY <1>7 DEF SyncEnd
<1>8. ASSUME NEW w \in Workers, Take(w)
      PROVE  TypeInv'
  <2>1. Head(queue) \in Requests /\ queue' \in Seq(Requests)
    BY <1>8, HeadTailProperties DEF Take
  <2>2. /\ holds' = [holds EXCEPT ![w] = Head(queue)]
        /\ at' = [at EXCEPT ![w] = "holds"]
        /\ UNCHANGED <<pageVars, made, started, gui, buffer, events, mixed, settled>>
    BY <1>8 DEF Take
  <2>3. Requests \subseteq [id : 0..MaxCalls, call : 0..MaxCalls]
    OBVIOUS
  <2> HIDE DEF Requests
  <2>4. Head(queue) \in [id : 0..MaxCalls, call : 0..MaxCalls]
    BY <2>1, <2>3
  <2> QED
    BY <2>1, <2>2, <2>4
<1>9. ASSUME NEW w \in Workers, Enter(w)
      PROVE  TypeInv'
  BY <1>9 DEF Enter
<1>10. ASSUME NEW w \in Workers, Leave(w)
       PROVE  TypeInv'
  <2>1. holds[w].id \in Ids /\ buffer \in Calls
    BY <1>10 DEF Leave
  <2>2. [id |-> holds[w].id, call |-> buffer] \in Requests
    BY <2>1
  <2>3. events' \in Seq(Requests)
    BY <1>10, <2>2, AppendProperties DEF Leave
  <2>4. /\ holds' = [holds EXCEPT ![w] = Nothing]
        /\ at' = [at EXCEPT ![w] = "idle"]
        /\ UNCHANGED <<pageVars, made, queue, started, gui, buffer, mixed, settled>>
    BY <1>10 DEF Leave
  <2>5. Nothing \in [id : 0..MaxCalls, call : 0..MaxCalls]
    OBVIOUS
  <2> HIDE DEF Requests, Nothing
  <2> QED
    BY <2>3, <2>4, <2>5
<1>11. CASE UNCHANGED vars
  BY <1>11
<1> QED
  BY <1>1, <1>2, <1>3, <1>4, <1>5, <1>6, <1>7, <1>8, <1>9, <1>10, <1>11 DEF Next, Work,
     Quiet

\* Every variable keeps its type; a page never draws more ids than there are
\* calls, and a result is posted for a call that was made.
THEOREM TypeCorrect == Spec => []TypeOK
<1>1. Init => TypeInv
  BY InitTypeInv
<1>2. TypeInv => TypeOK
  BY DEF TypeInv
<1> QED
  BY <1>1, <1>2, NextTypeInv, PTL DEF Spec

-----------------------------------------------------------------------------
(* Results.                                                                *)

Made == 1..Len(made)

\* The requests that may be in flight: if the page that is shown made one, its
\* id is awaited for it, or for nothing any more.
Flights ==
    {r \in Requests : /\ r.call \in Made
                      /\ made[r.call] = page => r.id < nextId /\ promises[r.id] \in {0, r.call}}

\* What is awaited has been made by the page that is shown.
AwaitedInv ==
    /\ \A c \in Made : made[c] <= page
    /\ \A i \in Ids : promises[i] # 0 =>
          i < nextId /\ promises[i] \in Made /\ made[promises[i]] = page

RequestsInv ==
    /\ queue \in Seq(Flights)
    /\ \A w \in Workers : at[w] # "idle" => holds[w] \in Flights

\* Unless calls of the two kinds have met in the library, its buffer holds the
\* result of the call that is in it.
BufferInv ==
    /\ gui # 0 => gui \in Made /\ buffer \in Made
    /\ \A w \in Workers : at[w] = "inside" => buffer \in Made
    /\ mixed \/ (gui # 0 => buffer = gui)
    /\ mixed \/ \A w \in Workers : at[w] = "inside" => buffer = holds[w].call

\* A result that was posted is the one of a request, unless they have met.
MadeRequests == {r \in Requests : r.call \in Made}

EventsInv == events \in Seq(MadeRequests) /\ (mixed \/ events \in Seq(Flights))

SettledInv == \A s \in settled : s.call \in Made /\ s.got \in Made

OwnInv == AwaitedInv /\ RequestsInv /\ BufferInv /\ EventsInv /\ SettledInv /\ ResultIsOwn

\* A sequence over a set is one over a larger set.
LEMMA SeqGrows ==
    ASSUME NEW S, NEW T, S \subseteq T, NEW s \in Seq(S)
    PROVE  s \in Seq(T)
<1>1. Len(s) \in Nat /\ s \in [1..Len(s) -> S]
  OBVIOUS
<1>2. s \in [1..Len(s) -> T]
  BY <1>1
<1> QED
  BY <1>1, <1>2, SeqDef

\* A call has a number of its own.
LEMMA MadeGrows ==
    ASSUME made \in Seq(0..MaxReloads), page \in 0..MaxReloads, made' = Append(made, page)
    PROVE  /\ NewCall \in Nat \ {0} /\ NewCall \notin Made /\ Made' = Made \cup {NewCall}
           /\ made'[NewCall] = page /\ \A c \in Made : made'[c] = made[c]
<1>1. /\ Len(made) \in Nat /\ Len(made') = Len(made) + 1
      /\ made'[Len(made) + 1] = page
      /\ \A c \in 1..Len(made) : made'[c] = made[c]
  BY AppendProperties
<1> QED
  BY <1>1 DEF NewCall, Made

\* Pages can be compared.
LEMMA PagesAreNumbers ==
    ASSUME TypeInv
    PROVE  page \in Nat /\ \A c \in Made : made[c] \in Nat
<1>1. page \in 0..MaxReloads /\ made \in Seq(0..MaxReloads)
  BY DEF TypeInv, TypeOK
<1>2. \A c \in 1..Len(made) : made[c] \in 0..MaxReloads
  BY <1>1, ElementOfSeq
<1> QED
  BY <1>1, <1>2 DEF Made

\* What is posted stays as it is while requests in flight remain so.
LEMMA EventsKept ==
    ASSUME EventsInv, UNCHANGED events, Flights \subseteq Flights', Made \subseteq Made',
           mixed => mixed'
    PROVE  EventsInv'
<1>1. MadeRequests \subseteq MadeRequests'
  BY DEF MadeRequests, Requests, Ids, Calls
<1>2. events \in Seq(MadeRequests')
  BY <1>1, SeqGrows DEF EventsInv
<1>3. mixed \/ events \in Seq(Flights')
  BY SeqGrows DEF EventsInv
<1> QED
  BY <1>2, <1>3 DEF EventsInv

\* Each step keeps a result with its call, or knows why not.
LEMMA NextOwnInv == TypeInv /\ OwnInv /\ [Next]_vars => OwnInv'
<1> SUFFICES ASSUME TypeInv, AwaitedInv, RequestsInv, BufferInv, EventsInv, SettledInv,
                    ResultIsOwn, [Next]_vars
             PROVE  /\ AwaitedInv' /\ RequestsInv' /\ BufferInv'
                    /\ EventsInv' /\ SettledInv' /\ ResultIsOwn'
  BY DEF OwnInv
<1> USE DEF vars, pageVars, workVars
<1>1. ASSUME Loaded
      PROVE  /\ AwaitedInv' /\ RequestsInv' /\ BufferInv' /\ EventsInv'
            /\ SettledInv' /\ ResultIsOwn'
  <2>1. UNCHANGED <<page, nextId, promises, made, workVars, gui, buffer, events, mixed, settled>>
    BY <1>1 DEF Loaded
  <2> QED
    BY <2>1
       DEF AwaitedInv, RequestsInv, BufferInv, EventsInv, SettledInv, ResultIsOwn, Flights,
           MadeRequests, Made
<1>2. ASSUME NEW w \in Workers, Open(w)
      PROVE  /\ AwaitedInv' /\ RequestsInv' /\ BufferInv' /\ EventsInv'
            /\ SettledInv' /\ ResultIsOwn'
  <2>1. UNCHANGED <<page, nextId, promises, made, queue, at, holds, gui, buffer, events, mixed,
                    settled>>
    BY <1>2 DEF Open
  <2> QED
    BY <2>1
       DEF AwaitedInv, RequestsInv, BufferInv, EventsInv, SettledInv, ResultIsOwn, Flights,
           MadeRequests, Made
<1>3. ASSUME CallAsync
      PROVE  /\ AwaitedInv' /\ RequestsInv' /\ BufferInv' /\ EventsInv'
            /\ SettledInv' /\ ResultIsOwn'
  <2>1. /\ NewCall \in Nat \ {0} /\ NewCall \notin Made /\ Made' = Made \cup {NewCall}
        /\ made'[NewCall] = page /\ \A c \in Made : made'[c] = made[c]
    BY <1>3, MadeGrows DEF CallAsync, TypeInv, TypeOK
  <2>2. /\ promises' = [promises EXCEPT ![nextId] = NewCall]
        /\ nextId' = nextId + 1
        /\ queue' = Append(queue, [id |-> nextId, call |-> NewCall])
        /\ UNCHANGED <<page, started, at, holds, gui, buffer, events, mixed, settled>>
    BY <1>3 DEF CallAsync
  <2>3. nextId \in Ids /\ nextId \in Nat /\ NewCall \in Calls /\ promises \in [Ids -> 0..MaxCalls]
    BY <1>3, PageAssumption DEF CallAsync, TypeInv, TypeOK, Ids, Calls, NewCall
  <2>4. AwaitedInv'
    BY <2>1, <2>2, <2>3, PagesAreNumbers DEF AwaitedInv, Ids
  <2>5. Flights \subseteq Flights'
    <3> SUFFICES ASSUME NEW r \in Flights
                 PROVE  r \in Flights'
      OBVIOUS
    <3>1. r \in Requests /\ r.id \in Ids /\ r.call \in Made
      BY DEF Flights, Requests
    <3>2. made'[r.call] = page => r.id < nextId /\ promises[r.id] \in {0, r.call}
      BY <2>1, <3>1 DEF Flights
    <3>3. made'[r.call] = page => r.id < nextId' /\ promises'[r.id] \in {0, r.call}
      BY <2>2, <2>3, <3>1, <3>2 DEF Ids
    <3> QED
      BY <2>1, <2>2, <3>1, <3>3 DEF Flights
  <2>6. [id |-> nextId, call |-> NewCall] \in Flights'
    BY <2>1, <2>2, <2>3 DEF Flights, Requests, Ids
  <2>7. RequestsInv'
    <3>1. queue \in Seq(Flights')
      BY <2>5, SeqGrows DEF RequestsInv
    <3>2. queue' \in Seq(Flights')
      BY <2>2, <2>6, <3>1, AppendProperties
    <3> QED
      BY <2>2, <2>5, <3>2 DEF RequestsInv
  <2>8. BufferInv'
    BY <2>1, <2>2 DEF BufferInv
  <2>9. EventsInv'
    BY <2>1, <2>2, <2>5, EventsKept
  <2>10. SettledInv' /\ ResultIsOwn'
    BY <2>1, <2>2 DEF SettledInv, ResultIsOwn
  <2> QED
    BY <2>4, <2>7, <2>8, <2>9, <2>10
<1>4. ASSUME Reload
      PROVE  /\ AwaitedInv' /\ RequestsInv' /\ BufferInv' /\ EventsInv'
            /\ SettledInv' /\ ResultIsOwn'
  <2>1. /\ page' = page + 1 /\ promises' = [i \in Ids |-> 0]
        /\ UNCHANGED <<made, workVars, gui, buffer, events, mixed, settled>>
    BY <1>4 DEF Reload
  <2>2. AwaitedInv'
    <3>1. page \in Nat /\ \A c \in Made : made[c] \in Nat
      BY PagesAreNumbers
    <3> QED
      BY <2>1, <3>1 DEF AwaitedInv, Made
  <2>3. Flights \subseteq Flights'
    <3>1. page \in Nat /\ \A c \in Made : made[c] \in Nat
      BY PagesAreNumbers
    <3> QED
      BY <2>1, <3>1 DEF AwaitedInv, Flights, Made
  <2>4. RequestsInv'
    <3>1. queue \in Seq(Flights')
      BY <2>3, SeqGrows DEF RequestsInv
    <3> QED
      BY <2>1, <2>3, <3>1 DEF RequestsInv
  <2>5. EventsInv'
    BY <2>1, <2>3, EventsKept DEF Made
  <2>6. BufferInv' /\ SettledInv' /\ ResultIsOwn'
    BY <2>1 DEF BufferInv, SettledInv, ResultIsOwn, Made
  <2> QED
    BY <2>2, <2>4, <2>5, <2>6
<1>5. ASSUME Deliver
      PROVE  /\ AwaitedInv' /\ RequestsInv' /\ BufferInv' /\ EventsInv'
            /\ SettledInv' /\ ResultIsOwn'
  <2> DEFINE e == Head(events)
  <2>1. /\ events # <<>> /\ events' = Tail(events)
        /\ UNCHANGED <<page, loading, opened, nextId, made, workVars, gui, buffer, mixed>>
    BY <1>5 DEF Deliver, Resolved
  <2>2. \/ UNCHANGED <<promises, settled>>
        \/ /\ promises[e.id] # 0
           /\ promises' = [promises EXCEPT ![e.id] = 0]
           /\ settled' = settled \cup {[call |-> promises[e.id], got |-> e.call]}
    BY <1>5 DEF Deliver, Resolved
  <2>3. e \in MadeRequests /\ events' \in Seq(MadeRequests)
    BY <2>1, HeadTailProperties DEF EventsInv
  <2>4. mixed \/ (e \in Flights /\ events' \in Seq(Flights))
    BY <2>1, HeadTailProperties DEF EventsInv
  <2> HIDE DEF e
  <2>5. e.id \in Ids /\ e.call \in Made /\ promises \in [Ids -> 0..MaxCalls]
    BY <2>3 DEF MadeRequests, Requests, TypeInv, TypeOK
  <2>6. promises' \in [Ids -> 0..MaxCalls] /\ \A i \in Ids : promises'[i] \in {0, promises[i]}
    BY <2>2, <2>5, PageAssumption
  <2>7. AwaitedInv'
    BY <2>1, <2>6 DEF AwaitedInv, Made
  <2>8. Flights \subseteq Flights' /\ MadeRequests' = MadeRequests
    BY <2>1, <2>6 DEF Flights, MadeRequests, Requests, Made
  <2>9. RequestsInv'
    <3>1. queue \in Seq(Flights')
      BY <2>8, SeqGrows DEF RequestsInv
    <3> QED
      BY <2>1, <2>8, <3>1 DEF RequestsInv
  <2>10. EventsInv'
    <3>1. mixed \/ events' \in Seq(Flights')
      BY <2>4, <2>8, SeqGrows
    <3> QED
      BY <2>1, <2>3, <2>8, <3>1 DEF EventsInv
  <2>11. BufferInv'
    BY <2>1 DEF BufferInv, Made
  <2>12. SettledInv' /\ ResultIsOwn'
    <3>1. CASE UNCHANGED <<promises, settled>>
      BY <2>1, <3>1 DEF SettledInv, ResultIsOwn, Made
    <3>2. CASE /\ promises[e.id] # 0
               /\ settled' = settled \cup {[call |-> promises[e.id], got |-> e.call]}
      <4>1. promises[e.id] \in Made /\ made[promises[e.id]] = page
        BY <2>5, <3>2 DEF AwaitedInv
      <4>2. made[e.call] \in Nat /\ page \in Nat /\ made[e.call] <= page
        BY <2>5, PagesAreNumbers DEF AwaitedInv
      <4>3. \/ e.call = promises[e.id] \/ mixed
            \/ made[e.call] < made[promises[e.id]]
        BY <2>4, <3>2, <4>1, <4>2 DEF Flights
      <4> QED
        BY <2>1, <2>5, <3>2, <4>1, <4>3 DEF SettledInv, ResultIsOwn, Made
    <3> QED
      BY <2>2, <3>1, <3>2
  <2> QED
    BY <2>7, <2>9, <2>10, <2>11, <2>12
<1>6. ASSUME SyncBegin
      PROVE  /\ AwaitedInv' /\ RequestsInv' /\ BufferInv' /\ EventsInv'
            /\ SettledInv' /\ ResultIsOwn'
  <2>1. /\ NewCall \in Nat \ {0} /\ NewCall \notin Made /\ Made' = Made \cup {NewCall}
        /\ made'[NewCall] = page /\ \A c \in Made : made'[c] = made[c]
    BY <1>6, MadeGrows DEF SyncBegin, TypeInv, TypeOK
  <2>2. /\ gui' = NewCall /\ buffer' = NewCall
        /\ mixed' = (mixed \/ Inside # {})
        /\ UNCHANGED <<pageVars, workVars, events, settled>>
    BY <1>6 DEF SyncBegin
  <2>3. AwaitedInv'
    BY <2>1, <2>2, PagesAreNumbers DEF AwaitedInv
  <2>4. Flights \subseteq Flights'
    BY <2>1, <2>2 DEF Flights
  <2>5. RequestsInv'
    <3>1. queue \in Seq(Flights')
      BY <2>4, SeqGrows DEF RequestsInv
    <3> QED
      BY <2>2, <2>4, <3>1 DEF RequestsInv
  <2>6. BufferInv'
    BY <2>1, <2>2 DEF BufferInv, Inside
  <2>7. EventsInv'
    BY <2>1, <2>2, <2>4, EventsKept
  <2>8. SettledInv' /\ ResultIsOwn'
    BY <2>1, <2>2 DEF SettledInv, ResultIsOwn
  <2> QED
    BY <2>3, <2>5, <2>6, <2>7, <2>8
<1>7. ASSUME SyncEnd
      PROVE  /\ AwaitedInv' /\ RequestsInv' /\ BufferInv' /\ EventsInv'
            /\ SettledInv' /\ ResultIsOwn'
  <2>1. /\ gui # 0 /\ gui' = 0
        /\ settled' = settled \cup {[call |-> gui, got |-> buffer]}
        /\ UNCHANGED <<pageVars, made, workVars, buffer, events, mixed>>
    BY <1>7 DEF SyncEnd
  <2>2. Made' = Made /\ Flights' = Flights /\ MadeRequests' = MadeRequests
    BY <2>1 DEF Made, Flights, MadeRequests
  <2>3. AwaitedInv' /\ RequestsInv' /\ EventsInv'
    BY <2>1, <2>2 DEF AwaitedInv, RequestsInv, EventsInv
  <2>4. BufferInv'
    BY <2>1, <2>2 DEF BufferInv
  <2>5. gui \in Made /\ buffer \in Made /\ (mixed \/ buffer = gui)
    BY <2>1 DEF BufferInv
  <2>6. SettledInv' /\ ResultIsOwn'
    BY <2>1, <2>2, <2>5 DEF SettledInv, ResultIsOwn
  <2> QED
    BY <2>3, <2>4, <2>6
<1>8. ASSUME NEW w \in Workers, Take(w)
      PROVE  /\ AwaitedInv' /\ RequestsInv' /\ BufferInv' /\ EventsInv'
            /\ SettledInv' /\ ResultIsOwn'
  <2>1. /\ queue # <<>> /\ queue' = Tail(queue)
        /\ holds' = [holds EXCEPT ![w] = Head(queue)]
        /\ at' = [at EXCEPT ![w] = "holds"]
        /\ UNCHANGED <<pageVars, made, started, gui, buffer, events, mixed, settled>>
    BY <1>8 DEF Take
  <2>2. Made' = Made /\ Flights' = Flights /\ MadeRequests' = MadeRequests
    BY <2>1 DEF Made, Flights, MadeRequests
  <2>3. AwaitedInv' /\ EventsInv' /\ SettledInv' /\ ResultIsOwn'
    BY <2>1, <2>2 DEF AwaitedInv, EventsInv, SettledInv, ResultIsOwn
  <2>4. Head(queue) \in Flights /\ queue' \in Seq(Flights)
    BY <2>1, HeadTailProperties DEF RequestsInv
  <2>5. DOMAIN holds = Workers /\ DOMAIN at = Workers
    BY DEF TypeInv, TypeOK
  <2>6. RequestsInv'
    BY <2>1, <2>2, <2>4, <2>5 DEF RequestsInv
  <2>7. BufferInv'
    BY <2>1, <2>2, <2>5 DEF BufferInv
  <2> QED
    BY <2>3, <2>6, <2>7
<1>9. ASSUME NEW w \in Workers, Enter(w)
      PROVE  /\ AwaitedInv' /\ RequestsInv' /\ BufferInv' /\ EventsInv'
            /\ SettledInv' /\ ResultIsOwn'
  <2>1. /\ at[w] = "holds" /\ Inside = {}
        /\ at' = [at EXCEPT ![w] = "inside"]
        /\ buffer' = holds[w].call
        /\ mixed' = (mixed \/ gui # 0)
        /\ UNCHANGED <<pageVars, made, queue, started, holds, gui, events, settled>>
    BY <1>9 DEF Enter
  <2>2. Made' = Made /\ Flights' = Flights /\ MadeRequests' = MadeRequests
    BY <2>1 DEF Made, Flights, MadeRequests
  <2>3. AwaitedInv' /\ EventsInv' /\ SettledInv' /\ ResultIsOwn'
    BY <2>1, <2>2 DEF AwaitedInv, EventsInv, SettledInv, ResultIsOwn
  <2>4. DOMAIN at = Workers
    BY DEF TypeInv, TypeOK
  <2>5. RequestsInv'
    BY <2>1, <2>2, <2>4 DEF RequestsInv
  <2>6. holds[w].call \in Made
    BY <2>1 DEF RequestsInv, Flights
  <2>7. BufferInv'
    BY <2>1, <2>2, <2>4, <2>6 DEF BufferInv, Inside
  <2> QED
    BY <2>3, <2>5, <2>7
<1>10. ASSUME NEW w \in Workers, Leave(w)
       PROVE  /\ AwaitedInv' /\ RequestsInv' /\ BufferInv' /\ EventsInv'
            /\ SettledInv' /\ ResultIsOwn'
  <2> DEFINE e == [id |-> holds[w].id, call |-> buffer]
  <2>1. /\ at[w] = "inside"
        /\ holds' = [holds EXCEPT ![w] = Nothing]
        /\ at' = [at EXCEPT ![w] = "idle"]
        /\ events' = Append(events, e)
        /\ UNCHANGED <<pageVars, made, queue, started, gui, buffer, mixed, settled>>
    BY <1>10 DEF Leave
  <2>2. Made' = Made /\ Flights' = Flights /\ MadeRequests' = MadeRequests
    BY <2>1 DEF Made, Flights, MadeRequests
  <2>3. holds[w] \in Flights /\ holds[w] \in Requests
    BY <2>1 DEF RequestsInv, Flights
  <2>4. e \in MadeRequests
    <3>1. buffer \in Calls /\ buffer \in Made
      BY <2>1 DEF TypeInv, BufferInv
    <3> QED
      BY <2>3, <3>1 DEF MadeRequests, Requests
  <2>5. mixed \/ e \in Flights
    <3>1. mixed \/ buffer = holds[w].call
      BY <2>1 DEF BufferInv
    <3>2. buffer = holds[w].call => e = holds[w]
      BY <2>3 DEF Requests
    <3> QED
      BY <2>3, <3>1, <3>2
  <2> HIDE DEF e
  <2>6. EventsInv'
    BY <2>1, <2>2, <2>4, <2>5, AppendProperties DEF EventsInv
  <2>7. DOMAIN holds = Workers /\ DOMAIN at = Workers
    BY DEF TypeInv, TypeOK
  <2>8. AwaitedInv' /\ SettledInv' /\ ResultIsOwn'
    BY <2>1, <2>2 DEF AwaitedInv, SettledInv, ResultIsOwn
  <2>9. RequestsInv' /\ BufferInv'
    BY <2>1, <2>2, <2>7 DEF RequestsInv, BufferInv
  <2> QED
    BY <2>6, <2>8, <2>9
<1>11. CASE UNCHANGED vars
  BY <1>11
     DEF AwaitedInv, RequestsInv, BufferInv, EventsInv, SettledInv, ResultIsOwn, Flights,
         MadeRequests, Made
<1> QED
  BY <1>1, <1>2, <1>3, <1>4, <1>5, <1>6, <1>7, <1>8, <1>9, <1>10, <1>11 DEF Next, Work,
     Quiet

\* A call gets its own result, however many workers empty the queue, unless
\* calls of both kinds met in the library or the result is one of an older page.
THEOREM OwnResults == Spec => []ResultIsOwn
<1>1. Init => OwnInv
  <2> SUFFICES ASSUME Init
               PROVE  OwnInv
    OBVIOUS
  <2>1. Made = {}
    BY DEF Init, Made
  <2>2. queue \in Seq(Flights) /\ events \in Seq(Flights) /\ events \in Seq(MadeRequests)
    BY DEF Init
  <2> QED
    BY <2>1, <2>2
       DEF Init, OwnInv, AwaitedInv, RequestsInv, BufferInv, EventsInv, SettledInv, ResultIsOwn
<1>2. OwnInv => ResultIsOwn
  BY DEF OwnInv
<1> QED
  BY InitTypeInv, NextTypeInv, <1>1, <1>2, NextOwnInv, PTL DEF Spec

-----------------------------------------------------------------------------
(* The page's calls and the workers' loop are about the same pool of calls. *)
(* UnitsyncHandlerAsync implements CallPool (UnitsyncServiceProofs), and so *)
(* does this module, with what the page forgets remembered.                 *)

VARIABLE posted \* history: the calls whose result was posted

allVars == <<vars, posted>>

Posts ==
    posted' = posted \cup {holds[w].call : w \in {v \in Inside : at'[v] = "idle"}}

PostingSpec == Init /\ posted = {} /\ [][Next /\ Posts]_allVars

\* A call in the queue; and one that a worker holds, at s.
InQueue(c)   == \E i \in DOMAIN queue : queue[i].call = c
HeldAt(s, c) == \E w \in Workers : at[w] = s /\ holds[w].call = c

WaitingCalls == {c \in Calls : InQueue(c) \/ HeldAt("holds", c)}
RunningCalls == {c \in Calls : HeldAt("inside", c)}

poolVars == <<WaitingCalls, RunningCalls, posted, {}>>

Pool == INSTANCE CallPool WITH
    waiting   <- WaitingCalls,
    running   <- RunningCalls,
    answered  <- posted,
    discarded <- {}

\* Calls wait in the order they were made, workers hold older ones, each its
\* own, and one worker is in the library.
OrderInv ==
    /\ \A i \in DOMAIN queue : /\ queue[i].call \in Made
                               /\ \A j \in DOMAIN queue : i < j => queue[i].call < queue[j].call
    /\ \A w \in Workers : at[w] # "idle" =>
          /\ holds[w].call \in Made
          /\ \A i \in DOMAIN queue : holds[w].call < queue[i].call
          /\ \A v \in Workers : at[v] # "idle" /\ holds[v].call = holds[w].call => v = w
    /\ \A v, w \in Inside : v = w
    /\ posted \subseteq Made

\* A sequence that is added to, and one whose head is taken.
LEMMA QueueSteps ==
    ASSUME NEW S, NEW s \in Seq(S), NEW r
    PROVE  /\ Len(s) \in Nat /\ DOMAIN s = 1..Len(s)
           /\ DOMAIN Append(s, r) = 1..Len(s) + 1
           /\ \A i \in 1..Len(s) : Append(s, r)[i] = s[i]
           /\ Append(s, r)[Len(s) + 1] = r
           /\ s # <<>> => /\ Head(s) = s[1] /\ 1 \in DOMAIN s
                          /\ \A i \in DOMAIN Tail(s) : /\ i \in Nat /\ i + 1 \in DOMAIN s
                                                       /\ Tail(s)[i] = s[i + 1]
                          /\ \A i \in DOMAIN s : i = 1 \/ i - 1 \in DOMAIN Tail(s)
<1>1. Len(s) \in Nat /\ DOMAIN s = 1..Len(s)
  OBVIOUS
<1>2. /\ DOMAIN Append(s, r) = 1..Len(s) + 1
      /\ \A i \in 1..Len(s) : Append(s, r)[i] = s[i]
      /\ Append(s, r)[Len(s) + 1] = r
  OBVIOUS
<1>3. ASSUME s # <<>>
      PROVE  /\ Len(s) >= 1 /\ Head(s) = s[1] /\ DOMAIN Tail(s) = 1..Len(s) - 1
             /\ \A i \in 1..Len(s) - 1 : Tail(s)[i] = s[i + 1]
  BY <1>1, <1>3, EmptySeq
<1> QED
  BY <1>1, <1>2, <1>3

\* A result is posted only when a worker leaves the library.
LEMMA NothingPosted == ASSUME Posts, \A w \in Inside : at'[w] # "idle" PROVE posted' = posted
  BY DEF Posts

\* Calls are taken in their order, and one worker enters at a time.
LEMMA NextOrderInv == TypeInv /\ OrderInv /\ [Next /\ Posts]_allVars => OrderInv'
<1> SUFFICES ASSUME TypeInv, OrderInv, [Next /\ Posts]_allVars
             PROVE  OrderInv'
  OBVIOUS
<1>t. /\ queue \in Seq(Requests) /\ made \in Seq(0..MaxReloads) /\ Len(made) \in Nat
      /\ at \in [Workers -> {"idle", "holds", "inside"}]
      /\ holds \in [Workers -> [id : 0..MaxCalls, call : 0..MaxCalls]]
      /\ page \in 0..MaxReloads
  BY DEF TypeInv, TypeOK
<1>0. ASSUME UNCHANGED <<queue, at, holds, posted>>, Made \subseteq Made'
      PROVE  OrderInv'
  BY <1>0 DEF OrderInv, Inside
<1>1. ASSUME Posts, \/ Loaded \/ (\E w \in Workers : Open(w)) \/ Reload \/ Deliver \/ SyncEnd
                    \/ Quiet
      PROVE  OrderInv'
  <2>1. UNCHANGED <<queue, at, holds, made>>
    BY <1>1 DEF Loaded, Open, Reload, Deliver, SyncEnd, Quiet, vars, workVars
  <2>2. posted' = posted
    BY <1>1, <2>1, NothingPosted DEF Inside
  <2> QED
    BY <1>0, <2>1, <2>2 DEF Made
<1>2. ASSUME Posts, SyncBegin
      PROVE  OrderInv'
  <2>1. UNCHANGED <<queue, at, holds>> /\ made' = Append(made, page)
    BY <1>2 DEF SyncBegin, workVars
  <2>2. posted' = posted
    BY <1>2, <2>1, NothingPosted DEF Inside
  <2>3. Made \subseteq Made'
    BY <1>t, <2>1, MadeGrows
  <2> QED
    BY <1>0, <2>1, <2>2, <2>3
<1>3. ASSUME Posts, CallAsync
      PROVE  OrderInv'
  <2> DEFINE r == [id |-> nextId, call |-> NewCall]
             n == Len(queue)
  <2>1. /\ queue' = Append(queue, r) /\ made' = Append(made, page)
        /\ UNCHANGED <<at, holds>>
    BY <1>3 DEF CallAsync
  <2>2. posted' = posted
    BY <1>3, <2>1, NothingPosted DEF Inside
  <2>3. Made' = Made \cup {NewCall} /\ NewCall \in Nat /\ \A c \in Made : c \in Nat /\ c < NewCall
    BY <1>t, <2>1, MadeGrows DEF Made, NewCall
  <2>4. r.call = NewCall
    OBVIOUS
  <2> HIDE DEF r
  <2>5. /\ n \in Nat /\ DOMAIN queue = 1..n /\ DOMAIN queue' = 1..n + 1
        /\ \A i \in 1..n : queue'[i] = queue[i]
        /\ queue'[n + 1].call = NewCall
    BY <1>t, <2>1, <2>4, QueueSteps
  <2> HIDE DEF n
  <2>6. ASSUME NEW i \in DOMAIN queue'
        PROVE  /\ queue'[i].call \in Made'
               /\ \A j \in DOMAIN queue' : i < j => queue'[i].call < queue'[j].call
    BY <2>3, <2>5 DEF OrderInv
  <2>7. ASSUME NEW w \in Workers, at[w] # "idle"
        PROVE  /\ holds[w].call \in Made'
               /\ \A i \in DOMAIN queue' : holds[w].call < queue'[i].call
               /\ \A v \in Workers : at[v] # "idle" /\ holds[v].call = holds[w].call => v = w
    BY <2>3, <2>5, <2>7 DEF OrderInv
  <2> QED
    BY <2>1, <2>2, <2>3, <2>6, <2>7 DEF OrderInv, Inside
<1>4. ASSUME Posts, NEW w \in Workers, Take(w)
      PROVE  OrderInv'
  <2>1. /\ queue # <<>> /\ queue' = Tail(queue) /\ holds' = [holds EXCEPT ![w] = Head(queue)]
        /\ at' = [at EXCEPT ![w] = "holds"] /\ at[w] = "idle" /\ made' = made
    BY <1>4 DEF Take
  <2>2. /\ at'[w] = "holds" /\ holds'[w] = Head(queue)
        /\ \A v \in Workers : v # w => at'[v] = at[v] /\ holds'[v] = holds[v]
    BY <1>t, <2>1
  <2>3. posted' = posted
    BY <1>4, <2>1, <2>2, NothingPosted DEF Inside
  <2>4. Made' = Made
    BY <2>1 DEF Made
  <2>5. /\ 1 \in DOMAIN queue /\ Head(queue) = queue[1]
        /\ \A i \in DOMAIN queue' : /\ i \in Nat /\ i + 1 \in DOMAIN queue
                                    /\ queue'[i] = queue[i + 1]
    BY <1>t, <2>1, QueueSteps
  <2>6. ASSUME NEW i \in DOMAIN queue'
        PROVE  /\ queue'[i].call \in Made /\ Head(queue).call < queue'[i].call
               /\ \A j \in DOMAIN queue' : i < j => queue'[i].call < queue'[j].call
    <3>1. /\ i \in Nat /\ (1 < i + 1 \/ i = 0)
          /\ i + 1 \in DOMAIN queue /\ queue'[i] = queue[i + 1]
      BY <2>5
    <3>2. i # 0
      BY <1>t, <2>1, HeadTailProperties
    <3>3. queue[i + 1].call \in Made /\ queue[1].call < queue[i + 1].call
      BY <2>5, <3>1, <3>2 DEF OrderInv
    <3>4. ASSUME NEW j \in DOMAIN queue', i < j
          PROVE  queue'[i].call < queue'[j].call
      <4>1. j \in Nat /\ j + 1 \in DOMAIN queue /\ queue'[j] = queue[j + 1] /\ i + 1 < j + 1
        BY <2>5, <3>1, <3>4
      <4> QED
        BY <3>1, <4>1 DEF OrderInv
    <3> QED
      BY <2>5, <3>1, <3>3, <3>4
  <2>7. ASSUME NEW v \in Workers, v # w, at[v] # "idle"
        PROVE  /\ holds[v].call \in Made /\ holds[v].call < Head(queue).call
               /\ \A i \in DOMAIN queue' : holds[v].call < queue'[i].call
    BY <2>5, <2>7 DEF OrderInv
  <2>8. Head(queue).call \in Made /\ \A c \in Made : c \in Nat
    BY <1>t, <2>5 DEF OrderInv, Made
  <2>9. ASSUME NEW u \in Workers, at'[u] # "idle"
        PROVE  /\ holds'[u].call \in Made
               /\ \A i \in DOMAIN queue' : holds'[u].call < queue'[i].call
               /\ \A v \in Workers : at'[v] # "idle" /\ holds'[v].call = holds'[u].call => v = u
    <3>1. CASE u = w
      <4>1. ASSUME NEW v \in Workers, v # w, at'[v] # "idle"
            PROVE  holds'[v].call # holds'[u].call
        BY <2>2, <2>7, <2>8, <3>1, <4>1
      <4> QED
        BY <2>2, <2>6, <2>8, <3>1, <4>1
    <3>2. CASE u # w
      <4>1. at[u] # "idle" /\ holds'[u] = holds[u]
        BY <2>2, <2>9, <3>2
      <4>2. ASSUME NEW v \in Workers, at'[v] # "idle", holds'[v].call = holds'[u].call
            PROVE  v = u
        <5>1. CASE v = w
          BY <2>2, <2>7, <2>8, <3>2, <4>1, <4>2, <5>1
        <5>2. CASE v # w
          BY <2>2, <4>1, <4>2, <5>2 DEF OrderInv
        <5> QED
          BY <5>1, <5>2
      <4> QED
        BY <2>7, <3>2, <4>1, <4>2
    <3> QED
      BY <3>1, <3>2
  <2>10. \A u, v \in Inside' : u = v
    BY <2>2 DEF OrderInv, Inside
  <2>11. posted' \subseteq Made'
    BY <2>3, <2>4 DEF OrderInv
  <2> QED
    BY <2>4, <2>6, <2>9, <2>10, <2>11 DEF OrderInv
<1>5. ASSUME Posts, NEW w \in Workers, Enter(w)
      PROVE  OrderInv'
  <2>1. /\ at' = [at EXCEPT ![w] = "inside"] /\ at[w] = "holds" /\ Inside = {}
        /\ UNCHANGED <<made, queue, holds>>
    BY <1>5 DEF Enter
  <2>2. at'[w] = "inside" /\ \A v \in Workers : v # w => at'[v] = at[v]
    BY <1>t, <2>1
  <2>3. posted' = posted
    BY <1>5, <2>1, NothingPosted
  <2>4. Made' = Made /\ \A u, v \in Inside' : u = v
    BY <2>1, <2>2 DEF Made, Inside
  <2>5. \A v \in Workers : at'[v] # "idle" <=> at[v] # "idle"
    BY <2>1, <2>2
  <2> QED
    BY <2>1, <2>3, <2>4, <2>5 DEF OrderInv
<1>6. ASSUME Posts, NEW w \in Workers, Leave(w)
      PROVE  OrderInv'
  <2>1. /\ at' = [at EXCEPT ![w] = "idle"] /\ at[w] = "inside"
        /\ holds' = [holds EXCEPT ![w] = Nothing] /\ UNCHANGED <<made, queue>>
    BY <1>6 DEF Leave
  <2>2. at'[w] = "idle" /\ \A v \in Workers : v # w => at'[v] = at[v] /\ holds'[v] = holds[v]
    BY <1>t, <2>1
  <2>3. posted' \subseteq Made
    BY <1>6 DEF Posts, OrderInv, Inside
  <2>4. Made' = Made /\ \A u, v \in Inside' : u = v
    BY <2>1, <2>2 DEF Made, Inside, OrderInv
  <2>5. ASSUME NEW u \in Workers, at'[u] # "idle"
        PROVE  u # w /\ at[u] # "idle" /\ holds'[u] = holds[u]
    BY <2>2, <2>5
  <2> QED
    BY <2>1, <2>3, <2>4, <2>5 DEF OrderInv
<1>7. ASSUME UNCHANGED allVars
      PROVE  OrderInv'
  BY <1>7, <1>0 DEF allVars, vars, workVars, Made
<1> QED
  BY <1>1, <1>2, <1>3, <1>4, <1>5, <1>6, <1>7 DEF Next, Work

\* The two sets stay as they are if the same calls are queued and held.
LEMMA PoolKept ==
    ASSUME \A c \in Calls : /\ InQueue(c)' <=> InQueue(c)
                            /\ HeldAt("holds", c)' <=> HeldAt("holds", c)
                            /\ HeldAt("inside", c)' <=> HeldAt("inside", c),
           posted' = posted
    PROVE  UNCHANGED poolVars
  BY DEF poolVars, WaitingCalls, RunningCalls

\* What is queued, held or posted was made before.
LEMMA InPoolMade ==
    ASSUME OrderInv, NEW c, c \in WaitingCalls \cup RunningCalls \cup posted
    PROVE  c \in Made
  BY DEF OrderInv, WaitingCalls, RunningCalls, InQueue, HeldAt

\* A call of the page is new to the pool.
LEMMA PoolSubmits ==
    ASSUME TypeInv, OrderInv, CallAsync, Posts
    PROVE  NewCall \in Calls /\ Pool!Submit(NewCall)
<1> DEFINE r == [id |-> nextId, call |-> NewCall]
           n == Len(queue)
<1>t. /\ queue \in Seq(Requests) /\ made \in Seq(0..MaxReloads) /\ page \in 0..MaxReloads
      /\ Len(made) \in Nat
  BY DEF TypeInv, TypeOK
<1>1. /\ queue' = Append(queue, r) /\ made' = Append(made, page) /\ Len(made) < MaxCalls
      /\ UNCHANGED <<at, holds>>
  BY DEF CallAsync
<1>2. posted' = posted
  BY <1>1, NothingPosted DEF Inside
<1>3. NewCall \in Calls /\ NewCall \notin Made
  BY <1>t, <1>1, PageAssumption DEF NewCall, Calls, Made
<1>4. r.call = NewCall
  OBVIOUS
<1> HIDE DEF r
<1>5. /\ n \in Nat /\ DOMAIN queue = 1..n /\ DOMAIN queue' = 1..n + 1
      /\ \A i \in 1..n : queue'[i] = queue[i]
      /\ queue'[n + 1].call = NewCall
  BY <1>t, <1>1, <1>4, QueueSteps
<1> HIDE DEF n
<1>6. ASSUME NEW c \in Calls
      PROVE  /\ InQueue(c)' <=> InQueue(c) \/ c = NewCall
             /\ HeldAt("holds", c)' <=> HeldAt("holds", c)
             /\ HeldAt("inside", c)' <=> HeldAt("inside", c)
  <2>1. InQueue(c)' <=> InQueue(c) \/ c = NewCall
    <3>1. ASSUME NEW i \in 1..n + 1
          PROVE  i \in 1..n \/ i = n + 1
      BY <1>5
    <3>2. n + 1 \in 1..n + 1 /\ 1..n \subseteq 1..n + 1
      BY <1>5
    <3> QED
      BY <1>5, <3>1, <3>2 DEF InQueue
  <2> QED
    BY <1>1, <2>1 DEF HeldAt
<1>7. NewCall \notin Pool!Made
  BY <1>3, InPoolMade DEF Pool!Made
<1>8. WaitingCalls' = WaitingCalls \cup {NewCall} /\ RunningCalls' = RunningCalls
  BY <1>3, <1>6 DEF WaitingCalls, RunningCalls
<1> QED
  BY <1>2, <1>3, <1>7, <1>8 DEF Pool!Submit

\* Taking a call from the queue leaves it waiting.
LEMMA PoolTakes ==
    ASSUME TypeInv, NEW w \in Workers, Take(w), Posts
    PROVE  UNCHANGED poolVars
<1>t. /\ queue \in Seq(Requests) /\ at \in [Workers -> {"idle", "holds", "inside"}]
      /\ holds \in [Workers -> [id : 0..MaxCalls, call : 0..MaxCalls]]
  BY DEF TypeInv, TypeOK
<1>1. /\ queue # <<>> /\ queue' = Tail(queue) /\ holds' = [holds EXCEPT ![w] = Head(queue)]
      /\ at' = [at EXCEPT ![w] = "holds"] /\ at[w] = "idle"
  BY DEF Take
<1>2. /\ at'[w] = "holds" /\ holds'[w] = Head(queue)
      /\ \A v \in Workers : v # w => at'[v] = at[v] /\ holds'[v] = holds[v]
  BY <1>t, <1>1
<1>3. posted' = posted
  BY <1>1, <1>2, NothingPosted DEF Inside
<1>4. /\ 1 \in DOMAIN queue /\ Head(queue) = queue[1]
      /\ \A i \in DOMAIN queue' : /\ i + 1 \in DOMAIN queue
                                  /\ queue'[i] = queue[i + 1]
      /\ \A i \in DOMAIN queue : i = 1 \/ i - 1 \in DOMAIN queue'
      /\ \A i \in DOMAIN queue : i \in Nat
  BY <1>t, <1>1, QueueSteps
<1>5. ASSUME NEW c
      PROVE  InQueue(c) <=> InQueue(c)' \/ c = Head(queue).call
  <2>1. ASSUME NEW i \in DOMAIN queue, queue[i].call = c, i # 1
        PROVE  InQueue(c)'
    <3>1. i - 1 \in DOMAIN queue' /\ queue'[i - 1] = queue[i]
      BY <1>4, <2>1
    <3> QED
      BY <2>1, <3>1 DEF InQueue
  <2> QED
    BY <1>4, <2>1 DEF InQueue
<1>6. ASSUME NEW c
      PROVE  /\ HeldAt("holds", c)' <=> HeldAt("holds", c) \/ c = Head(queue).call
             /\ HeldAt("inside", c)' <=> HeldAt("inside", c)
  BY <1>1, <1>2 DEF HeldAt
<1>7. WaitingCalls' = WaitingCalls
  BY <1>5, <1>6 DEF WaitingCalls
<1>8. RunningCalls' = RunningCalls
  BY <1>6 DEF RunningCalls
<1> QED
  BY <1>3, <1>7, <1>8 DEF poolVars

\* A worker that enters the library begins its call, which no other has.
LEMMA PoolBegins ==
    ASSUME TypeInv, OrderInv, NEW w \in Workers, Enter(w), Posts, NEW m, m = holds[w].call
    PROVE  m \in Calls /\ Pool!Begin(m)
<1>t. at \in [Workers -> {"idle", "holds", "inside"}]
  BY DEF TypeInv, TypeOK
<1>1. /\ at' = [at EXCEPT ![w] = "inside"] /\ at[w] = "holds" /\ Inside = {}
      /\ UNCHANGED <<queue, holds>>
  BY DEF Enter
<1>2. at'[w] = "inside" /\ \A v \in Workers : v # w => at'[v] = at[v]
  BY <1>t, <1>1
<1>3. posted' = posted
  BY <1>1, NothingPosted
<1>4. m \in Calls
  BY <1>1 DEF TypeInv, Requests
<1>5. ~ InQueue(m)
  BY <1>1, <1>4 DEF OrderInv, InQueue, Calls
<1>6. \A v \in Workers : at[v] # "inside"
  BY <1>1 DEF Inside
<1>7. \A v \in Workers : at[v] = "holds" /\ holds[v].call = m => v = w
  BY <1>1 DEF OrderInv
<1>8. ASSUME NEW c
      PROVE  /\ InQueue(c)' <=> InQueue(c)
             /\ HeldAt("holds", c)' <=> HeldAt("holds", c) /\ c # m
             /\ HeldAt("inside", c)' <=> c = m
             /\ HeldAt("holds", m) /\ ~ HeldAt("inside", c)
  BY <1>1, <1>2, <1>6, <1>7 DEF InQueue, HeldAt
<1>9. m \in WaitingCalls /\ RunningCalls = {} /\ RunningCalls' = {m}
  BY <1>4, <1>8 DEF WaitingCalls, RunningCalls
<1>10. WaitingCalls' = WaitingCalls \ {m}
  BY <1>5, <1>8 DEF WaitingCalls
<1> QED
  BY <1>3, <1>4, <1>9, <1>10 DEF Pool!Begin

\* A worker that leaves the library has answered its call.
LEMMA PoolAnswers ==
    ASSUME TypeInv, OrderInv, NEW w \in Workers, Leave(w), Posts, NEW m, m = holds[w].call
    PROVE  m \in Calls /\ Pool!Answer(m)
<1>t. /\ at \in [Workers -> {"idle", "holds", "inside"}]
      /\ holds \in [Workers -> [id : 0..MaxCalls, call : 0..MaxCalls]]
  BY DEF TypeInv, TypeOK
<1>1. /\ at' = [at EXCEPT ![w] = "idle"] /\ at[w] = "inside"
      /\ holds' = [holds EXCEPT ![w] = Nothing] /\ UNCHANGED queue
  BY DEF Leave
<1>2. at'[w] = "idle" /\ \A v \in Workers : v # w => at'[v] = at[v] /\ holds'[v] = holds[v]
  BY <1>t, <1>1
<1>3. \A v \in Workers : at[v] = "inside" => v = w
  BY <1>1 DEF OrderInv, Inside
<1>4. m \in Calls
  BY <1>1 DEF TypeInv, Requests
<1>5. posted' = posted \cup {m}
  BY <1>1, <1>2, <1>3 DEF Posts, Inside
<1>6. ASSUME NEW c
      PROVE  /\ InQueue(c)' <=> InQueue(c)
             /\ HeldAt("holds", c)' <=> HeldAt("holds", c)
             /\ HeldAt("inside", m) /\ ~ HeldAt("inside", c)'
  BY <1>1, <1>2, <1>3 DEF InQueue, HeldAt
<1>7. m \in RunningCalls /\ RunningCalls' = {} /\ WaitingCalls' = WaitingCalls
  BY <1>4, <1>6 DEF WaitingCalls, RunningCalls
<1> QED
  BY <1>4, <1>5, <1>7 DEF Pool!Answer

\* Every step of the page, of its workers and of the GUI thread is one of the
\* pool, or changes nothing there: reloads, synchronous calls and deliveries.
LEMMA PoolNext ==
    ASSUME TypeInv, OrderInv, [Next /\ Posts]_allVars
    PROVE  [Pool!Next]_(Pool!vars)
<1> SUFFICES ASSUME UNCHANGED poolVars => UNCHANGED Pool!vars
             PROVE  Pool!Next \/ UNCHANGED poolVars
  BY DEF poolVars, Pool!vars
<1>0. ASSUME UNCHANGED <<queue, at, holds>>, Posts
      PROVE  UNCHANGED poolVars
  <2>1. posted' = posted
    BY <1>0, NothingPosted DEF Inside
  <2> QED
    BY <1>0, <2>1, PoolKept DEF InQueue, HeldAt
<1>1. ASSUME Posts, \/ Loaded \/ (\E w \in Workers : Open(w)) \/ Reload \/ Deliver
                    \/ SyncBegin \/ SyncEnd \/ Quiet
      PROVE  UNCHANGED poolVars
  BY <1>0, <1>1 DEF Loaded, Open, Reload, Deliver, SyncBegin, SyncEnd, Quiet, vars, workVars
<1>2. ASSUME Posts, CallAsync
      PROVE  Pool!Next
  BY <1>2, PoolSubmits DEF Pool!Next
<1>3. ASSUME Posts, NEW w \in Workers, Take(w)
      PROVE  UNCHANGED poolVars
  BY <1>3, PoolTakes
<1>4. ASSUME Posts, NEW w \in Workers, Enter(w)
      PROVE  Pool!Next
  BY <1>4, PoolBegins DEF Pool!Next
<1>5. ASSUME Posts, NEW w \in Workers, Leave(w)
      PROVE  Pool!Next
  BY <1>5, PoolAnswers DEF Pool!Next
<1>6. ASSUME UNCHANGED allVars
      PROVE  UNCHANGED poolVars
  BY <1>6, PoolKept DEF allVars, vars, workVars, InQueue, HeldAt
<1> QED
  BY <1>1, <1>2, <1>3, <1>4, <1>5, <1>6 DEF Next, Work

\* The asynchronous calls of all pages are such a pool as the handlers
\* implement, reloads or not: Take, Enter and Leave keep the promises the
\* workers' loop keeps, each call once and one at a time in the library.
\* PostingSpec is Spec with the variable posted added, which no step reads.
THEOREM PageUsesPool == PostingSpec => Pool!Spec /\ Spec
<1>1. Init /\ posted = {} => TypeInv /\ OrderInv /\ Pool!Init
  <2> SUFFICES ASSUME Init, posted = {}
               PROVE  OrderInv /\ Pool!Init
    BY InitTypeInv
  <2>1. DOMAIN queue = {} /\ \A w \in Workers : at[w] = "idle"
    BY DEF Init
  <2>2. OrderInv
    BY <2>1 DEF OrderInv, Inside
  <2>3. WaitingCalls = {} /\ RunningCalls = {}
    BY <2>1 DEF WaitingCalls, RunningCalls, InQueue, HeldAt
  <2> QED
    BY <2>2, <2>3 DEF Pool!Init
<1>2. TypeInv /\ OrderInv /\ [Next /\ Posts]_allVars => TypeInv' /\ OrderInv'
  <2>1. [Next /\ Posts]_allVars => [Next]_vars
    BY DEF allVars
  <2> QED
    BY <2>1, NextTypeInv, NextOrderInv
<1>3. TypeInv /\ OrderInv /\ [Next /\ Posts]_allVars => [Pool!Next]_(Pool!vars)
  BY PoolNext
<1>4. [Next /\ Posts]_allVars => [Next]_vars
  BY DEF allVars
<1> QED
  BY <1>1, <1>2, <1>3, <1>4, PTL DEF PostingSpec, Spec, Pool!Spec
=============================================================================
