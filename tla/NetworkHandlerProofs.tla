------------------------- MODULE NetworkHandlerProofs -------------------------
(***************************************************************************)
(* Theorems about the lobby connection, for any number of connect()s,      *)
(* disconnect()s, send()s and tokens.                                      *)
(***************************************************************************)
EXTENDS NetworkHandler, SequenceTheorems, WellFoundedInduction,
        FunctionTheorems, FiniteSetTheorems, TLAPS

\* The bounds are numbers.
LEMMA Bounds ==
    /\ MaxConnects \in Nat /\ MaxDisconnects \in Nat /\ MaxSends \in Nat /\ MaxTokens \in Nat
  BY BoundsAssumption

\* Handlers made by reads and connect()s that do nothing or fail.
ReadNothing == [op |-> "read", ok |-> TRUE, data |-> <<>>]
ReadFailed  == [op |-> "read", ok |-> FALSE, data |-> <<>>]
Refused(c)  == [op |-> "connected", con |-> c, ok |-> FALSE]

\* A sequence is one of what it contains.
LEMMA SeqOfElements ==
    ASSUME NEW S, NEW T, NEW q \in Seq(S), \A i \in 1..Len(q) : q[i] \in T
    PROVE  q \in Seq(T)
<1>1. Len(q) \in Nat /\ q \in [1..Len(q) -> S]
  BY LenProperties
<1>2. q \in [1..Len(q) -> T]
  BY <1>1
<1> QED
  BY <1>1, <1>2, SeqDef

\* What the head of a sequence is, and what is left without it.
LEMMA HeadAndTail ==
    ASSUME NEW S, NEW q \in Seq(S), q # <<>>
    PROVE  /\ Head(q) \in S /\ Tail(q) \in Seq(S)
           /\ Len(q) \in Nat \ {0} /\ Head(q) = q[1]
           /\ Len(Tail(q)) = Len(q) - 1
           /\ \A i \in 1..Len(Tail(q)) : Tail(q)[i] = q[i + 1]
<1>1. Len(q) \in Nat \ {0}
  BY EmptySeq
<1> QED
  BY <1>1, HeadTailProperties

\* close() makes failed reads ready, one for each that was pending, and after
\* them the connect() that was.
LEMMA AbortedIn ==
    ASSUME reads \in Nat, NEW S, ReadFailed \in S, connOp # 0 => Refused(connOp) \in S
    PROVE  Aborted \in Seq(S)
<1>1. [i \in 1..reads |-> ReadFailed] \in Seq(S)
  BY SeqDef
<1>2. CASE connOp = 0
  <2>1. Aborted = [i \in 1..reads |-> ReadFailed] \o <<>>
    BY <1>2 DEF Aborted, ReadFailed
  <2> QED
    BY <1>1, <2>1, ConcatEmptySeq
<1>3. CASE connOp # 0
  <2>1. Aborted = [i \in 1..reads |-> ReadFailed] \o <<Refused(connOp)>>
    BY <1>3 DEF Aborted, ReadFailed, Refused
  <2>2. <<Refused(connOp)>> \in Seq(S)
    BY <1>3
  <2> QED
    BY <1>1, <2>1, <2>2, ConcatProperties
<1> QED
  BY <1>2, <1>3

\* A read that starts adds to the queue what the buffer or the closed socket
\* has ready.
LEMMA StartReadIn ==
    ASSUME NEW buf, NEW S, NEW rest \in Seq(S), reads \in Nat, StartRead(buf, rest),
           ReadNothing \in S, ReadFailed \in S
    PROVE  /\ queue' \in Seq(S) /\ reads' \in Nat /\ (sock = "closed" => reads' = reads)
           /\ phase' \in {phase, "broken"}
<1>1. /\ Append(rest, ReadNothing) \in Seq(S)
      /\ Append(rest, ReadFailed) \in Seq(S)
  BY AppendProperties
<1>2. CASE LineEnds(buf) # {}
  <2>1. queue' = Append(rest, ReadNothing) /\ UNCHANGED <<reads, phase>>
    BY <1>2 DEF StartRead, ReadNothing
  <2> QED
    BY <1>1, <2>1
<1>3. CASE LineEnds(buf) = {} /\ Held(rest)
  <2>1. queue' = rest /\ reads' = reads /\ phase' = "broken"
    BY <1>3 DEF StartRead
  <2> QED
    BY <1>3, <2>1
<1>4. CASE LineEnds(buf) = {} /\ ~ Held(rest) /\ sock = "open"
  <2>1. queue' = rest /\ reads' = 1 /\ phase' = phase
    BY <1>4 DEF StartRead
  <2> QED
    BY <1>4, <2>1
<1>5. CASE LineEnds(buf) = {} /\ ~ Held(rest) /\ sock # "open"
  <2>1. queue' = Append(rest, ReadFailed) /\ reads' = 0 /\ phase' = phase /\ reads = 0
    BY <1>5 DEF StartRead, ReadFailed, Held
  <2> QED
    BY <1>1, <2>1
<1> QED
  BY <1>2, <1>3, <1>4, <1>5

-----------------------------------------------------------------------------
(* The invariant.                                                          *)

\* How many connect()s the resolver has answered.
Resolved == connects - Len(resolving)

\* The numbers, and the socket: it is closed exactly while it belongs to no
\* connect(), and is never of one that has yet to be resolved.
SocketInv ==
    /\ sock \in {"closed", "open"}
    /\ conn \in 0..MaxConnects
    /\ net \in {"none", "syn", "up", "fin", "error"}
    /\ connOp \in {0, conn}
    /\ reads \in Nat
    /\ sock = "closed" <=> net = "none"
    /\ sock = "closed" <=> conn = 0
    /\ sock = "closed" => reads = 0

\* JavaScript's calls are counted; what was written was sent before.
CallInv ==
    /\ connects \in 0..MaxConnects
    /\ disconnects \in 0..MaxDisconnects
    /\ sends \in 0..MaxSends
    /\ asked \in [1..MaxSends -> 0..MaxConnects]
    /\ written \in [msg : 0..sends, con : 0..MaxConnects]
    /\ phase \in {"up", "quit", "lateQuit", "down", "broken"}

\* The resolver is asked about the connect()s one after the other; those it
\* has not answered, and the one the socket is busy with, are due an answer.
DueInv ==
    /\ resolving \in Seq(Connections)
    /\ Resolved >= 0
    /\ \A i \in 1..Len(resolving) : resolving[i] = Resolved + i
    /\ outcome \in [Connections -> {"none", "asked", "open", "failed"}]
    /\ \A c \in Connections : Resolved < c /\ c <= connects => outcome[c] = "asked"
    /\ \A c \in Connections : c > connects => outcome[c] = "none"
    /\ connOp # 0 => outcome[connOp] = "asked"
    /\ conn <= Resolved

\* The tokens that have arrived.
Known == {t \in Tokens : t.n <= arrived[t.con]}

Sorted(s)      == \A i, j \in 1..Len(s) : i < j => Before(s[i], s[j])
Precedes(s, t) == \A i \in 1..Len(s), j \in 1..Len(t) : Before(s[i], t[j])

\* What has arrived is in order wherever it is, and only of connections no
\* later than that of the socket.
LineInv ==
    /\ arrived \in [Connections -> 0..MaxTokens]
    /\ \A c \in Connections : c > Resolved \/ (conn # 0 /\ c > conn) => arrived[c] = 0
    /\ line \in Seq(Known) /\ readBuf \in Seq(Known) /\ unread \in Seq(Known)
    /\ Sorted(line) /\ Sorted(readBuf) /\ Sorted(unread)
    /\ Precedes(line, readBuf) /\ Precedes(line, unread) /\ Precedes(readBuf, unread)
    /\ sock = "closed" => unread = <<>>

Owes(h) == h.op \in {"resolved", "connected"}

\* What a handler in the queue is, given the rest of the state: one that will
\* answer is of a connect() that is due an answer and that no other handler
\* will answer, a host name's is of a connection yet to be opened, a send()
\* has not been overtaken, and what was read is newer than the buffer.
DueHandler(h)  == Owes(h) => h.con <= Resolved /\ h.con # connOp /\ outcome[h.con] = "asked"
NewHandler(h)  == h.op = "resolved" =>
                      h.con > conn /\ \A c \in Connections : c >= h.con => arrived[c] = 0
SendHandler(h) == h.op = "send" =>
                      written.msg < h.msg /\ h.msg <= sends /\ conn <= asked[h.msg]
ReadHandler(h) == h.op = "read" =>
                      /\ h.data \in Seq(Known) /\ Sorted(h.data)
                      /\ Precedes(line, h.data) /\ Precedes(readBuf, h.data)
                      /\ Precedes(h.data, unread)

\* The handlers that may be in the queue.
Expected ==
    {h \in Handlers : DueHandler(h) /\ NewHandler(h) /\ SendHandler(h) /\ ReadHandler(h)}

\* How a handler stands to a later one.
Pair(a, b, ask) ==
    /\ Owes(a) /\ Owes(b) => a.con # b.con
    /\ a.op = "resolved" /\ b.op = "resolved" => a.con < b.con
    /\ a.op = "resolved" /\ b.op = "send" => a.con <= ask[b.msg]
    /\ a.op = "send" /\ b.op = "send" => a.msg < b.msg
    /\ a.op = "read" /\ b.op = "read" => Precedes(a.data, b.data)

InOrder(q, ask) == \A i, j \in 1..Len(q) : i < j => Pair(q[i], q[j], ask)

\* All handlers in the queue are expected, in the order they are in.
QueueInv == queue \in Seq(Expected) /\ InOrder(queue, asked)

\* Apart from the rest of the socket, as the provers are with Booleans.
FlagInv == confirmed \in BOOLEAN

\* The inductive invariant.
IInv == FlagInv /\ SocketInv /\ CallInv /\ DueInv /\ LineInv /\ QueueInv

\* It holds before the first call.
LEMMA InitInv == Init => IInv
<1> SUFFICES ASSUME Init
             PROVE  IInv
  OBVIOUS
<1>0. FlagInv
  BY DEF Init, FlagInv
<1>1. SocketInv
  BY Bounds DEF Init, SocketInv
<1>2. CallInv
  BY Bounds DEF Init, CallInv
<1>3. Len(resolving) = 0 /\ resolving \in Seq(Connections) /\ connects = 0
  BY DEF Init
<1>4. DueInv
  BY <1>3, Bounds DEF Init, DueInv, Resolved, Connections
<1>5. /\ line = <<>> /\ readBuf = <<>> /\ unread = <<>> /\ queue = <<>>
      /\ arrived = [c \in Connections |-> 0]
  BY DEF Init
<1>6. LineInv
  BY <1>5, Bounds DEF LineInv, Sorted, Precedes
<1>7. QueueInv
  BY <1>5 DEF QueueInv, InOrder
<1> QED
  BY <1>0, <1>1, <1>2, <1>4, <1>6, <1>7 DEF IInv

\* It contains the types.
LEMMA InvImpliesTypeOK == IInv => TypeOK
<1> SUFFICES ASSUME IInv
             PROVE  TypeOK
  OBVIOUS
<1>1. Known \subseteq Tokens /\ Expected \subseteq Handlers
  BY DEF Known, Expected
<1>2. /\ line \in Seq(Tokens) /\ readBuf \in Seq(Tokens) /\ unread \in Seq(Tokens)
      /\ queue \in Seq(Handlers)
  BY <1>1, SeqMonotonic DEF IInv, LineInv, QueueInv
<1>3. connOp \in 0..MaxConnects
  BY Bounds DEF IInv, SocketInv
<1>5. outcome \in [Connections -> {"none", "asked", "open", "failed", "twice"}]
  BY DEF IInv, DueInv
<1>4. written \in [msg : 0..MaxSends, con : 0..MaxConnects]
  BY Bounds DEF IInv, CallInv
<1> QED
  BY <1>2, <1>3, <1>4, <1>5 DEF IInv, FlagInv, SocketInv, CallInv, DueInv, LineInv, TypeOK

-----------------------------------------------------------------------------
(* Tokens in order.                                                        *)

\* Nothing is out of order where there is nothing.
LEMMA EmptyOrder == Sorted(<<>>) /\ \A s : Precedes(s, <<>>) /\ Precedes(<<>>, s)
  BY DEF Sorted, Precedes

\* A token that comes after all others may be appended.
LEMMA AppendOrder ==
    ASSUME NEW S, NEW s \in Seq(S), NEW t, \A x \in S : Before(x, t)
    PROVE  /\ Sorted(s) => Sorted(Append(s, t))
           /\ \A r \in Seq(S) : Precedes(r, s) => Precedes(r, Append(s, t))
<1>1. /\ Len(s) \in Nat /\ Len(Append(s, t)) = Len(s) + 1
      /\ \A i \in 1..Len(s) : Append(s, t)[i] = s[i] /\ s[i] \in S
      /\ Append(s, t)[Len(s) + 1] = t
  OBVIOUS
<1>2. \A r \in Seq(S) : \A i \in 1..Len(r) : r[i] \in S
  OBVIOUS
<1> QED
  BY <1>1, <1>2 DEF Sorted, Precedes

\* What is put together is in order if the pieces are.
LEMMA ConcatOrder ==
    ASSUME NEW S, NEW p \in Seq(S), NEW q \in Seq(S)
    PROVE  /\ p \o q \in Seq(S)
           /\ Sorted(p) /\ Sorted(q) /\ Precedes(p, q) => Sorted(p \o q)
           /\ \A r : Precedes(p, r) /\ Precedes(q, r) => Precedes(p \o q, r)
           /\ \A r : Precedes(r, p) /\ Precedes(r, q) => Precedes(r, p \o q)
<1>1. /\ Len(p) \in Nat /\ Len(q) \in Nat /\ Len(p \o q) = Len(p) + Len(q)
      /\ \A i \in 1..Len(p) + Len(q) :
            (p \o q)[i] = IF i <= Len(p) THEN p[i] ELSE q[i - Len(p)]
      /\ p \o q \in Seq(S)
  BY ConcatProperties
<1>2. ASSUME Sorted(p), Sorted(q), Precedes(p, q)
      PROVE  Sorted(p \o q)
  BY <1>1, <1>2 DEF Sorted, Precedes
<1>3. ASSUME NEW r, Precedes(p, r), Precedes(q, r)
      PROVE  Precedes(p \o q, r)
  BY <1>1, <1>3 DEF Precedes
<1>4. ASSUME NEW r, Precedes(r, p), Precedes(r, q)
      PROVE  Precedes(r, p \o q)
  BY <1>1, <1>4 DEF Precedes
<1> QED
  BY <1>1, <1>2, <1>3, <1>4

\* The pieces a sequence is cut into: they are in order, and stand to what
\* comes before and after them as the whole did.
Pieces(a, b, s) ==
    /\ Len(a) >= 1 /\ Sorted(a) /\ Sorted(b) /\ Precedes(a, b)
    /\ \A r : Precedes(s, r) => Precedes(a, r) /\ Precedes(b, r)
    /\ \A r : Precedes(r, s) => Precedes(r, a) /\ Precedes(r, b)

\* What is in order can be cut in two.
LEMMA CutOrder ==
    ASSUME NEW S, NEW s \in Seq(S), NEW k \in 1..Len(s), Sorted(s)
    PROVE  /\ SubSeq(s, 1, k) \in Seq(S) /\ SubSeq(s, k + 1, Len(s)) \in Seq(S)
           /\ Pieces(SubSeq(s, 1, k), SubSeq(s, k + 1, Len(s)), s)
<1> DEFINE a == SubSeq(s, 1, k)
           b == SubSeq(s, k + 1, Len(s))
<1>1. /\ a \in Seq(S) /\ Len(a) = k /\ \A i \in 1..k : a[i] = s[i]
      /\ b \in Seq(S) /\ Len(b) = Len(s) - k /\ \A i \in 1..Len(s) - k : b[i] = s[k + i]
      /\ Len(s) \in Nat
  OBVIOUS
<1> HIDE DEF a, b
<1>2. Sorted(a)
  BY <1>1 DEF Sorted
<1>3. Sorted(b) /\ Precedes(a, b)
  <2>1. ASSUME NEW i \in 1..Len(b), NEW j \in 1..Len(b), i < j
        PROVE  Before(b[i], b[j])
    <3>1. b[i] = s[k + i] /\ b[j] = s[k + j] /\ k + i \in 1..Len(s) /\ k + j \in 1..Len(s)
      BY <1>1
    <3> QED
      BY <2>1, <3>1 DEF Sorted
  <2>2. ASSUME NEW i \in 1..Len(a), NEW j \in 1..Len(b)
        PROVE  Before(a[i], b[j])
    <3>1. a[i] = s[i] /\ b[j] = s[k + j] /\ i \in 1..Len(s) /\ k + j \in 1..Len(s)
      BY <1>1
    <3>2. i < k + j
      BY <1>1
    <3> QED
      BY <3>1, <3>2 DEF Sorted
  <2> QED
    BY <2>1, <2>2 DEF Sorted, Precedes
<1>5. ASSUME NEW r, Precedes(s, r)
      PROVE  Precedes(a, r) /\ Precedes(b, r)
  <2>1. Precedes(a, r)
    BY <1>1, <1>5 DEF Precedes
  <2>2. ASSUME NEW i \in 1..Len(b), NEW j \in 1..Len(r)
        PROVE  Before(b[i], r[j])
    <3>1. b[i] = s[k + i] /\ k + i \in 1..Len(s)
      BY <1>1
    <3> QED
      BY <1>5, <3>1 DEF Precedes
  <2> QED
    BY <2>1, <2>2 DEF Precedes
<1>4. ASSUME NEW r, Precedes(r, s)
      PROVE  Precedes(r, a) /\ Precedes(r, b)
  <2>1. ASSUME NEW i \in 1..Len(r), NEW j \in 1..Len(a)
        PROVE  Before(r[i], a[j])
    <3>1. a[j] = s[j] /\ j \in 1..Len(s)
      BY <1>1
    <3> QED
      BY <1>4, <3>1 DEF Precedes
  <2>2. ASSUME NEW i \in 1..Len(r), NEW j \in 1..Len(b)
        PROVE  Before(r[i], b[j])
    <3>1. b[j] = s[k + j] /\ k + j \in 1..Len(s)
      BY <1>1
    <3> QED
      BY <1>4, <3>1 DEF Precedes
  <2> QED
    BY <2>1, <2>2 DEF Precedes
<1>6. Pieces(a, b, s)
  BY <1>1, <1>2, <1>3, <1>4, <1>5 DEF Pieces
<1> QED
  BY <1>1, <1>6 DEF a, b

-----------------------------------------------------------------------------
(* The first line of the buffer.                                           *)

\* A set of numbers has a least one.
LEMMA Least ==
    ASSUME NEW S, S \subseteq Nat, S # {}
    PROVE  \E i \in S : \A j \in S : i <= j
<1> DEFINE Less == {ss \in Nat \X Nat : ss[1] < ss[2]}
<1>1. IsWellFoundedOn(Less, Nat)
  BY NatLessThanWellFounded DEF OpToRel
<1> HIDE DEF Less
<1>2. PICK x \in S : \A y \in S : ~ (<<y, x>> \in Less)
  BY <1>1, WFMin
<1>3. \A y \in S : ~ (y < x)
  BY <1>2 DEF Less
<1> QED
  BY <1>3

\* onRead() either takes nothing out of the buffer or cuts it.
LEMMA OnReadCases ==
    ASSUME OnRead, NEW buf, buf = readBuf \o Head(queue).data, buf \in Seq(Tokens)
    PROVE  /\ \/ line' = line /\ readBuf' = buf
              \/ \E k \in 1..Len(buf) :
                    line' = SubSeq(buf, 1, k) /\ readBuf' = SubSeq(buf, k + 1, Len(buf))
           /\ StartRead(readBuf', Tail(queue))
<1>1. LineEnds(buf) \subseteq 1..Len(buf) /\ Len(buf) \in Nat
  BY DEF LineEnds
<1> DEFINE n == IF LineEnds(buf) # {} THEN FirstLine(buf)
                ELSE IF Head(queue).data # <<>> THEN 0
                ELSE Len(buf)
<1>2. n \in 0..Len(buf)
  <2>1. ASSUME LineEnds(buf) # {}
        PROVE  FirstLine(buf) \in 1..Len(buf)
    <3>1. \E i \in LineEnds(buf) : \A j \in LineEnds(buf) : i <= j
      BY <1>1, <2>1, Least
    <3> QED
      BY <1>1, <3>1 DEF FirstLine
  <2> QED
    BY <1>1, <2>1
<1>3. /\ readBuf' = SubSeq(buf, n + 1, Len(buf))
      /\ line' = IF n = 0 THEN line ELSE SubSeq(buf, 1, n)
      /\ StartRead(readBuf', Tail(queue))
  BY DEF OnRead
<1> HIDE DEF n
<1>4. CASE n = 0
  <2>1. SubSeq(buf, 1, Len(buf)) = buf
    OBVIOUS
  <2> QED
    BY <1>3, <1>4, <2>1
<1>5. CASE n # 0
  <2>1. n \in 1..Len(buf)
    BY <1>1, <1>2, <1>5
  <2> QED
    BY <1>3, <1>5, <2>1
<1> QED
  BY <1>4, <1>5

-----------------------------------------------------------------------------
(* The handlers.                                                           *)

\* The handlers that are made.
LEMMA MadeHandlers ==
    /\ ReadNothing \in Handlers /\ ReadFailed \in Handlers
    /\ [op |-> "disconnect"] \in Handlers
    /\ \A m \in 1..MaxSends : [op |-> "send", msg |-> m] \in Handlers
    /\ \A c \in Connections : Refused(c) \in Handlers
    /\ \A c \in Connections, o \in BOOLEAN :
          /\ [op |-> "resolved", con |-> c, ok |-> o] \in Handlers
          /\ [op |-> "connected", con |-> c, ok |-> o] \in Handlers
    /\ \A o \in BOOLEAN, d \in Seq(Tokens) : [op |-> "read", ok |-> o, data |-> d] \in Handlers
<1>1. <<>> \in Seq(Tokens)
  OBVIOUS
<1> QED
  BY <1>1 DEF Handlers, ReadNothing, ReadFailed, Refused

\* What a handler finds at the head of the queue, and what it leaves there.
LEMMA HeadExpected ==
    ASSUME IInv, queue # <<>>
    PROVE  /\ Head(queue) \in Expected
           /\ Tail(queue) \in Seq({g \in Expected : Pair(Head(queue), g, asked)})
           /\ InOrder(Tail(queue), asked)
<1>1. /\ Head(queue) \in Expected /\ Tail(queue) \in Seq(Expected)
      /\ Len(queue) \in Nat \ {0} /\ Head(queue) = queue[1]
      /\ Len(Tail(queue)) = Len(queue) - 1
      /\ \A i \in 1..Len(Tail(queue)) : Tail(queue)[i] = queue[i + 1]
  BY HeadAndTail DEF IInv, QueueInv
<1>2. \A i \in 1..Len(Tail(queue)) : Tail(queue)[i] \in Expected
  BY <1>1, ElementOfSeq
<1>3. \A i \in 1..Len(Tail(queue)) : Pair(Head(queue), Tail(queue)[i], asked)
  BY <1>1 DEF IInv, QueueInv, InOrder
<1>4. Tail(queue) \in Seq({g \in Expected : Pair(Head(queue), g, asked)})
  <2> DEFINE T == {g \in Expected : Pair(Head(queue), g, asked)}
  <2>1. \A i \in 1..Len(Tail(queue)) : Tail(queue)[i] \in T
    BY <1>2, <1>3
  <2> HIDE DEF T
  <2>2. Tail(queue) \in Seq(T)
    BY <1>1, <2>1, SeqOfElements
  <2> QED
    BY <2>2 DEF T
<1>5. InOrder(Tail(queue), asked)
  BY <1>1 DEF IInv, QueueInv, InOrder
<1> QED
  BY <1>1, <1>4, <1>5

\* What its kind says of it.
LEMMA HeadType ==
    ASSUME IInv, queue # <<>>
    PROVE  /\ Owes(Head(queue)) =>
                 Head(queue).con \in Connections /\ Head(queue).ok \in BOOLEAN
           /\ Head(queue).op = "read" =>
                 Head(queue).ok \in BOOLEAN /\ Head(queue).data \in Seq(Tokens)
           /\ Head(queue).op = "send" => Head(queue).msg \in 1..MaxSends
           /\ DueHandler(Head(queue)) /\ NewHandler(Head(queue))
           /\ SendHandler(Head(queue)) /\ ReadHandler(Head(queue))
<1>1. Head(queue) \in Handlers
  BY HeadExpected DEF Expected
<1>2. /\ DueHandler(Head(queue)) /\ NewHandler(Head(queue))
      /\ SendHandler(Head(queue)) /\ ReadHandler(Head(queue))
  BY HeadExpected DEF Expected
<1> QED
  BY <1>1, <1>2 DEF Handlers, Owes

\* A connect() is not resolved yet when it is made, and is when the resolver
\* has answered.
LEMMA ConnectResolves == ASSUME IInv, Connect PROVE Resolved' = Resolved /\ Resolved \in Int
<1>1. connects' = connects + 1 /\ resolving' = Append(resolving, connects + 1)
  BY DEF Connect
<1>2. connects \in Nat /\ connects + 1 \in Connections /\ Len(resolving) \in Nat
  BY Bounds DEF Connect, IInv, CallInv, DueInv, Connections
<1>3. Len(resolving') = Len(resolving) + 1
  BY <1>1, <1>2, AppendProperties DEF IInv, DueInv
<1>4. Resolved' = connects' - Len(resolving') /\ Resolved = connects - Len(resolving)
  BY DEF Resolved
<1> QED
  BY <1>1, <1>2, <1>3, <1>4

\* The resolver's answer makes it one more.
LEMMA ResolveResolves == ASSUME IInv, Resolve PROVE Resolved' = Resolved + 1 /\ Resolved \in Nat
<1>1. resolving # <<>> /\ resolving' = Tail(resolving) /\ connects' = connects
  BY DEF Resolve, jsVars
<1>2. Len(resolving) \in Nat /\ Len(resolving') = Len(resolving) - 1
  BY <1>1, HeadAndTail DEF IInv, DueInv
<1>3. Resolved' = connects' - Len(resolving') /\ Resolved = connects - Len(resolving)
  BY DEF Resolved
<1>4. connects \in Int /\ Resolved >= 0
  BY DEF IInv, CallInv, DueInv
<1> QED
  BY <1>1, <1>2, <1>3, <1>4

\* A line is posted in order, after the one before it, and whatever was to
\* come after the buffer comes after the line and what is left.
LEMMA OnReadLines ==
    ASSUME IInv, OnRead
    PROVE  /\ line' \in Seq(Known) /\ readBuf' \in Seq(Known)
           /\ Sorted(line') /\ Sorted(readBuf') /\ Precedes(line', readBuf')
           /\ line' # line => Len(line') >= 1 /\ Precedes(line, line')
           /\ \A r : Precedes(line, r) /\ Precedes(readBuf, r) /\ Precedes(Head(queue).data, r)
                        => Precedes(line', r) /\ Precedes(readBuf', r)
<1> DEFINE new == Head(queue).data
           buf == readBuf \o new
<1>1. /\ new \in Seq(Known) /\ Sorted(new) /\ Precedes(line, new) /\ Precedes(readBuf, new)
  BY HeadType DEF OnRead, Ready, ReadHandler
<1>2. /\ line \in Seq(Known) /\ readBuf \in Seq(Known)
      /\ Sorted(line) /\ Sorted(readBuf) /\ Precedes(line, readBuf)
  BY DEF IInv, LineInv
<1> HIDE DEF new
<1>3. /\ buf \in Seq(Known) /\ Sorted(buf) /\ Precedes(line, buf)
      /\ \A r : Precedes(readBuf, r) /\ Precedes(new, r) => Precedes(buf, r)
  BY <1>1, <1>2, ConcatOrder
<1>4. buf = readBuf \o Head(queue).data
  BY DEF new
<1>5. buf \in Seq(Tokens)
  <2>1. Known \subseteq Tokens
    BY DEF Known
  <2> QED
    BY <1>3, <2>1, SeqMonotonic
<1> HIDE DEF buf
<1>6. CASE line' = line /\ readBuf' = buf
  BY <1>2, <1>3, <1>6 DEF new
<1>7. ASSUME NEW k \in 1..Len(buf), line' = SubSeq(buf, 1, k),
             readBuf' = SubSeq(buf, k + 1, Len(buf))
      PROVE  line' \in Seq(Known) /\ readBuf' \in Seq(Known) /\ Pieces(line', readBuf', buf)
  <2>1. /\ SubSeq(buf, 1, k) \in Seq(Known) /\ SubSeq(buf, k + 1, Len(buf)) \in Seq(Known)
        /\ Pieces(SubSeq(buf, 1, k), SubSeq(buf, k + 1, Len(buf)), buf)
    BY <1>3, CutOrder
  <2> QED
    BY <1>7, <2>1
<1>8. CASE \E k \in 1..Len(buf) :
              line' = SubSeq(buf, 1, k) /\ readBuf' = SubSeq(buf, k + 1, Len(buf))
  BY <1>3, <1>7, <1>8 DEF new, Pieces
<1> QED
  BY <1>4, <1>5, <1>6, <1>8, OnReadCases

\* A read that has completed starts the next one, on what it leaves.
LEMMA OnReadStarts ==
    ASSUME IInv, OnRead
    PROVE  \E buf : StartRead(buf, Tail(queue))
<1> DEFINE buf == readBuf \o Head(queue).data
<1>1. readBuf \in Seq(Tokens) /\ Head(queue).data \in Seq(Tokens)
  BY InvImpliesTypeOK, HeadType DEF TypeOK, OnRead, Ready
<1>2. buf \in Seq(Tokens)
  BY <1>1, ConcatProperties
<1> HIDE DEF buf
<1>3. buf = readBuf \o Head(queue).data
  BY DEF buf
<1> QED
  BY <1>2, <1>3, OnReadCases

\* The handler at the head of the queue answers the connect() it is of, which
\* is due an answer and is not the one the socket is busy with.
LEMMA Answering ==
    ASSUME IInv, queue # <<>>, Owes(Head(queue)), NEW result \in {"open", "failed"},
           Answer(Head(queue).con, result), UNCHANGED <<resolving, connects>>,
           connOp' \in {0, connOp}, conn' \in {0, conn}
    PROVE  /\ DueInv'
           /\ outcome' = [outcome EXCEPT ![Head(queue).con] = result]
<1> DEFINE c == Head(queue).con
<1>1. c \in Connections /\ c <= Resolved /\ c # connOp /\ outcome[c] = "asked"
  BY HeadType DEF DueHandler
<1>2. outcome' = [outcome EXCEPT ![c] = result]
  BY <1>1 DEF Answer, IInv, DueInv
<1> HIDE DEF c
<1>3. Resolved' = Resolved /\ Resolved \in Int /\ connects \in Int
  BY DEF Resolved, IInv, DueInv, CallInv
<1>4. DueInv'
  BY <1>1, <1>2, <1>3, Bounds DEF IInv, DueInv, SocketInv, Connections
<1> QED
  BY <1>2, <1>4 DEF c

\* The queue stays in order if what is added may follow what is left.
LEMMA AppendInOrder ==
    ASSUME NEW S, NEW q \in Seq(S), NEW ask, InOrder(q, ask), NEW h,
           \A g \in S : Pair(g, h, ask)
    PROVE  InOrder(Append(q, h), ask)
<1>1. /\ Len(q) \in Nat /\ Len(Append(q, h)) = Len(q) + 1
      /\ \A i \in 1..Len(q) : Append(q, h)[i] = q[i] /\ q[i] \in S
      /\ Append(q, h)[Len(q) + 1] = h
  OBVIOUS
<1> QED
  BY <1>1 DEF InOrder

\* Two queues in order make one, if all of the second may follow all of the
\* first.
LEMMA ConcatInOrder ==
    ASSUME NEW S, NEW p \in Seq(S), NEW T, NEW q \in Seq(T), NEW ask,
           InOrder(p, ask), InOrder(q, ask), \A g \in S, h \in T : Pair(g, h, ask)
    PROVE  InOrder(p \o q, ask)
<1>1. /\ Len(p) \in Nat /\ Len(q) \in Nat /\ Len(p \o q) = Len(p) + Len(q)
      /\ \A i \in 1..Len(p) : (p \o q)[i] = p[i] /\ p[i] \in S
      /\ \A i \in 1..Len(q) : (p \o q)[Len(p) + i] = q[i] /\ q[i] \in T
  OBVIOUS
<1>2. ASSUME NEW i \in 1..Len(p \o q), NEW j \in 1..Len(p \o q), i < j
      PROVE  Pair((p \o q)[i], (p \o q)[j], ask)
  <2>1. CASE j <= Len(p)
    BY <1>1, <1>2, <2>1 DEF InOrder
  <2>2. CASE i <= Len(p) /\ Len(p) < j
    <3>1. j - Len(p) \in 1..Len(q) /\ j = Len(p) + (j - Len(p)) /\ i \in 1..Len(p)
      BY <1>1, <1>2, <2>2
    <3>2. (p \o q)[j] \in T /\ (p \o q)[i] \in S
      BY <1>1, <3>1
    <3> QED
      BY <3>2
  <2>3. CASE Len(p) < i
    <3>1. /\ j - Len(p) \in 1..Len(q) /\ j = Len(p) + (j - Len(p))
          /\ i - Len(p) \in 1..Len(q) /\ i = Len(p) + (i - Len(p))
          /\ i - Len(p) < j - Len(p)
      BY <1>1, <1>2, <2>3
    <3>2. (p \o q)[i] = q[i - Len(p)] /\ (p \o q)[j] = q[j - Len(p)]
      BY <1>1, <3>1
    <3> QED
      BY <3>1, <3>2 DEF InOrder
  <2> QED
    BY <1>1, <1>2, <2>1, <2>2, <2>3
<1> QED
  BY <1>2 DEF InOrder

-----------------------------------------------------------------------------
(* The steps.                                                              *)

\* The kernel's state is set and reset.
LEMMA NextFlagInv == FlagInv /\ [Next]_vars => FlagInv'
<1> SUFFICES ASSUME FlagInv, [Next]_vars
             PROVE  FlagInv'
  OBVIOUS
<1>1. confirmed' = confirmed \/ confirmed' = TRUE \/ confirmed' = FALSE
  BY DEF Next, System, ServiceThread, Over, Connect, Disconnect, Send, Quit, Resolve,
         Establish, ConnectCompletes, ReadCompletes, Arrive, ServerCloses, ResolveFailed,
         ResolvedClosed, ResolvedOpen, ResolvedAgain, ConnectFailed, Connected, OnRead,
         OnReadError, ExecuteSend, ExecuteDisconnect, ServiceEnds, CloseSocket, vars, sockVars
<1> QED
  BY <1>1 DEF FlagInv

\* The socket and the numbers of calls.
LEMMA NextSocketInv == IInv /\ [Next]_vars => SocketInv' /\ CallInv'
<1> SUFFICES ASSUME IInv, [Next]_vars
             PROVE  SocketInv' /\ CallInv'
  OBVIOUS
<1> USE DEF vars, jsVars, sockVars, bufVars
<1>1. ASSUME Connect
      PROVE  SocketInv' /\ CallInv'
  BY <1>1, Bounds DEF Connect, IInv, SocketInv, CallInv
<1>2. ASSUME Disconnect
      PROVE  SocketInv' /\ CallInv'
  BY <1>2, Bounds DEF Disconnect, IInv, SocketInv, CallInv
<1>3. ASSUME Send
      PROVE  SocketInv' /\ CallInv'
  BY <1>3, Bounds DEF Send, IInv, SocketInv, CallInv
<1>4. ASSUME Quit
      PROVE  SocketInv' /\ CallInv'
  BY <1>4, Bounds DEF Quit, IInv, SocketInv, CallInv
<1>5. ASSUME Resolve
      PROVE  SocketInv' /\ CallInv'
  BY <1>5, Bounds DEF Resolve, IInv, SocketInv, CallInv
<1>6. ASSUME Establish
      PROVE  SocketInv' /\ CallInv'
  BY <1>6, Bounds DEF Establish, IInv, SocketInv, CallInv
<1>7. ASSUME ConnectCompletes
      PROVE  SocketInv' /\ CallInv'
  BY <1>7, Bounds DEF ConnectCompletes, IInv, SocketInv, CallInv
<1>8. ASSUME ReadCompletes
      PROVE  SocketInv' /\ CallInv'
  BY <1>8, Bounds DEF ReadCompletes, IInv, SocketInv, CallInv
<1>9. ASSUME Arrive
      PROVE  SocketInv' /\ CallInv'
  BY <1>9, Bounds DEF Arrive, IInv, SocketInv, CallInv
<1>10. ASSUME ServerCloses
       PROVE  SocketInv' /\ CallInv'
  BY <1>10, Bounds DEF ServerCloses, IInv, SocketInv, CallInv
<1>11. ASSUME ResolveFailed
       PROVE  SocketInv' /\ CallInv'
  BY <1>11, Bounds DEF ResolveFailed, CloseSocket, IInv, SocketInv, CallInv
<1>12. ASSUME ResolvedClosed
       PROVE  SocketInv' /\ CallInv'
  <2>1. /\ Head(queue).con \in 1..MaxConnects
        /\ sock' = "open" /\ conn' = Head(queue).con /\ confirmed' = FALSE /\ reads' = reads
        /\ \/ net' = "syn" /\ connOp' = Head(queue).con
           \/ net' = "error" /\ connOp' = connOp
        /\ UNCHANGED <<jsVars, written, phase>>
    BY <1>12, HeadType DEF ResolvedClosed, Ready, Owes, Connections
  <2>2. sock = "closed" \/ connOp = 0
    BY <1>12 DEF ResolvedClosed
  <2>3. connOp = 0
    BY <2>2 DEF IInv, SocketInv
  <2>4. CallInv'
    BY <2>1 DEF IInv, CallInv
  <2> QED
    BY <2>1, <2>3, <2>4, Bounds DEF IInv, SocketInv
<1>13. ASSUME ResolvedOpen
       PROVE  SocketInv' /\ CallInv'
  BY <1>13, Bounds, HeadType DEF ResolvedOpen, IInv, SocketInv, CallInv
<1>14. ASSUME ConnectFailed
       PROVE  SocketInv' /\ CallInv'
  BY <1>14, Bounds DEF ConnectFailed, CloseSocket, IInv, SocketInv, CallInv
<1>15. ASSUME Connected
       PROVE  SocketInv' /\ CallInv'
  <2>1. StartRead(readBuf, Tail(queue)) /\ UNCHANGED <<sock, conn, net, confirmed, connOp,
                                                      written, jsVars>>
    BY <1>15 DEF Connected
  <2>2. reads' \in Nat /\ (sock = "closed" => reads' = reads) /\ phase' \in {phase, "broken"}
    BY <2>1 DEF StartRead, Held, IInv, SocketInv
  <2> QED
    BY <2>1, <2>2 DEF IInv, SocketInv, CallInv
<1>16. ASSUME OnRead
       PROVE  SocketInv' /\ CallInv'
  <2>1. PICK buf : StartRead(buf, Tail(queue))
    BY <1>16, OnReadStarts
  <2>2. UNCHANGED <<sock, conn, net, confirmed, connOp, written, jsVars>>
    BY <1>16 DEF OnRead
  <2>3. reads' \in Nat /\ (sock = "closed" => reads' = reads) /\ phase' \in {phase, "broken"}
    BY <2>1 DEF StartRead, Held, IInv, SocketInv
  <2> QED
    BY <2>2, <2>3 DEF IInv, SocketInv, CallInv
<1>17. ASSUME ResolvedAgain
       PROVE  SocketInv' /\ CallInv'
  BY <1>17, Bounds, HeadType DEF ResolvedAgain, IInv, SocketInv, CallInv
<1>18. ASSUME OnReadError
       PROVE  SocketInv' /\ CallInv'
  BY <1>18, Bounds DEF OnReadError, IInv, SocketInv, CallInv
<1>19. ASSUME ExecuteSend
       PROVE  SocketInv' /\ CallInv'
  <2>1. written' = written \/ written' = [msg |-> Head(queue).msg, con |-> conn]
    BY <1>19 DEF ExecuteSend
  <2>2. Head(queue).msg \in 0..sends
    BY <1>19, HeadType DEF ExecuteSend, Ready, SendHandler, IInv, CallInv
  <2>3. conn \in 0..MaxConnects
    BY DEF IInv, SocketInv
  <2>4. UNCHANGED <<sock, conn, net, confirmed, connOp, reads, jsVars, phase>>
    BY <1>19 DEF ExecuteSend
  <2>5. CallInv'
    BY <2>1, <2>2, <2>3, <2>4 DEF IInv, CallInv
  <2> QED
    BY <2>4, <2>5 DEF IInv, SocketInv
<1>20. ASSUME ExecuteDisconnect
       PROVE  SocketInv' /\ CallInv'
  BY <1>20, Bounds DEF ExecuteDisconnect, CloseSocket, IInv, SocketInv, CallInv
<1>21. ASSUME ServiceEnds
       PROVE  SocketInv' /\ CallInv'
  BY <1>21, Bounds DEF ServiceEnds, IInv, SocketInv, CallInv
<1>22. CASE UNCHANGED vars
  BY <1>22 DEF IInv, SocketInv, CallInv
<1> QED
  BY <1>1, <1>2, <1>3, <1>4, <1>5, <1>6, <1>7, <1>8, <1>9, <1>10, <1>11, <1>12, <1>13,
     <1>14, <1>15, <1>16, <1>17, <1>18, <1>19, <1>20, <1>21, <1>22
     DEF Next, System, ServiceThread, Over

\* Whoever answers a connect() is the only one that would have, and takes the
\* answer out of the queue.
LEMMA NextDueInv == IInv /\ [Next]_vars => DueInv'
<1> SUFFICES ASSUME IInv, [Next]_vars
             PROVE  DueInv'
  OBVIOUS
<1> USE DEF vars, jsVars, sockVars, bufVars
<1>1. ASSUME Connect
      PROVE  DueInv'
  <2>1. /\ connects < MaxConnects /\ connects' = connects + 1
        /\ resolving' = Append(resolving, connects + 1)
        /\ outcome' = [outcome EXCEPT ![connects + 1] = "asked"]
        /\ UNCHANGED <<connOp, conn>>
    BY <1>1 DEF Connect
  <2>2. connects \in Nat /\ connects + 1 \in Connections /\ Len(resolving) \in Nat
    BY <2>1, Bounds DEF IInv, CallInv, DueInv, Connections
  <2>3. /\ resolving' \in Seq(Connections) /\ Len(resolving') = Len(resolving) + 1
        /\ \A i \in 1..Len(resolving) : resolving'[i] = resolving[i]
        /\ resolving'[Len(resolving) + 1] = connects + 1
    BY <2>1, <2>2, AppendProperties DEF IInv, DueInv
  <2>4. Resolved' = Resolved /\ Resolved \in Int
    BY <1>1, ConnectResolves
  <2>5. ASSUME NEW i \in 1..Len(resolving')
        PROVE  resolving'[i] = Resolved' + i
    <3>1. CASE i <= Len(resolving)
      BY <2>2, <2>3, <2>4, <3>1 DEF IInv, DueInv
    <3>2. CASE i = Len(resolving) + 1
      BY <2>2, <2>3, <2>4, <3>2 DEF Resolved
    <3> QED
      BY <2>2, <2>3, <3>1, <3>2
  <2>6. outcome' \in [Connections -> {"none", "asked", "open", "failed"}]
    BY <2>1, <2>2 DEF IInv, DueInv
  <2>7. \A c \in Connections :
           /\ Resolved < c /\ c <= connects + 1 => outcome'[c] = "asked"
           /\ c > connects + 1 => outcome'[c] = "none"
    BY <2>1, <2>2, <2>4 DEF IInv, DueInv, Connections
  <2>8. connOp # 0 => outcome'[connOp] = "asked"
    BY <2>1, <2>2 DEF IInv, DueInv, SocketInv, Connections
  <2> QED
    <3>1. \A c \in Connections :
             /\ Resolved' < c /\ c <= connects' => outcome'[c] = "asked"
             /\ c > connects' => outcome'[c] = "none"
      BY <2>1, <2>4, <2>7
    <3>2. connOp' # 0 => outcome'[connOp'] = "asked"
      BY <2>1, <2>8
    <3>3. Resolved' >= 0 /\ conn' <= Resolved'
      BY <2>1, <2>4 DEF IInv, DueInv
    <3> QED
      BY <2>3, <2>5, <2>6, <3>1, <3>2, <3>3 DEF DueInv
<1>2. ASSUME Disconnect
      PROVE  DueInv'
  BY <1>2 DEF Disconnect, IInv, DueInv, Resolved
<1>3. ASSUME Send
      PROVE  DueInv'
  BY <1>3 DEF Send, IInv, DueInv, Resolved
<1>4. ASSUME Quit
      PROVE  DueInv'
  BY <1>4 DEF Quit, IInv, DueInv, Resolved
<1>5. ASSUME Resolve
      PROVE  DueInv'
  <2>1. /\ resolving # <<>> /\ resolving' = Tail(resolving)
        /\ UNCHANGED <<connects, outcome, connOp, conn>>
    BY <1>5 DEF Resolve
  <2>2. /\ resolving' \in Seq(Connections) /\ Len(resolving) \in Nat \ {0}
        /\ Len(resolving') = Len(resolving) - 1
        /\ \A i \in 1..Len(resolving') : resolving'[i] = resolving[i + 1]
    BY <2>1, HeadAndTail DEF IInv, DueInv
  <2>3. Resolved' = Resolved + 1 /\ Resolved \in Nat /\ connects \in Int
    BY <1>5, ResolveResolves DEF IInv, CallInv
  <2>4. \A i \in 1..Len(resolving') : resolving'[i] = Resolved' + i
    BY <2>2, <2>3 DEF IInv, DueInv
  <2>5. conn <= Resolved'
    BY <2>3, Bounds DEF IInv, DueInv, SocketInv
  <2> QED
    <3>1. \A c \in Connections : Resolved' < c /\ c <= connects' => outcome'[c] = "asked"
      BY <2>1, <2>3 DEF IInv, DueInv, Connections
    <3>2. Resolved' >= 0 /\ conn' <= Resolved'
      BY <2>1, <2>3, <2>5
    <3> QED
      BY <2>1, <2>2, <2>4, <3>1, <3>2 DEF IInv, DueInv
<1>6. ASSUME Establish
      PROVE  DueInv'
  BY <1>6 DEF Establish, IInv, DueInv, Resolved
<1>7. ASSUME ConnectCompletes
      PROVE  DueInv'
  BY <1>7 DEF ConnectCompletes, IInv, DueInv, Resolved
<1>8. ASSUME ReadCompletes
      PROVE  DueInv'
  BY <1>8 DEF ReadCompletes, IInv, DueInv, Resolved
<1>9. ASSUME Arrive
      PROVE  DueInv'
  BY <1>9 DEF Arrive, IInv, DueInv, Resolved
<1>10. ASSUME ServerCloses
       PROVE  DueInv'
  BY <1>10 DEF ServerCloses, IInv, DueInv, Resolved
<1>11. ASSUME ResolveFailed
       PROVE  DueInv'
  <2>1. Owes(Head(queue)) /\ queue # <<>> /\ Answer(Head(queue).con, "failed")
    BY <1>11 DEF ResolveFailed, Ready, Owes
  <2>2. UNCHANGED <<resolving, connects>> /\ connOp' \in {0, connOp} /\ conn' \in {0, conn}
    BY <1>11 DEF ResolveFailed, CloseSocket
  <2> QED
    BY <2>1, <2>2, Answering
<1>12. ASSUME ResolvedClosed
       PROVE  DueInv'
  <2>1. /\ conn' = Head(queue).con /\ connOp' \in {Head(queue).con, connOp}
        /\ UNCHANGED <<resolving, connects, outcome>>
    BY <1>12 DEF ResolvedClosed
  <2>2. Head(queue).con <= Resolved /\ outcome[Head(queue).con] = "asked"
    BY <1>12, HeadType DEF ResolvedClosed, Ready, Owes, DueHandler
  <2>3. Resolved' = Resolved
    BY <2>1 DEF Resolved
  <2>4. (connOp' # 0 => outcome'[connOp'] = "asked") /\ conn' <= Resolved'
    BY <2>1, <2>2, <2>3 DEF IInv, DueInv
  <2> HIDE DEF Resolved
  <2> QED
    BY <2>1, <2>3, <2>4 DEF IInv, DueInv
<1>13. ASSUME ResolvedOpen
       PROVE  DueInv'
  BY <1>13 DEF ResolvedOpen, IInv, DueInv, Resolved
<1>14. ASSUME ConnectFailed
       PROVE  DueInv'
  <2>1. Owes(Head(queue)) /\ queue # <<>> /\ Answer(Head(queue).con, "failed")
    BY <1>14 DEF ConnectFailed, Ready, Owes
  <2>2. UNCHANGED <<resolving, connects>> /\ connOp' \in {0, connOp} /\ conn' \in {0, conn}
    BY <1>14 DEF ConnectFailed, CloseSocket
  <2> QED
    BY <2>1, <2>2, Answering
<1>15. ASSUME Connected
       PROVE  DueInv'
  <2>1. Owes(Head(queue)) /\ queue # <<>> /\ Answer(Head(queue).con, "open")
    BY <1>15 DEF Connected, Ready, Owes
  <2>2. UNCHANGED <<resolving, connects>> /\ connOp' \in {0, connOp} /\ conn' \in {0, conn}
    BY <1>15 DEF Connected, CloseSocket
  <2> QED
    BY <2>1, <2>2, Answering
<1>16. ASSUME OnRead
       PROVE  DueInv'
  BY <1>16 DEF OnRead, IInv, DueInv, Resolved
<1>17. ASSUME ResolvedAgain
       PROVE  DueInv'
  BY <1>17 DEF ResolvedAgain, IInv, DueInv, Resolved
<1>18. ASSUME OnReadError
       PROVE  DueInv'
  BY <1>18 DEF OnReadError, IInv, DueInv, Resolved
<1>19. ASSUME ExecuteSend
       PROVE  DueInv'
  BY <1>19 DEF ExecuteSend, IInv, DueInv, Resolved
<1>20. ASSUME ExecuteDisconnect
       PROVE  DueInv'
  BY <1>20 DEF ExecuteDisconnect, CloseSocket, IInv, DueInv, Resolved
<1>21. ASSUME ServiceEnds
       PROVE  DueInv'
  BY <1>21 DEF ServiceEnds, IInv, DueInv, Resolved
<1>22. CASE UNCHANGED vars
  BY <1>22 DEF IInv, DueInv, Resolved
<1> QED
  BY <1>1, <1>2, <1>3, <1>4, <1>5, <1>6, <1>7, <1>8, <1>9, <1>10, <1>11, <1>12, <1>13,
     <1>14, <1>15, <1>16, <1>17, <1>18, <1>19, <1>20, <1>21, <1>22
     DEF Next, System, ServiceThread, Over

\* What arrives is known, and comes after all that was.
LEMMA ArriveTokens ==
    ASSUME IInv, Arrive, NEW t, t = [con |-> conn, n |-> arrived[conn] + 1]
    PROVE  /\ conn \in Connections /\ Known \subseteq Known' /\ t \in Known'
           /\ \A x \in Known : Before(x, t)
<1>1. /\ net = "up" /\ arrived[conn] < MaxTokens
      /\ arrived' = [arrived EXCEPT ![conn] = @ + 1]
  BY DEF Arrive
<1>2. conn \in Connections
  BY <1>1, Bounds DEF IInv, SocketInv, Connections
<1>3. arrived \in [Connections -> 0..MaxTokens]
  BY DEF IInv, LineInv
<1>5. Known \subseteq Known'
  BY <1>1, <1>2, <1>3, Bounds DEF Known, Tokens
<1>6. t \in Known'
  BY <1>1, <1>2, <1>3, Bounds DEF Known, Tokens
<1>7. ASSUME NEW x \in Known
      PROVE  Before(x, t)
  <2>1. x.con \in Connections /\ x.n \in 1..MaxTokens /\ x.n <= arrived[x.con]
    BY DEF Known, Tokens
  <2>2. arrived[x.con] # 0
    BY <1>3, <2>1, Bounds
  <2>3. x.con <= conn
    BY <1>2, <2>1, <2>2, Bounds DEF IInv, LineInv, Connections
  <2>4. x.con = conn => x.n < arrived[conn] + 1
    BY <1>2, <1>3, <2>1, Bounds
  <2> QED
    BY <1>2, <2>1, <2>3, <2>4, Bounds DEF Before, Connections
<1> QED
  BY <1>2, <1>5, <1>6, <1>7

\* Closing the socket disturbs nothing of what has been read.
LEMMA ClosedLines ==
    ASSUME IInv, unread' = <<>>, conn' = 0,
           UNCHANGED <<connects, resolving, bufVars, arrived>>
    PROVE  LineInv'
<1>1. UNCHANGED <<readBuf, line>>
  BY DEF bufVars
<1>2. Known' = Known /\ Resolved' = Resolved
  BY DEF Known, Resolved
<1>3. unread' \in Seq(Known') /\ Sorted(unread')
  BY EmptyOrder
<1>4. Precedes(line', unread') /\ Precedes(readBuf', unread')
  BY EmptyOrder
<1>5. \A c \in Connections : c > Resolved' => arrived'[c] = 0
  BY <1>2 DEF IInv, LineInv
<1> QED
  BY <1>1, <1>2, <1>3, <1>4, <1>5 DEF IInv, LineInv

\* What arrives is newer than all that has; what is cut off or moved stays in
\* order.
LEMMA NextLineInv == IInv /\ [Next]_vars => LineInv'
<1> SUFFICES ASSUME IInv, [Next]_vars
             PROVE  LineInv'
  OBVIOUS
<1> USE DEF vars, jsVars, sockVars, bufVars
<1>1. ASSUME Connect
      PROVE  LineInv'
  <2>1. Resolved' = Resolved /\ UNCHANGED <<conn, sock, unread, bufVars, arrived>>
    BY <1>1, ConnectResolves DEF Connect
  <2>2. Known' = Known
    BY <2>1 DEF Known
  <2> QED
    BY <2>1, <2>2 DEF IInv, LineInv
<1>2. ASSUME Disconnect
      PROVE  LineInv'
  BY <1>2 DEF Disconnect, IInv, LineInv, Resolved, Known
<1>3. ASSUME Send
      PROVE  LineInv'
  BY <1>3 DEF Send, IInv, LineInv, Resolved, Known
<1>4. ASSUME Quit
      PROVE  LineInv'
  BY <1>4 DEF Quit, IInv, LineInv, Resolved, Known
<1>5. ASSUME Resolve
      PROVE  LineInv'
  <2>1. Resolved' = Resolved + 1 /\ Resolved \in Nat
    BY <1>5, ResolveResolves
  <2>2. UNCHANGED <<conn, sock, unread, bufVars, arrived>>
    BY <1>5 DEF Resolve
  <2>3. Known' = Known
    BY <2>2 DEF Known
  <2>4. \A c \in Connections : c > Resolved' => c > Resolved
    BY <2>1 DEF Connections
  <2> QED
    BY <2>2, <2>3, <2>4 DEF IInv, LineInv
<1>6. ASSUME Establish
      PROVE  LineInv'
  BY <1>6 DEF Establish, IInv, LineInv, Resolved, Known
<1>7. ASSUME ConnectCompletes
      PROVE  LineInv'
  BY <1>7 DEF ConnectCompletes, IInv, LineInv, Resolved, Known
<1>8. ASSUME ReadCompletes
      PROVE  LineInv'
  <2>1. unread' = <<>> /\ UNCHANGED <<connects, resolving, conn, sock, bufVars, arrived>>
    BY <1>8 DEF ReadCompletes
  <2>2. Known' = Known /\ Resolved' = Resolved
    BY <2>1 DEF Known, Resolved
  <2> QED
    BY <2>1, <2>2, EmptyOrder DEF IInv, LineInv
<1>9. ASSUME Arrive
      PROVE  LineInv'
  <2> DEFINE t == [con |-> conn, n |-> arrived[conn] + 1]
  <2>1. /\ net = "up" /\ arrived[conn] < MaxTokens
        /\ arrived' = [arrived EXCEPT ![conn] = @ + 1]
        /\ unread' = Append(unread, t)
        /\ UNCHANGED <<connects, resolving, conn, sock, bufVars>>
    BY <1>9 DEF Arrive
  <2>2. /\ conn \in Connections /\ sock # "closed"
        /\ Known \subseteq Known' /\ t \in Known' /\ \A x \in Known : Before(x, t)
    BY <1>9, <2>1, ArriveTokens DEF IInv, SocketInv
  <2>3. arrived \in [Connections -> 0..MaxTokens]
    BY DEF IInv, LineInv
  <2>4. arrived' \in [Connections -> 0..MaxTokens]
    BY <2>1, <2>2, <2>3, Bounds
  <2> HIDE DEF t
  <2>5. /\ Sorted(unread') /\ Precedes(line, unread') /\ Precedes(readBuf, unread')
    BY <2>1, <2>2, AppendOrder DEF IInv, LineInv
  <2>6. /\ unread \in Seq(Known') /\ line \in Seq(Known') /\ readBuf \in Seq(Known')
    BY <2>2, SeqMonotonic DEF IInv, LineInv
  <2>7. unread' \in Seq(Known')
    BY <2>1, <2>2, <2>6, AppendProperties
  <2>8. ASSUME NEW c \in Connections, c > Resolved' \/ (conn # 0 /\ c > conn)
        PROVE  arrived'[c] = 0
    <3>1. Resolved' = Resolved /\ Resolved \in Int /\ conn <= Resolved /\ conn \in Int
      BY <2>1, <2>2 DEF Resolved, IInv, CallInv, DueInv, Connections
    <3>2. c # conn /\ c \in Int
      BY <2>8, <3>1 DEF Connections
    <3>3. arrived[c] = 0
      BY <2>8, <3>1 DEF IInv, LineInv
    <3> QED
      BY <2>1, <2>3, <3>2, <3>3
  <2> QED
    BY <2>1, <2>2, <2>4, <2>5, <2>6, <2>7, <2>8 DEF IInv, LineInv
<1>10. ASSUME ServerCloses
       PROVE  LineInv'
  BY <1>10 DEF ServerCloses, IInv, LineInv, Resolved, Known
<1>11. ASSUME ResolveFailed
       PROVE  LineInv'
  <2>1. /\ unread' = <<>> /\ conn' = 0
        /\ UNCHANGED <<connects, resolving, bufVars, arrived>>
    BY <1>11 DEF ResolveFailed, CloseSocket
  <2> QED
    BY <2>1, ClosedLines
<1>12. ASSUME ResolvedClosed
       PROVE  LineInv'
  <2>1. /\ conn' = Head(queue).con /\ sock' = "open"
        /\ UNCHANGED <<connects, resolving, unread, bufVars, arrived>>
    BY <1>12 DEF ResolvedClosed
  <2>2. \A c \in Connections : c >= Head(queue).con => arrived[c] = 0
    BY <1>12, HeadType DEF ResolvedClosed, Ready, NewHandler
  <2>3. Known' = Known /\ Resolved' = Resolved
    BY <2>1 DEF Known, Resolved
  <2>4. Head(queue).con \in Connections
    BY <1>12, HeadType DEF ResolvedClosed, Ready, Owes
  <2>5. \A c \in Connections : c > conn' => arrived[c] = 0
    BY <2>1, <2>2, <2>4 DEF Connections
  <2> QED
    BY <2>1, <2>3, <2>5 DEF IInv, LineInv
<1>13. ASSUME ResolvedOpen
       PROVE  LineInv'
  BY <1>13 DEF ResolvedOpen, IInv, LineInv, Resolved, Known
<1>14. ASSUME ConnectFailed
       PROVE  LineInv'
  <2>1. /\ unread' = <<>> /\ conn' = 0
        /\ UNCHANGED <<connects, resolving, bufVars, arrived>>
    BY <1>14 DEF ConnectFailed, CloseSocket
  <2> QED
    BY <2>1, ClosedLines
<1>15. ASSUME Connected
       PROVE  LineInv'
  BY <1>15 DEF Connected, IInv, LineInv, Resolved, Known
<1>16. ASSUME OnRead
       PROVE  LineInv'
  <2>1. UNCHANGED <<connects, resolving, conn, sock, unread, arrived>>
    BY <1>16 DEF OnRead
  <2>2. Known' = Known /\ Resolved' = Resolved
    BY <2>1 DEF Known, Resolved
  <2>3. Precedes(Head(queue).data, unread)
    BY <1>16, HeadType DEF OnRead, Ready, ReadHandler
  <2>4. Precedes(line, unread) /\ Precedes(readBuf, unread)
    BY DEF IInv, LineInv
  <2>5. Precedes(line', unread) /\ Precedes(readBuf', unread)
    BY <1>16, <2>3, <2>4, OnReadLines
  <2>6. /\ line' \in Seq(Known) /\ readBuf' \in Seq(Known)
        /\ Sorted(line') /\ Sorted(readBuf') /\ Precedes(line', readBuf')
    BY <1>16, OnReadLines
  <2> QED
    BY <2>1, <2>2, <2>5, <2>6 DEF IInv, LineInv
<1>17. ASSUME ResolvedAgain
       PROVE  LineInv'
  BY <1>17 DEF ResolvedAgain, IInv, LineInv, Resolved, Known
<1>18. ASSUME OnReadError
       PROVE  LineInv'
  BY <1>18 DEF OnReadError, IInv, LineInv, Resolved, Known
<1>19. ASSUME ExecuteSend
       PROVE  LineInv'
  BY <1>19 DEF ExecuteSend, IInv, LineInv, Resolved, Known
<1>20. ASSUME ExecuteDisconnect
       PROVE  LineInv'
  <2>1. UNCHANGED <<connects, resolving, bufVars, arrived>>
    BY <1>20 DEF ExecuteDisconnect
  <2>2. CASE sock = "open"
    <3>1. unread' = <<>> /\ conn' = 0
      BY <1>20, <2>2 DEF ExecuteDisconnect, CloseSocket
    <3> QED
      BY <2>1, <3>1, ClosedLines
  <2>3. CASE sock # "open"
    BY <1>20, <2>1, <2>3 DEF ExecuteDisconnect, IInv, LineInv, Resolved, Known
  <2> QED
    BY <2>2, <2>3
<1>21. ASSUME ServiceEnds
       PROVE  LineInv'
  BY <1>21 DEF ServiceEnds, IInv, LineInv, Resolved, Known
<1>22. CASE UNCHANGED vars
  BY <1>22 DEF IInv, LineInv, Resolved, Known
<1> QED
  BY <1>1, <1>2, <1>3, <1>4, <1>5, <1>6, <1>7, <1>8, <1>9, <1>10, <1>11, <1>12, <1>13,
     <1>14, <1>15, <1>16, <1>17, <1>18, <1>19, <1>20, <1>21, <1>22
     DEF Next, System, ServiceThread, Over
-----------------------------------------------------------------------------
(* The queue.                                                              *)

\* The kinds of handlers.
LEMMA HandlerTypes ==
    ASSUME NEW h \in Handlers
    PROVE  /\ Owes(h) => h.con \in Connections /\ h.ok \in BOOLEAN
           /\ h.op = "read" => h.ok \in BOOLEAN /\ h.data \in Seq(Tokens)
           /\ h.op = "send" => h.msg \in 1..MaxSends
  BY DEF Handlers, Owes

\* A failed read and an empty one are expected whatever the state, and stand
\* in no order to other handlers; so does a disconnect().
LEMMA Harmless ==
    ASSUME NEW h \in {ReadNothing, ReadFailed, [op |-> "disconnect"]}
    PROVE  /\ h \in Expected /\ h \in Expected'
           /\ \A g, ask : Pair(g, h, ask) /\ Pair(h, g, ask)
<1>1. h \in Handlers
  BY MadeHandlers
<1>2. ~ Owes(h) /\ h.op # "resolved" /\ h.op # "send"
  BY DEF ReadNothing, ReadFailed, Owes
<1>3. h.op = "read" => h.data = <<>>
  BY DEF ReadNothing, ReadFailed
<1>4. h.op = "read" => /\ \A s : Precedes(s, h.data) /\ Precedes(h.data, s)
                       /\ Sorted(h.data)
  BY <1>3, EmptyOrder
<1>5. h.op = "read" => h.data \in Seq(Known) /\ h.data \in Seq(Known')
  <2>1. <<>> \in Seq(Known) /\ <<>> \in Seq(Known')
    OBVIOUS
  <2> QED
    BY <1>3, <2>1
<1>6. ReadHandler(h) /\ ReadHandler(h)'
  BY <1>4, <1>5 DEF ReadHandler
<1>7. h \in Expected /\ h \in Expected'
  BY <1>1, <1>2, <1>6 DEF Expected, DueHandler, NewHandler, SendHandler
<1>8. ASSUME NEW g, NEW ask
      PROVE  Pair(g, h, ask) /\ Pair(h, g, ask)
  BY <1>2, <1>4 DEF Pair
<1> QED
  BY <1>7, <1>8

\* A queue of handlers that are still expected may be added to.
LEMMA QueueAppend ==
    ASSUME NEW E, NEW T, T \subseteq E, NEW q \in Seq(T), NEW ask, InOrder(q, ask),
           NEW h \in E, \A g \in T : Pair(g, h, ask)
    PROVE  Append(q, h) \in Seq(E) /\ InOrder(Append(q, h), ask)
<1>1. q \in Seq(E)
  BY SeqMonotonic
<1>2. Append(q, h) \in Seq(E)
  BY <1>1, AppendProperties
<1> QED
  BY <1>2, AppendInOrder

\* What is expected stays so while nothing changes that it depends on.
LEMMA StillExpected ==
    ASSUME UNCHANGED <<connects, resolving, connOp, outcome, conn, arrived, written,
                       sends, asked, line, readBuf, unread>>
    PROVE  Expected' = Expected
<1>1. Known' = Known /\ Resolved' = Resolved
  BY DEF Known, Resolved
<1>2. \A h : /\ DueHandler(h)' <=> DueHandler(h)
             /\ NewHandler(h)' <=> NewHandler(h)
             /\ SendHandler(h)' <=> SendHandler(h)
             /\ ReadHandler(h)' <=> ReadHandler(h)
  BY <1>1 DEF DueHandler, NewHandler, SendHandler, ReadHandler
<1> QED
  BY <1>2 DEF Expected

\* A queue without its head, when all else is as it was.
LEMMA HeadTaken ==
    ASSUME IInv, queue # <<>>, queue' = Tail(queue), asked' = asked,
           \A h \in Expected : Pair(Head(queue), h, asked) => h \in Expected'
    PROVE  QueueInv'
<1> DEFINE T == {g \in Expected : Pair(Head(queue), g, asked)}
<1>1. Tail(queue) \in Seq(T) /\ InOrder(Tail(queue), asked)
  BY HeadExpected
<1>2. T \subseteq Expected'
  OBVIOUS
<1> HIDE DEF T
<1>3. Tail(queue) \in Seq(Expected')
  BY <1>1, <1>2, SeqMonotonic
<1> QED
  BY <1>1, <1>3 DEF QueueInv

\* ... and with another handler in its stead.
LEMMA HeadReplaced ==
    ASSUME IInv, queue # <<>>, NEW g, queue' = Append(Tail(queue), g), asked' = asked,
           \A h \in Expected : Pair(Head(queue), h, asked) => h \in Expected',
           g \in Expected',
           \A h \in Expected : Pair(Head(queue), h, asked) => Pair(h, g, asked)
    PROVE  QueueInv'
<1> DEFINE T == {h \in Expected : Pair(Head(queue), h, asked)}
<1>1. Tail(queue) \in Seq(T) /\ InOrder(Tail(queue), asked)
  BY HeadExpected
<1>2. T \subseteq Expected' /\ \A h \in T : Pair(h, g, asked)
  OBVIOUS
<1> HIDE DEF T
<1>3. Append(Tail(queue), g) \in Seq(Expected') /\ InOrder(Append(Tail(queue), g), asked)
  BY <1>1, <1>2, QueueAppend
<1> QED
  BY <1>3 DEF QueueInv

\* ... and with the read that it starts.
LEMMA HeadReads ==
    ASSUME IInv, queue # <<>>, NEW buf, StartRead(buf, Tail(queue)), asked' = asked,
           \A h \in Expected : Pair(Head(queue), h, asked) => h \in Expected'
    PROVE  QueueInv'
<1>1. queue' \in {Tail(queue), Append(Tail(queue), ReadNothing),
                  Append(Tail(queue), ReadFailed)}
  BY DEF StartRead, ReadNothing, ReadFailed
<1>2. CASE queue' = Tail(queue)
  BY <1>2, HeadTaken
<1>3. ASSUME NEW g \in {ReadNothing, ReadFailed}, queue' = Append(Tail(queue), g)
      PROVE  QueueInv'
  <2>1. g \in Expected' /\ \A h \in Expected : Pair(h, g, asked)
    BY Harmless
  <2> QED
    BY <1>3, <2>1, HeadReplaced
<1> QED
  BY <1>1, <1>2, <1>3

\* What close() makes ready is in order.
LEMMA AbortedInOrder ==
    ASSUME reads \in Nat, NEW ask
    PROVE  InOrder(Aborted, ask)
<1> DEFINE failed == [i \in 1..reads |-> ReadFailed]
<1>1. failed \in Seq({ReadFailed}) /\ Len(failed) = reads
  BY SeqDef
<1>2. \A i \in 1..reads : failed[i] = ReadFailed
  OBVIOUS
<1> HIDE DEF failed
<1>3. InOrder(failed, ask)
  BY <1>1, <1>2, Harmless DEF InOrder
<1>4. CASE connOp = 0
  <2>1. Aborted = failed \o <<>>
    BY <1>4 DEF Aborted, ReadFailed, failed
  <2> QED
    BY <1>1, <1>3, <2>1, ConcatEmptySeq
<1>5. CASE connOp # 0
  <2>1. Aborted = failed \o <<Refused(connOp)>>
    BY <1>5 DEF Aborted, ReadFailed, Refused, failed
  <2>2. /\ <<Refused(connOp)>> \in Seq({Refused(connOp)})
        /\ InOrder(<<Refused(connOp)>>, ask)
    BY DEF InOrder
  <2>3. \A g \in {ReadFailed}, h \in {Refused(connOp)} : Pair(g, h, ask)
    BY Harmless
  <2> DEFINE one == <<Refused(connOp)>>
             S   == {ReadFailed}
             T   == {Refused(connOp)}
  <2>4. failed \in Seq(S) /\ one \in Seq(T) /\ InOrder(failed, ask) /\ InOrder(one, ask)
    BY <1>1, <1>3, <2>2
  <2>5. \A g \in S, h \in T : Pair(g, h, ask)
    BY <2>3
  <2> HIDE DEF one, S, T
  <2>6. InOrder(failed \o one, ask)
    BY <2>4, <2>5, ConcatInOrder
  <2> QED
    BY <2>1, <2>6 DEF one
<1> QED
  BY <1>4, <1>5

\* The socket is closed by a handler that answers at most its own connect():
\* the one that is aborted is due its answer still.
LEMMA Closing ==
    ASSUME IInv, queue # <<>>, CloseSocket,
           \A c \in Connections :
               outcome[c] = "asked" /\ ~ (Owes(Head(queue)) /\ Head(queue).con = c)
                   => outcome'[c] = "asked",
           UNCHANGED <<resolving, connects, sends, asked, written, line, readBuf, arrived>>
    PROVE  QueueInv'
<1> DEFINE T == {g \in Expected : Pair(Head(queue), g, asked)}
<1>1. /\ queue' = Tail(queue) \o Aborted
      /\ conn' = 0 /\ connOp' = 0 /\ unread' = <<>>
  BY DEF CloseSocket
<1>2. Known' = Known /\ Resolved' = Resolved
  BY DEF Known, Resolved
<1>3. Tail(queue) \in Seq(T) /\ InOrder(Tail(queue), asked)
  BY HeadExpected
<1>4. ASSUME NEW h \in T
      PROVE  h \in Expected'
  <2>1. /\ h \in Handlers /\ DueHandler(h) /\ NewHandler(h) /\ SendHandler(h)
        /\ ReadHandler(h) /\ Pair(Head(queue), h, asked)
    BY DEF Expected
  <2>2. DueHandler(h)'
    <3>1. Owes(h) => h.con \in Connections /\ h.con # 0
      BY <2>1, HandlerTypes DEF Connections
    <3> QED
      BY <1>1, <1>2, <2>1, <3>1 DEF DueHandler, Pair
  <2>3. NewHandler(h)'
    <3>1. h.op = "resolved" => h.con > 0
      BY <2>1, HandlerTypes, Bounds DEF Owes, Connections
    <3> QED
      BY <1>1, <2>1, <3>1 DEF NewHandler
  <2>4. SendHandler(h)'
    <3>1. h.op = "send" => asked[h.msg] >= 0
      BY <2>1, HandlerTypes, Bounds DEF IInv, CallInv
    <3> QED
      BY <1>1, <2>1, <3>1 DEF SendHandler
  <2>5. ReadHandler(h)'
    BY <1>1, <1>2, <2>1, EmptyOrder DEF ReadHandler
  <2> QED
    BY <2>1, <2>2, <2>3, <2>4, <2>5 DEF Expected
<1>5. connOp # 0 => /\ connOp \in Connections /\ connOp <= Resolved
                    /\ outcome[connOp] = "asked"
  BY Bounds DEF IInv, SocketInv, DueInv, Connections
<1>6. ASSUME NEW c, c = connOp, c # 0
      PROVE  Refused(c) \in Expected'
  <2>1. Refused(c) \in Handlers
    BY <1>5, <1>6, MadeHandlers
  <2>2. ~ (Owes(Head(queue)) /\ Head(queue).con = c)
    BY <1>6, HeadType DEF DueHandler
  <2>3. outcome'[c] = "asked"
    BY <1>5, <1>6, <2>2
  <2>4. Refused(c).con = c /\ Refused(c).op = "connected"
    BY DEF Refused
  <2>5. DueHandler(Refused(c))'
    BY <1>1, <1>2, <1>5, <1>6, <2>3, <2>4 DEF DueHandler
  <2> QED
    BY <2>1, <2>4, <2>5 DEF Expected, NewHandler, SendHandler, ReadHandler
<1>7. \A g \in T : connOp # 0 => Pair(g, Refused(connOp), asked)
  BY DEF Expected, DueHandler, Pair, Refused
<1> DEFINE A == {ReadFailed} \cup (IF connOp = 0 THEN {} ELSE {Refused(connOp)})
<1>8. Aborted \in Seq(A)
  <2>1. ReadFailed \in A /\ (connOp # 0 => Refused(connOp) \in A) /\ reads \in Nat
    BY DEF IInv, SocketInv
  <2> HIDE DEF A
  <2> QED
    BY <2>1, AbortedIn
<1>9. A \subseteq Expected'
  BY <1>6, Harmless
<1>10. \A g \in T, h \in A : Pair(g, h, asked)
  BY <1>7, Harmless
<1>11. InOrder(Aborted, asked)
  BY AbortedInOrder DEF IInv, SocketInv
<1>12. T \subseteq Expected'
  BY <1>4
<1> HIDE DEF T, A
<1>13. InOrder(Tail(queue) \o Aborted, asked)
  BY <1>3, <1>8, <1>10, <1>11, ConcatInOrder
<1>14. Tail(queue) \in Seq(Expected') /\ Aborted \in Seq(Expected')
  BY <1>3, <1>8, <1>9, <1>12, SeqMonotonic
<1>15. Tail(queue) \o Aborted \in Seq(Expected')
  BY <1>14, ConcatProperties
<1> QED
  BY <1>1, <1>13, <1>15 DEF QueueInv

\* The handler at the head has answered its connect(): the others still owe
\* theirs.
LEMMA AnsweredHead ==
    ASSUME IInv, queue # <<>>, Owes(Head(queue)), NEW result \in {"open", "failed"},
           Answer(Head(queue).con, result), NEW c \in Connections, outcome[c] = "asked",
           c # Head(queue).con
    PROVE  outcome'[c] = "asked"
  BY HeadType DEF Answer, IInv, DueInv

\* A refusal may take the place of the answer of the resolver.
LEMMA RefusedExpected ==
    ASSUME IInv, queue # <<>>, Owes(Head(queue)), NEW c, c = Head(queue).con
    PROVE  Refused(c) \in Expected
<1>1. c \in Connections /\ DueHandler(Head(queue))
  BY HeadType
<1>2. DueHandler(Refused(c))
  BY <1>1 DEF DueHandler, Refused
<1> QED
  BY <1>1, <1>2, MadeHandlers DEF Expected, NewHandler, SendHandler, ReadHandler, Refused

\* What is added to the queue may follow what is in it, and what is left in it
\* when a handler has been executed is still expected.
LEMMA NextQueueInv == IInv /\ [Next]_vars => QueueInv'
<1> SUFFICES ASSUME IInv, [Next]_vars
             PROVE  QueueInv'
  OBVIOUS
<1> USE DEF vars, jsVars, sockVars, bufVars
<1>1. ASSUME Connect
      PROVE  QueueInv'
  <2>1. /\ Resolved' = Resolved /\ connects < MaxConnects
        /\ outcome' = [outcome EXCEPT ![connects + 1] = "asked"]
        /\ UNCHANGED <<queue, connOp, conn, arrived, written, sends, asked, bufVars, unread>>
    BY <1>1, ConnectResolves DEF Connect
  <2>2. Known' = Known
    BY <2>1 DEF Known
  <2>3. \A c \in Connections : outcome[c] = "asked" => outcome'[c] = "asked"
    BY <2>1 DEF IInv, DueInv
  <2>4. ASSUME NEW h \in Expected
        PROVE  h \in Expected'
    <3>1. h \in Handlers /\ DueHandler(h) /\ NewHandler(h) /\ SendHandler(h) /\ ReadHandler(h)
      BY DEF Expected
    <3>2. DueHandler(h)'
      BY <2>1, <2>3, <3>1, HandlerTypes DEF DueHandler
    <3> QED
      BY <2>1, <2>2, <3>1, <3>2 DEF Expected, NewHandler, SendHandler, ReadHandler
  <2>5. Expected \subseteq Expected'
    BY <2>4
  <2>6. queue \in Seq(Expected')
    BY <2>5, SeqMonotonic DEF IInv, QueueInv
  <2> QED
    BY <2>1, <2>6 DEF IInv, QueueInv
<1>2. ASSUME Disconnect
      PROVE  QueueInv'
  <2>1. /\ queue' = Append(queue, [op |-> "disconnect"])
        /\ asked' = asked /\ Expected' = Expected
    BY <1>2, StillExpected DEF Disconnect
  <2>2. /\ [op |-> "disconnect"] \in Expected
        /\ \A g \in Expected : Pair(g, [op |-> "disconnect"], asked)
    BY Harmless
  <2> QED
    BY <2>1, <2>2, QueueAppend DEF IInv, QueueInv
<1>3. ASSUME Send
      PROVE  QueueInv'
  <2> DEFINE m == [op |-> "send", msg |-> sends + 1]
  <2>1. /\ sends < MaxSends /\ sends' = sends + 1
        /\ asked' = [asked EXCEPT ![sends + 1] = connects]
        /\ queue' = Append(queue, m)
        /\ UNCHANGED <<connects, resolving, connOp, outcome, conn, arrived, written, bufVars,
                       unread>>
    BY <1>3 DEF Send
  <2>2. sends \in Nat /\ sends + 1 \in 1..MaxSends
    BY <2>1, Bounds DEF IInv, CallInv
  <2>3. Known' = Known /\ Resolved' = Resolved
    BY <2>1 DEF Known, Resolved
  <2>4. Resolved <= connects
    BY LenProperties DEF Resolved, IInv, DueInv, CallInv
  <2>5. \A k \in 1..sends : asked'[k] = asked[k]
    BY <2>1, <2>2 DEF IInv, CallInv
  <2>6. ASSUME NEW h \in Expected
        PROVE  h \in Expected' /\ (h.op = "send" => h.msg \in 1..sends) /\ Pair(h, m, asked')
    <3>1. h \in Handlers /\ DueHandler(h) /\ NewHandler(h) /\ SendHandler(h) /\ ReadHandler(h)
      BY DEF Expected
    <3>2. h.op = "send" => h.msg \in 1..sends /\ h.msg <= sends'
      BY <2>1, <2>2, <3>1, HandlerTypes, Bounds DEF SendHandler
    <3>3. SendHandler(h)'
      BY <2>1, <2>5, <3>1, <3>2 DEF SendHandler
    <3>4. h \in Expected'
      BY <2>1, <2>3, <3>1, <3>3 DEF Expected, DueHandler, NewHandler, ReadHandler
    <3>5. h.op = "resolved" => h.con <= connects /\ h.con \in Int
      BY <2>4, <3>1, HandlerTypes DEF DueHandler, Owes, Connections, Resolved, IInv, CallInv,
                                      DueInv
    <3>6. asked'[sends + 1] = connects
      BY <2>1, <2>2 DEF IInv, CallInv
    <3>7. Pair(h, m, asked')
      BY <2>2, <3>2, <3>5, <3>6 DEF Pair, Owes
    <3> QED
      BY <3>2, <3>4, <3>7
  <2>7. m \in Expected'
    <3>1. m \in Handlers
      BY <2>2, MadeHandlers
    <3>2. asked'[sends + 1] = connects /\ conn <= connects
      BY <2>1, <2>2, <2>4 DEF IInv, CallInv, DueInv, SocketInv, Resolved
    <3>3. written.msg < sends + 1
      BY <2>2 DEF IInv, CallInv
    <3>4. written'.msg < sends + 1 /\ sends + 1 <= sends' /\ conn' <= asked'[sends + 1]
      BY <2>1, <2>2, <3>2, <3>3
    <3> QED
      <4>1. PICK k : k = sends + 1
        OBVIOUS
      <4>2. [op |-> "send", msg |-> k] \in Expected'
        <5>1. /\ SendHandler([op |-> "send", msg |-> k])'
              /\ [op |-> "send", msg |-> k] \in Handlers
          BY <3>1, <3>4, <4>1 DEF SendHandler
        <5> QED
          BY <5>1 DEF Expected, DueHandler, NewHandler, ReadHandler, Owes
      <4> QED
        BY <4>1, <4>2
  <2> HIDE DEF m
  <2>8. ASSUME NEW i \in 1..Len(queue), NEW j \in 1..Len(queue), i < j
        PROVE  Pair(queue[i], queue[j], asked')
    <3>1. queue[i] \in Expected /\ queue[j] \in Expected /\ Pair(queue[i], queue[j], asked)
      BY <2>8, ElementOfSeq DEF IInv, QueueInv, InOrder
    <3>2. queue[j].op = "send" => asked'[queue[j].msg] = asked[queue[j].msg]
      BY <2>5, <2>6, <3>1
    <3> QED
      BY <3>1, <3>2 DEF Pair
  <2>9. InOrder(queue, asked')
    BY <2>8 DEF InOrder
  <2>10. queue \in Seq(Expected) /\ Expected \subseteq Expected'
    BY <2>6 DEF IInv, QueueInv
  <2>11. Append(queue, m) \in Seq(Expected') /\ InOrder(Append(queue, m), asked')
    BY <2>6, <2>7, <2>9, <2>10, QueueAppend
  <2> QED
    BY <2>1, <2>11 DEF QueueInv
<1>4. ASSUME Quit
      PROVE  QueueInv'
  <2>1. /\ queue' = Append(queue, [op |-> "disconnect"])
        /\ asked' = asked /\ Expected' = Expected
    BY <1>4, StillExpected DEF Quit
  <2>2. /\ [op |-> "disconnect"] \in Expected
        /\ \A g \in Expected : Pair(g, [op |-> "disconnect"], asked)
    BY Harmless
  <2> QED
    BY <2>1, <2>2, QueueAppend DEF IInv, QueueInv
<1>5. ASSUME Resolve
      PROVE  QueueInv'
  <2>1. PICK o \in BOOLEAN :
           queue' = Append(queue, [op |-> "resolved", con |-> Head(resolving), ok |-> o])
    BY <1>5 DEF Resolve
  <2>2. /\ resolving # <<>>
        /\ UNCHANGED <<connects, connOp, outcome, conn, arrived, written, sends, asked, bufVars,
                       unread>>
    BY <1>5 DEF Resolve
  <2>3. Resolved' = Resolved + 1 /\ Resolved \in Nat
    BY <1>5, ResolveResolves
  <2>4. PICK c : c = Head(resolving)
    OBVIOUS
  <2>5. c \in Connections /\ c = Resolved + 1
    <3>1. /\ c \in Connections /\ c = resolving[1] /\ Len(resolving) \in Nat \ {0}
      BY <2>2, <2>4, HeadAndTail DEF IInv, DueInv
    <3>2. 1 \in 1..Len(resolving)
      BY <3>1
    <3> QED
      BY <3>1, <3>2 DEF IInv, DueInv
  <2>6. outcome[c] = "asked" /\ connOp # c /\ conn < c
    <3>1. Resolved < c /\ c <= connects
      <4>1. Len(resolving) \in Nat \ {0}
        BY <2>2, HeadAndTail DEF IInv, DueInv
      <4> QED
        BY <2>3, <2>5, <4>1 DEF Resolved, IInv, CallInv
    <3>2. conn < c /\ conn \in Int
      BY <2>3, <2>5 DEF IInv, DueInv, SocketInv
    <3> QED
      BY <2>3, <2>5, <3>1, <3>2 DEF IInv, DueInv, SocketInv
  <2>7. \A d \in Connections : d >= c => arrived[d] = 0
    BY <2>3, <2>5 DEF IInv, LineInv, Connections
  <2> DEFINE new == [op |-> "resolved", con |-> c, ok |-> o]
  <2>8. new \in Expected'
    <3>1. new \in Handlers
      BY <2>5, MadeHandlers
    <3>2. DueHandler(new)'
      BY <2>2, <2>3, <2>5, <2>6 DEF DueHandler
    <3>3. NewHandler(new)'
      BY <2>2, <2>6, <2>7 DEF NewHandler
    <3> QED
      BY <3>1, <3>2, <3>3 DEF Expected, SendHandler, ReadHandler
  <2>9. Known' = Known
    BY <2>2 DEF Known
  <2>10. ASSUME NEW h \in Expected
         PROVE  h \in Expected' /\ Pair(h, new, asked)
    <3>1. h \in Handlers /\ DueHandler(h) /\ NewHandler(h) /\ SendHandler(h) /\ ReadHandler(h)
      BY DEF Expected
    <3>2. Owes(h) => h.con \in Int
      BY <3>1, HandlerTypes DEF Connections
    <3>3. DueHandler(h)'
      BY <2>2, <2>3, <3>1, <3>2 DEF DueHandler
    <3>4. Owes(h) => h.con < c
      BY <2>3, <2>5, <3>1, <3>2 DEF DueHandler
    <3>5. Pair(h, new, asked)
      BY <2>5, <3>2, <3>4 DEF Pair, Owes, Connections
    <3> QED
      BY <2>2, <2>9, <3>1, <3>3, <3>5 DEF Expected, NewHandler, SendHandler, ReadHandler
  <2> HIDE DEF new
  <2>11. Append(queue, new) \in Seq(Expected') /\ InOrder(Append(queue, new), asked)
    <3>1. queue \in Seq(Expected) /\ InOrder(queue, asked) /\ Expected \subseteq Expected'
      BY <2>10 DEF IInv, QueueInv
    <3> QED
      BY <2>8, <2>10, <3>1, QueueAppend
  <2> QED
    BY <2>1, <2>2, <2>4, <2>11 DEF QueueInv, new
<1>6. ASSUME Establish
      PROVE  QueueInv'
  <2>1. UNCHANGED <<queue, asked>> /\ Expected' = Expected
    BY <1>6, StillExpected DEF Establish
  <2> QED
    BY <2>1 DEF IInv, QueueInv
<1>7. ASSUME ConnectCompletes
      PROVE  QueueInv'
  <2>1. PICK c, o : c = connOp /\ o = (net # "error")
    OBVIOUS
  <2> DEFINE new == [op |-> "connected", con |-> c, ok |-> o]
  <2>2. /\ connOp # 0 /\ connOp' = 0 /\ queue' = Append(queue, new)
        /\ UNCHANGED <<connects, resolving, outcome, conn, arrived, written, sends, asked,
                       bufVars, unread>>
    BY <1>7, <2>1 DEF ConnectCompletes
  <2>3. Known' = Known /\ Resolved' = Resolved
    BY <2>2 DEF Known, Resolved
  <2>4. c \in Connections /\ c <= Resolved /\ outcome[c] = "asked" /\ o \in BOOLEAN
    BY <2>1, <2>2, Bounds DEF IInv, SocketInv, DueInv, Connections
  <2>5. new \in Expected'
    <3>1. new \in Handlers
      BY <2>4, MadeHandlers
    <3>2. DueHandler(new)'
      BY <2>1, <2>2, <2>3, <2>4 DEF DueHandler
    <3> QED
      BY <3>1, <3>2 DEF Expected, NewHandler, SendHandler, ReadHandler
  <2>6. ASSUME NEW h \in Expected
        PROVE  h \in Expected' /\ Pair(h, new, asked)
    <3>1. h \in Handlers /\ DueHandler(h) /\ NewHandler(h) /\ SendHandler(h) /\ ReadHandler(h)
      BY DEF Expected
    <3>2. Owes(h) => h.con # 0
      BY <3>1, HandlerTypes DEF Connections
    <3>3. DueHandler(h)'
      BY <2>2, <2>3, <3>1, <3>2 DEF DueHandler
    <3>4. Pair(h, new, asked)
      BY <2>1, <3>1 DEF Pair, DueHandler
    <3> QED
      BY <2>2, <2>3, <3>1, <3>3, <3>4 DEF Expected, NewHandler, SendHandler, ReadHandler
  <2> HIDE DEF new
  <2>7. queue \in Seq(Expected) /\ InOrder(queue, asked) /\ Expected \subseteq Expected'
    BY <2>6 DEF IInv, QueueInv
  <2>8. Append(queue, new) \in Seq(Expected') /\ InOrder(Append(queue, new), asked)
    BY <2>5, <2>6, <2>7, QueueAppend
  <2> QED
    BY <2>2, <2>8 DEF QueueInv
<1>8. ASSUME ReadCompletes
      PROVE  QueueInv'
  <2>1. PICK d, o : d = unread /\ o = (unread # <<>>)
    OBVIOUS
  <2> DEFINE new == [op |-> "read", ok |-> o, data |-> d]
  <2>2. /\ unread' = <<>> /\ queue' = Append(queue, new)
        /\ UNCHANGED <<connects, resolving, connOp, outcome, conn, arrived, written, sends,
                       asked, bufVars>>
    BY <1>8, <2>1 DEF ReadCompletes
  <2>3. Known' = Known /\ Resolved' = Resolved
    BY <2>2 DEF Known, Resolved
  <2>4. /\ d \in Seq(Known) /\ Sorted(d) /\ o \in BOOLEAN
        /\ Precedes(line, d) /\ Precedes(readBuf, d)
    BY <2>1 DEF IInv, LineInv
  <2>5. new \in Expected'
    <3>1. Known \subseteq Tokens
      BY DEF Known
    <3>2. new \in Handlers
      BY <2>4, <3>1, SeqMonotonic, MadeHandlers
    <3>3. Precedes(d, unread')
      BY <2>2, EmptyOrder
    <3>4. ReadHandler(new)'
      BY <2>2, <2>3, <2>4, <3>3 DEF ReadHandler
    <3> QED
      BY <3>2, <3>4 DEF Expected, DueHandler, NewHandler, SendHandler, Owes
  <2>6. ASSUME NEW h \in Expected
        PROVE  h \in Expected' /\ Pair(h, new, asked)
    <3>1. h \in Handlers /\ DueHandler(h) /\ NewHandler(h) /\ SendHandler(h) /\ ReadHandler(h)
      BY DEF Expected
    <3>2. ReadHandler(h)'
      BY <2>2, <2>3, <3>1, EmptyOrder DEF ReadHandler
    <3>3. Pair(h, new, asked)
      BY <2>1, <3>1 DEF Pair, ReadHandler, Owes
    <3> QED
      BY <2>2, <2>3, <3>1, <3>2, <3>3 DEF Expected, DueHandler, NewHandler, SendHandler
  <2> HIDE DEF new
  <2>7. queue \in Seq(Expected) /\ InOrder(queue, asked) /\ Expected \subseteq Expected'
    BY <2>6 DEF IInv, QueueInv
  <2>8. Append(queue, new) \in Seq(Expected') /\ InOrder(Append(queue, new), asked)
    BY <2>5, <2>6, <2>7, QueueAppend
  <2> QED
    BY <2>2, <2>8 DEF QueueInv
<1>9. ASSUME Arrive
      PROVE  QueueInv'
  <2> DEFINE t == [con |-> conn, n |-> arrived[conn] + 1]
  <2>1. /\ arrived' = [arrived EXCEPT ![conn] = @ + 1] /\ unread' = Append(unread, t)
        /\ UNCHANGED <<connects, resolving, queue, connOp, outcome, conn, written, sends, asked,
                       bufVars>>
    BY <1>9 DEF Arrive
  <2>2. /\ conn \in Connections /\ Known \subseteq Known' /\ \A x \in Known : Before(x, t)
    BY <1>9, ArriveTokens
  <2> HIDE DEF t
  <2>3. Resolved' = Resolved
    BY <2>1 DEF Resolved
  <2>4. ASSUME NEW h \in Expected
        PROVE  h \in Expected'
    <3>1. h \in Handlers /\ DueHandler(h) /\ NewHandler(h) /\ SendHandler(h) /\ ReadHandler(h)
      BY DEF Expected
    <3>2. DueHandler(h)' /\ SendHandler(h)'
      BY <2>1, <2>3, <3>1 DEF DueHandler, SendHandler
    <3>3. NewHandler(h)'
      <4>1. arrived \in [Connections -> 0..MaxTokens]
        BY DEF IInv, LineInv
      <4>2. \A c \in Connections : c > conn => arrived'[c] = arrived[c]
        BY <2>1, <2>2, <4>1 DEF Connections
      <4>3. h.op = "resolved" => h.con \in Connections
        BY <3>1, HandlerTypes DEF Owes
      <4> QED
        BY <2>1, <2>2, <3>1, <4>2, <4>3 DEF NewHandler, Connections
    <3>4. ReadHandler(h)'
      <4> SUFFICES ASSUME h.op = "read"
                   PROVE  ReadHandler(h)'
        BY DEF ReadHandler
      <4>1. /\ h.data \in Seq(Known) /\ Sorted(h.data) /\ Precedes(line, h.data)
            /\ Precedes(readBuf, h.data) /\ Precedes(h.data, unread)
        BY <3>1 DEF ReadHandler
      <4>2. Precedes(h.data, unread')
        BY <2>1, <2>2, <4>1, AppendOrder DEF IInv, LineInv
      <4>3. h.data \in Seq(Known')
        BY <2>2, <4>1, SeqMonotonic
      <4> QED
        BY <2>1, <4>1, <4>2, <4>3 DEF ReadHandler
    <3> QED
      BY <3>1, <3>2, <3>3, <3>4 DEF Expected
  <2>5. Expected \subseteq Expected'
    BY <2>4
  <2>6. queue \in Seq(Expected')
    BY <2>5, SeqMonotonic DEF IInv, QueueInv
  <2> QED
    BY <2>1, <2>6 DEF IInv, QueueInv
<1>10. ASSUME ServerCloses
       PROVE  QueueInv'
  <2>1. UNCHANGED <<queue, asked>> /\ Expected' = Expected
    BY <1>10, StillExpected DEF ServerCloses
  <2> QED
    BY <2>1 DEF IInv, QueueInv
<1>11. ASSUME ResolveFailed
       PROVE  QueueInv'
  <2>1. /\ queue # <<>> /\ Owes(Head(queue)) /\ Answer(Head(queue).con, "failed") /\ CloseSocket
        /\ UNCHANGED <<resolving, connects, sends, asked, written, line, readBuf, arrived>>
    BY <1>11 DEF ResolveFailed, Ready, Owes
  <2>2. \A c \in Connections :
           outcome[c] = "asked" /\ ~ (Owes(Head(queue)) /\ Head(queue).con = c)
               => outcome'[c] = "asked"
    BY <2>1, AnsweredHead
  <2> QED
    BY <2>1, <2>2, Closing
<1>12. ASSUME ResolvedClosed
       PROVE  QueueInv'
  <2>1. PICK c : c = Head(queue).con
    OBVIOUS
  <2>2. /\ queue # <<>> /\ Head(queue).op = "resolved" /\ conn' = c /\ connOp' \in {connOp, c}
        /\ UNCHANGED <<connects, resolving, outcome, arrived, written, sends, asked, bufVars,
                       unread>>
    BY <1>12, <2>1 DEF ResolvedClosed, Ready
  <2>3. Known' = Known /\ Resolved' = Resolved
    BY <2>2 DEF Known, Resolved
  <2>4. /\ c \in Connections /\ c <= Resolved /\ c # connOp /\ outcome[c] = "asked"
    BY <2>1, <2>2, HeadType DEF Owes, DueHandler
  <2>5. ASSUME NEW h \in Expected, Pair(Head(queue), h, asked)
        PROVE  h \in Expected'
    <3>1. h \in Handlers /\ DueHandler(h) /\ NewHandler(h) /\ SendHandler(h) /\ ReadHandler(h)
      BY DEF Expected
    <3>2. /\ Owes(h) => h.con # c
          /\ h.op = "resolved" => h.con > c
          /\ h.op = "send" => c <= asked[h.msg]
      BY <2>1, <2>2, <2>5 DEF Pair, Owes
    <3>3. DueHandler(h)'
      BY <2>2, <2>3, <3>1, <3>2 DEF DueHandler
    <3>4. NewHandler(h)'
      BY <2>2, <3>1, <3>2 DEF NewHandler
    <3>5. SendHandler(h)'
      BY <2>2, <3>1, <3>2 DEF SendHandler
    <3> QED
      BY <2>2, <2>3, <3>1, <3>3, <3>4, <3>5 DEF Expected, ReadHandler
  <2>6. CASE queue' = Tail(queue)
    BY <2>2, <2>5, <2>6, HeadTaken
  <2>7. CASE queue' = Append(Tail(queue), Refused(c)) /\ connOp' = connOp
    <3>1. DueHandler(Refused(c))'
      BY <2>2, <2>3, <2>4, <2>7 DEF DueHandler, Refused
    <3>2. Refused(c) \in Expected'
      BY <2>4, <3>1, MadeHandlers
         DEF Expected, NewHandler, SendHandler, ReadHandler, Refused
    <3>3. \A h \in Expected : Pair(Head(queue), h, asked) => Pair(h, Refused(c), asked)
      BY <2>1, <2>2 DEF Pair, Refused, Owes
    <3> QED
      BY <2>2, <2>5, <2>7, <3>2, <3>3, HeadReplaced
  <2>8. \/ queue' = Tail(queue)
        \/ queue' = Append(Tail(queue), Refused(c)) /\ connOp' = connOp
    BY <1>12, <2>1 DEF ResolvedClosed, Refused
  <2> QED
    BY <2>6, <2>7, <2>8
<1>13. ASSUME ResolvedOpen
       PROVE  QueueInv'
  <2>1. PICK c : c = Head(queue).con
    OBVIOUS
  <2>2. /\ queue # <<>> /\ Owes(Head(queue)) /\ queue' = Append(Tail(queue), Refused(c))
        /\ asked' = asked /\ Expected' = Expected
    BY <1>13, <2>1, StillExpected DEF ResolvedOpen, Ready, Refused, Owes
  <2>3. Refused(c) \in Expected
    BY <2>1, <2>2, RefusedExpected
  <2>4. \A h \in Expected : Pair(Head(queue), h, asked) => Pair(h, Refused(c), asked)
    BY <2>1, <2>2 DEF Pair, Refused, Owes
  <2> QED
    BY <2>2, <2>3, <2>4, HeadReplaced
<1>14. ASSUME ConnectFailed
       PROVE  QueueInv'
  <2>1. /\ queue # <<>> /\ Owes(Head(queue)) /\ Answer(Head(queue).con, "failed") /\ CloseSocket
        /\ UNCHANGED <<resolving, connects, sends, asked, written, line, readBuf, arrived>>
    BY <1>14 DEF ConnectFailed, Ready, Owes
  <2>2. \A c \in Connections :
           outcome[c] = "asked" /\ ~ (Owes(Head(queue)) /\ Head(queue).con = c)
               => outcome'[c] = "asked"
    BY <2>1, AnsweredHead
  <2> QED
    BY <2>1, <2>2, Closing
<1>15. ASSUME Connected
       PROVE  QueueInv'
  <2>1. /\ queue # <<>> /\ Owes(Head(queue)) /\ Answer(Head(queue).con, "open")
        /\ StartRead(readBuf, Tail(queue))
        /\ UNCHANGED <<connects, resolving, connOp, conn, arrived, written, sends, asked,
                       bufVars, unread>>
    BY <1>15 DEF Connected, Ready, Owes
  <2>2. Known' = Known /\ Resolved' = Resolved
    BY <2>1 DEF Known, Resolved
  <2>3. ASSUME NEW h \in Expected, Pair(Head(queue), h, asked)
        PROVE  h \in Expected'
    <3>1. h \in Handlers /\ DueHandler(h) /\ NewHandler(h) /\ SendHandler(h) /\ ReadHandler(h)
      BY DEF Expected
    <3>2. Owes(h) => h.con \in Connections /\ h.con # Head(queue).con
      BY <2>1, <2>3, <3>1, HandlerTypes DEF Pair
    <3>3. Owes(h) => outcome'[h.con] = "asked"
      BY <2>1, <3>1, <3>2, AnsweredHead DEF DueHandler
    <3>4. DueHandler(h)'
      BY <2>1, <2>2, <3>1, <3>3 DEF DueHandler
    <3> QED
      BY <2>1, <2>2, <3>1, <3>4 DEF Expected, NewHandler, SendHandler, ReadHandler
  <2> QED
    BY <2>1, <2>3, HeadReads
<1>16. ASSUME OnRead
       PROVE  QueueInv'
  <2>1. /\ queue # <<>> /\ Head(queue).op = "read"
        /\ UNCHANGED <<connects, resolving, connOp, conn, arrived, written, sends, asked,
                       outcome, unread>>
    BY <1>16 DEF OnRead, Ready
  <2>2. Known' = Known /\ Resolved' = Resolved
    BY <2>1 DEF Known, Resolved
  <2>3. ASSUME NEW h \in Expected, Pair(Head(queue), h, asked)
        PROVE  h \in Expected'
    <3>1. h \in Handlers /\ DueHandler(h) /\ NewHandler(h) /\ SendHandler(h) /\ ReadHandler(h)
      BY DEF Expected
    <3>2. ReadHandler(h)'
      <4> SUFFICES ASSUME h.op = "read"
                   PROVE  ReadHandler(h)'
        BY DEF ReadHandler
      <4>1. /\ h.data \in Seq(Known) /\ Sorted(h.data) /\ Precedes(line, h.data)
            /\ Precedes(readBuf, h.data) /\ Precedes(h.data, unread)
        BY <3>1 DEF ReadHandler
      <4>2. Precedes(Head(queue).data, h.data)
        BY <2>1, <2>3 DEF Pair
      <4>3. Precedes(line', h.data) /\ Precedes(readBuf', h.data)
        BY <1>16, <4>1, <4>2, OnReadLines
      <4> QED
        BY <2>1, <2>2, <4>1, <4>3 DEF ReadHandler
    <3> QED
      BY <2>1, <2>2, <3>1, <3>2 DEF Expected, DueHandler, NewHandler, SendHandler
  <2>4. PICK buf : StartRead(buf, Tail(queue))
    BY <1>16, OnReadStarts
  <2> QED
    BY <2>1, <2>3, <2>4, HeadReads
<1>17. ASSUME ResolvedAgain
       PROVE  QueueInv'
  <2>1. PICK c : c = Head(queue).con
    OBVIOUS
  <2> DEFINE g == [op |-> "connected", con |-> c, ok |-> TRUE]
  <2>2. /\ queue # <<>> /\ Owes(Head(queue)) /\ queue' = Append(Tail(queue), g)
        /\ asked' = asked /\ Expected' = Expected
    BY <1>17, <2>1, StillExpected DEF ResolvedAgain, Ready, Owes
  <2>3. g \in Expected
    <3>1. c \in Connections /\ DueHandler(Head(queue))
      BY <2>1, <2>2, HeadType
    <3>2. g \in Handlers /\ DueHandler(g)
      BY <2>1, <2>2, <3>1, MadeHandlers DEF DueHandler, Owes
    <3> QED
      BY <3>2 DEF Expected, NewHandler, SendHandler, ReadHandler
  <2>4. \A h \in Expected : Pair(Head(queue), h, asked) => Pair(h, g, asked)
    BY <2>1, <2>2 DEF Pair, Owes
  <2> HIDE DEF g
  <2> QED
    BY <2>2, <2>3, <2>4, HeadReplaced
<1>18. ASSUME OnReadError
       PROVE  QueueInv'
  <2>1. queue # <<>> /\ queue' = Tail(queue) /\ asked' = asked /\ Expected' = Expected
    BY <1>18, StillExpected DEF OnReadError, Ready
  <2> QED
    BY <2>1, HeadTaken
<1>19. ASSUME ExecuteSend
       PROVE  QueueInv'
  <2>1. /\ queue # <<>> /\ Head(queue).op = "send" /\ queue' = Tail(queue)
        /\ written' = written \/ written'.msg = Head(queue).msg
        /\ UNCHANGED <<connects, resolving, connOp, conn, arrived, sends, asked, outcome,
                       bufVars, unread>>
    BY <1>19 DEF ExecuteSend, Ready
  <2>2. Known' = Known /\ Resolved' = Resolved
    BY <2>1 DEF Known, Resolved
  <2>3. ASSUME NEW h \in Expected, Pair(Head(queue), h, asked)
        PROVE  h \in Expected'
    <3>1. h \in Handlers /\ DueHandler(h) /\ NewHandler(h) /\ SendHandler(h) /\ ReadHandler(h)
      BY DEF Expected
    <3>2. h.op = "send" => Head(queue).msg < h.msg
      BY <2>1, <2>3 DEF Pair
    <3>3. SendHandler(h)'
      BY <2>1, <3>1, <3>2 DEF SendHandler
    <3> QED
      BY <2>1, <2>2, <3>1, <3>3 DEF Expected, DueHandler, NewHandler, ReadHandler
  <2> QED
    BY <2>1, <2>3, HeadTaken
<1>20. ASSUME ExecuteDisconnect
       PROVE  QueueInv'
  <2>1. /\ queue # <<>>
        /\ UNCHANGED <<resolving, connects, sends, asked, written, line, readBuf, arrived,
                       outcome>>
    BY <1>20 DEF ExecuteDisconnect, Ready
  <2>2. CASE sock = "open"
    <3>1. CloseSocket
      BY <1>20, <2>2 DEF ExecuteDisconnect
    <3> QED
      BY <2>1, <3>1, Closing
  <2>3. CASE sock # "open"
    <3>1. queue' = Tail(queue) /\ Expected' = Expected
      BY <1>20, <2>3, StillExpected DEF ExecuteDisconnect
    <3> QED
      BY <2>1, <3>1, HeadTaken
  <2> QED
    BY <2>2, <2>3
<1>21. ASSUME ServiceEnds
       PROVE  QueueInv'
  <2>1. UNCHANGED <<queue, asked>> /\ Expected' = Expected
    BY <1>21, StillExpected DEF ServiceEnds
  <2> QED
    BY <2>1 DEF IInv, QueueInv
<1>22. CASE UNCHANGED vars
  <2>1. UNCHANGED <<queue, asked>> /\ Expected' = Expected
    BY <1>22, StillExpected
  <2> QED
    BY <2>1 DEF IInv, QueueInv
<1> QED
  BY <1>1, <1>2, <1>3, <1>4, <1>5, <1>6, <1>7, <1>8, <1>9, <1>10, <1>11, <1>12, <1>13,
     <1>14, <1>15, <1>16, <1>17, <1>18, <1>19, <1>20, <1>21, <1>22
     DEF Next, System, ServiceThread, Over
-----------------------------------------------------------------------------
(* The theorems.                                                           *)

\* The invariant holds in every state.
LEMMA Invariance == Spec => []IInv
<1>1. Init => IInv
  BY InitInv
<1>2. IInv /\ [Next]_vars => IInv'
  BY NextFlagInv, NextSocketInv, NextDueInv, NextLineInv, NextQueueInv DEF IInv
<1> QED
  BY <1>1, <1>2, PTL DEF Spec

\* The variables keep to their types: the numbers of connections and messages
\* never leave their range, and nothing is in the queue that is no handler.
THEOREM TypeCorrect == Spec => []TypeOK
<1>1. IInv => TypeOK
  BY InvImpliesTypeOK
<1> QED
  BY <1>1, Invariance, PTL

\* onResolve() and onConnect() report each connect() at most once, whatever
\* other connect()s and disconnect()s do to the socket meanwhile.
THEOREM AnsweredOnceAlways == Spec => []AnsweredOnce
<1>1. IInv => AnsweredOnce
  BY DEF IInv, DueInv, AnsweredOnce
<1> QED
  BY <1>1, Invariance, PTL

\* The service executes the posted send()s in order, and closes or reopens the
\* socket only for connect()s that came before those that are left.
LEMMA SendStep ==
    ASSUME IInv, Next, written' # written
    PROVE  written'.msg > written.msg /\ written'.con \in 1..asked[written'.msg]
<1> USE DEF vars, jsVars, sockVars, bufVars
<1>1. ExecuteSend
  BY DEF Next, System, ServiceThread, Over, Connect, Disconnect, Send, Quit, Resolve,
         Establish, ConnectCompletes, ReadCompletes, Arrive, ServerCloses, ResolveFailed,
         ResolvedClosed, ResolvedOpen, ConnectFailed, Connected, OnRead, ResolvedAgain,
         OnReadError, ExecuteDisconnect, ServiceEnds
<1>2. /\ queue # <<>> /\ Head(queue).op = "send" /\ net \in {"up", "fin"}
      /\ written' = [msg |-> Head(queue).msg, con |-> conn]
  BY <1>1 DEF ExecuteSend, Ready
<1>3. /\ written.msg < Head(queue).msg /\ conn <= asked[Head(queue).msg]
      /\ Head(queue).msg \in 1..MaxSends
  BY <1>2, HeadType DEF SendHandler
<1>4. conn \in Nat \ {0}
  BY <1>2, Bounds DEF IInv, SocketInv
<1>5. written'.msg > written.msg
  BY <1>2, <1>3, Bounds DEF IInv, CallInv
<1>6. conn \in 1..asked[Head(queue).msg]
  BY <1>3, <1>4, Bounds DEF IInv, CallInv
<1> QED
  BY <1>2, <1>5, <1>6

\* Messages are written in the order of the send()s, each at most once, and
\* never to a connection that was asked for only after the send().
THEOREM SendsAreInOrder == Spec => SendsInOrder
<1>1. IInv /\ [Next]_vars =>
          [written' # written =>
              /\ written'.msg > written.msg
              /\ written'.con \in 1..asked[written'.msg]]_vars
  BY SendStep
<1> QED
  BY <1>1, Invariance, PTL DEF Spec, SendsInOrder

\* A line that is posted is in order and comes after the one before it.
LEMMA LineStep ==
    ASSUME IInv, Next, line' # line
    PROVE  /\ \A i, j \in DOMAIN line' : i < j => Before(line'[i], line'[j])
           /\ line # <<>> => Before(line[Len(line)], line'[1])
<1> USE DEF vars, jsVars, sockVars, bufVars
<1>1. OnRead
  BY DEF Next, System, ServiceThread, Over, Connect, Disconnect, Send, Quit, Resolve,
         Establish, ConnectCompletes, ReadCompletes, Arrive, ServerCloses, ResolveFailed,
         ResolvedClosed, ResolvedOpen, ConnectFailed, Connected, ExecuteSend, ResolvedAgain,
         OnReadError, ExecuteDisconnect, ServiceEnds
<1>2. /\ line' \in Seq(Known) /\ Sorted(line') /\ Len(line') >= 1 /\ Precedes(line, line')
  BY <1>1, OnReadLines
<1>3. DOMAIN line' = 1..Len(line')
  BY <1>2
<1>4. line # <<>> => Len(line) \in 1..Len(line)
  BY EmptySeq, LenProperties DEF IInv, LineInv
<1>5. 1 \in 1..Len(line')
  BY <1>2
<1>6. \A i, j \in DOMAIN line' : i < j => Before(line'[i], line'[j])
  BY <1>2, <1>3 DEF Sorted
<1>7. line # <<>> => Before(line[Len(line)], line'[1])
  BY <1>2, <1>4, <1>5 DEF Precedes
<1> QED
  BY <1>6, <1>7

\* What the page is given is in the order it was sent in, nothing is given
\* twice, and no line of an old connection comes after one of a later one.
THEOREM LinesAreInOrder == Spec => LinesInOrder
<1>1. IInv /\ [Next]_vars =>
          [line' # line =>
              /\ \A i, j \in DOMAIN line' : i < j => Before(line'[i], line'[j])
              /\ line # <<>> => Before(line[Len(line)], line'[1])]_vars
  BY LineStep
<1> QED
  BY <1>1, Invariance, PTL DEF Spec, LinesInOrder
-----------------------------------------------------------------------------
(* The one read buffer.                                                    *)

\* The reads that have completed, in a queue of handlers, and how many.
ReadsIn(q) == {i \in 1..Len(q) : q[i].op = "read"}
Count(q)   == Cardinality(ReadsIn(q))

\* The connect()s that have succeeded.
Opened == {c \in Connections : outcome[c] = "open"}

\* Each read on the buffer, be it pending or completed, goes back to a connect()
\* that has succeeded.
ReaderInv == Count(queue) + reads <= Cardinality(Opened)

\* A set of indices is as large as the set of the next ones.
LEMMA NextIndices ==
    ASSUME NEW S \in SUBSET Nat, NEW T \in SUBSET Nat, IsFiniteSet(S),
           \A i \in T : i + 1 \in S, \A i \in S : i - 1 \in T
    PROVE  Cardinality(T) = Cardinality(S)
<1> DEFINE f == [i \in S |-> i - 1]
<1>1. f \in Bijection(S, T)
  <2>1. f \in [S -> T]
    OBVIOUS
  <2>2. \A i, j \in S : f[i] = f[j] => i = j
    OBVIOUS
  <2>3. \A t \in T : t + 1 \in S /\ f[t + 1] = t
    OBVIOUS
  <2> HIDE DEF f
  <2>4. \A t \in T : \E i \in S : f[i] = t
    BY <2>3
  <2> QED
    BY <2>1, <2>2, <2>4, Fun_IsBij
<1>2. ExistsBijection(S, T)
  BY <1>1 DEF ExistsBijection
<1> QED
  BY <1>2, FS_Bijection

\* The reads of a queue are finitely many.
LEMMA CountType ==
    ASSUME NEW S, NEW q \in Seq(S)
    PROVE  IsFiniteSet(ReadsIn(q)) /\ Count(q) \in Nat
<1>1. Len(q) \in Nat
  BY LenProperties
<1>2. IsFiniteSet(1..Len(q))
  BY <1>1, FS_Interval
<1>3. IsFiniteSet(ReadsIn(q))
  BY <1>2, FS_Subset DEF ReadsIn
<1> QED
  BY <1>3, FS_CardinalityType DEF Count

\* A handler that becomes ready is a read, or is not.
LEMMA CountAppended ==
    ASSUME NEW S, NEW q \in Seq(S), NEW h
    PROVE  Count(Append(q, h)) = Count(q) + (IF h.op = "read" THEN 1 ELSE 0)
<1> DEFINE R == ReadsIn(q)
           n == Len(q) + 1
<1>1. Len(q) \in Nat /\ n \in Nat /\ n \notin 1..Len(q) /\ 1..n = 1..Len(q) \cup {n}
  BY LenProperties
<1>2. IsFiniteSet(R) /\ Cardinality(R) \in Nat
  BY CountType DEF Count
<1>3. Len(Append(q, h)) = n /\ Append(q, h)[n] = h
      /\ \A i \in 1..Len(q) : Append(q, h)[i] = q[i]
  <2>1. q \in Seq(S \cup {h})
    BY SeqMonotonic
  <2> QED
    BY <2>1, AppendProperties
<1>4. CASE h.op = "read"
  <2>1. ReadsIn(Append(q, h)) = R \cup {n}
    BY <1>1, <1>3, <1>4 DEF ReadsIn
  <2>2. n \notin R
    BY <1>1 DEF ReadsIn
  <2> QED
    BY <1>2, <1>4, <2>1, <2>2, FS_AddElement DEF Count
<1>5. CASE h.op # "read"
  <2>1. ReadsIn(Append(q, h)) = R
    BY <1>1, <1>3, <1>5 DEF ReadsIn
  <2> QED
    BY <1>2, <1>5, <2>1 DEF Count
<1> QED
  BY <1>4, <1>5

\* The handler that is executed was a read, or was not.
LEMMA CountTaken ==
    ASSUME NEW S, NEW q \in Seq(S), q # <<>>
    PROVE  /\ Tail(q) \in Seq(S) /\ Count(Tail(q)) \in Nat
           /\ Count(q) = Count(Tail(q)) + (IF Head(q).op = "read" THEN 1 ELSE 0)
<1> DEFINE R == ReadsIn(q)
           P == R \ {1}
           T == ReadsIn(Tail(q))
<1>1. /\ Tail(q) \in Seq(S) /\ Len(q) \in Nat \ {0} /\ Head(q) = q[1]
      /\ Len(Tail(q)) = Len(q) - 1 /\ \A i \in 1..Len(Tail(q)) : Tail(q)[i] = q[i + 1]
  BY HeadAndTail
<1>2. IsFiniteSet(R) /\ Cardinality(R) \in Nat /\ Count(Tail(q)) \in Nat
  BY <1>1, CountType DEF Count
<1>3. IsFiniteSet(P)
      /\ Cardinality(P) = IF 1 \in R THEN Cardinality(R) - 1 ELSE Cardinality(R)
  BY <1>2, FS_RemoveElement
<1>4. \A i \in T : i + 1 \in P
  BY <1>1 DEF ReadsIn
<1>5. \A i \in P : i - 1 \in T
  BY <1>1 DEF ReadsIn
<1>6. P \in SUBSET Nat /\ T \in SUBSET Nat
  BY <1>1 DEF ReadsIn
<1>7. Cardinality(T) = Cardinality(P)
  <2> HIDE DEF P, T
  <2> QED
    BY <1>3, <1>4, <1>5, <1>6, NextIndices
<1>8. 1 \in R <=> Head(q).op = "read"
  BY <1>1 DEF ReadsIn
<1> HIDE DEF P
<1>9. Count(q) = Count(Tail(q)) + (IF Head(q).op = "read" THEN 1 ELSE 0)
  BY <1>2, <1>3, <1>7, <1>8 DEF Count
<1> QED
  BY <1>1, <1>2, <1>9

\* close() aborts the reads that are pending, and loses none.
LEMMA CountAborted ==
    ASSUME NEW S, NEW q \in Seq(S), reads \in Nat
    PROVE  Count(q \o Aborted) = Count(q) + reads
<1> DEFINE n == Len(q)
           R == ReadsIn(q)
           F == n + 1..n + reads
           T == {ReadFailed, Refused(connOp)}
<1>1. n \in Nat /\ IsFiniteSet(R) /\ Count(q) \in Nat
  BY CountType, LenProperties
<1>2. /\ Aborted \in Seq(T)
      /\ \A i \in 1..Len(Aborted) : Aborted[i].op = "read" <=> i <= reads
      /\ Len(Aborted) \in Nat /\ Len(Aborted) >= reads
  <2> DEFINE failed == [i \in 1..reads |-> ReadFailed]
             last   == IF connOp = 0 THEN <<>> ELSE <<Refused(connOp)>>
  <2>1. failed \in Seq(T) /\ Len(failed) = reads /\ \A i \in 1..reads : failed[i].op = "read"
    BY SeqDef DEF ReadFailed
  <2>2. last \in Seq(T) /\ Len(last) \in Nat /\ \A i \in 1..Len(last) : last[i].op # "read"
    <3>1. CASE connOp = 0
      <4>1. last = <<>>
        BY <3>1
      <4> QED
        BY <4>1
    <3>2. CASE connOp # 0
      <4>1. last = <<Refused(connOp)>> /\ Refused(connOp) \in T
        BY <3>2
      <4>2. Refused(connOp).op # "read"
        BY DEF Refused
      <4> HIDE DEF last, T
      <4> QED
        BY <4>1, <4>2
    <3> QED
      BY <3>1, <3>2
  <2>3. Aborted = failed \o last
    BY DEF Aborted, ReadFailed, Refused
  <2> HIDE DEF failed, last, T
  <2>4. /\ failed \o last \in Seq(T) /\ Len(failed \o last) = reads + Len(last)
        /\ \A i \in 1..reads + Len(last) :
              (failed \o last)[i] = IF i <= reads THEN failed[i] ELSE last[i - reads]
    BY <2>1, <2>2, ConcatProperties
  <2>5. ASSUME NEW i \in 1..reads + Len(last)
        PROVE  (failed \o last)[i].op = "read" <=> i <= reads
    <3>1. ASSUME i <= reads
          PROVE  (failed \o last)[i].op = "read"
      BY <2>1, <2>4, <3>1
    <3>2. ASSUME ~ (i <= reads)
          PROVE  (failed \o last)[i].op # "read"
      <4>1. i - reads \in 1..Len(last) /\ (failed \o last)[i] = last[i - reads]
        BY <2>2, <2>4, <3>2
      <4> QED
        BY <2>2, <4>1
    <3> QED
      BY <3>1, <3>2, Zenon
  <2> QED
    BY <2>2, <2>3, <2>4, <2>5
<1> HIDE DEF T
<1>3. /\ Len(q \o Aborted) = n + Len(Aborted)
      /\ \A i \in 1..n : (q \o Aborted)[i] = q[i]
      /\ \A i \in 1..Len(Aborted) : (q \o Aborted)[n + i] = Aborted[i]
  BY <1>1, <1>2, ConcatProperties
<1>4. ASSUME NEW i \in 1..n + Len(Aborted)
      PROVE  i \in ReadsIn(q \o Aborted) <=> i \in R \cup F
  <2>1. CASE i <= n
    BY <1>1, <1>3, <2>1 DEF ReadsIn
  <2>2. CASE i > n
    <3>1. i - n \in 1..Len(Aborted) /\ i = n + (i - n)
      BY <1>1, <1>2, <2>2
    <3>2. (q \o Aborted)[i] = Aborted[i - n]
      BY <1>3, <3>1
    <3>3. i \notin R /\ (i \in F <=> i - n <= reads)
      BY <1>1, <2>2 DEF ReadsIn
    <3> QED
      BY <1>2, <1>3, <3>1, <3>2, <3>3 DEF ReadsIn
  <2> QED
    BY <1>1, <2>1, <2>2
<1>5. R \subseteq 1..n + Len(Aborted) /\ F \subseteq 1..n + Len(Aborted)
      /\ ReadsIn(q \o Aborted) \subseteq 1..n + Len(Aborted)
  BY <1>1, <1>2, <1>3 DEF ReadsIn
<1>6. ReadsIn(q \o Aborted) = R \cup F /\ R \cap F = {}
  <2>1. R \cap F = {}
    BY <1>1 DEF ReadsIn
  <2> QED
    BY <1>4, <1>5, <2>1
<1>7. IsFiniteSet(F) /\ Cardinality(F) = reads
  <2>1. n + 1 \in Int /\ n + reads \in Int
    BY <1>1
  <2>2. /\ IsFiniteSet(F)
        /\ Cardinality(F) = IF n + 1 > n + reads THEN 0 ELSE (n + reads) - (n + 1) + 1
    BY <2>1, FS_Interval
  <2> HIDE DEF F
  <2> QED
    BY <1>1, <2>2
<1>8. Cardinality(R \cup F) = Cardinality(R) + Cardinality(F) - Cardinality({})
  BY <1>1, <1>6, <1>7, FS_Union
<1> HIDE DEF R, F
<1> QED
  BY <1>1, <1>6, <1>7, <1>8, FS_EmptySet DEF Count, R

\* A read that starts is one more, at most.
LEMMA CountStarted ==
    ASSUME NEW S, NEW q \in Seq(S), NEW buf, reads \in Nat, StartRead(buf, q)
    PROVE  Count(queue') + reads' \in {Count(q) + reads, Count(q) + reads + 1}
<1>1. Count(q) \in Nat
  BY CountType
<1>2. /\ Count(Append(q, ReadNothing)) = Count(q) + 1
      /\ Count(Append(q, ReadFailed)) = Count(q) + 1
  BY CountAppended DEF ReadNothing, ReadFailed
<1>3. CASE queue' = q /\ reads' \in {reads, reads + 1}
  <2>1. Count(queue') = Count(q)
    BY <1>3
  <2> QED
    BY <1>1, <1>3, <2>1
<1>4. ASSUME NEW h \in {ReadNothing, ReadFailed}, queue' = Append(q, h), reads' = reads
      PROVE  Count(queue') + reads' \in {Count(q) + reads, Count(q) + reads + 1}
  <2>1. Count(queue') = Count(q) + 1
    BY <1>2, <1>4
  <2> QED
    BY <1>1, <1>4, <2>1
<1> QED
  BY <1>3, <1>4 DEF StartRead, Held, ReadNothing, ReadFailed

\* A read that has space in the buffer is one.
LEMMA HeldCounted ==
    ASSUME NEW S, NEW q \in Seq(S), reads \in Nat, Held(q)
    PROVE  Count(q) + reads >= 1
<1>1. IsFiniteSet(ReadsIn(q)) /\ Count(q) \in Nat
  BY CountType
<1>2. CASE reads # 0
  BY <1>1, <1>2
<1>3. CASE \E i \in DOMAIN q : q[i].op = "read" /\ q[i].ok /\ q[i].data # <<>>
  <2>1. DOMAIN q = 1..Len(q)
    BY LenProperties
  <2>2. ReadsIn(q) # {}
    BY <1>3, <2>1 DEF ReadsIn
  <2>3. Count(q) # 0
    BY <1>1, <2>2, FS_EmptySet DEF Count
  <2> QED
    BY <1>1, <2>3
<1> QED
  BY <1>2, <1>3 DEF Held

\* Finitely many are opened; a connect() that fails was not.
LEMMA OpenedType == IsFiniteSet(Opened) /\ Cardinality(Opened) \in Nat
<1>1. IsFiniteSet(Connections)
  BY Bounds, FS_Interval DEF Connections
<1>2. IsFiniteSet(Opened)
  BY <1>1, FS_Subset DEF Opened
<1> QED
  BY <1>2, FS_CardinalityType

\* What a step has to show: it makes no more reads than connect()s succeed.
LEMMA NoMoreReads ==
    ASSUME IInv, ReaderInv, Opened' = Opened,
           \/ Count(queue') + reads' = Count(queue) + reads
           \/ Count(queue') + reads' = Count(queue) + reads - 1
    PROVE  ReaderInv'
<1>1. Count(queue) \in Nat /\ reads \in Nat
  BY CountType DEF IInv, QueueInv, SocketInv
<1>2. Cardinality(Opened)' = Cardinality(Opened) /\ Cardinality(Opened) \in Nat
  BY OpenedType
<1> QED
  BY <1>1, <1>2 DEF ReaderInv

\* The queue without its head has one read less, or none.
LEMMA HeadCounted ==
    ASSUME IInv, queue # <<>>
    PROVE  /\ Tail(queue) \in Seq(Expected) /\ reads \in Nat /\ Count(Tail(queue)) \in Nat
           /\ Count(queue) = Count(Tail(queue)) + (IF Head(queue).op = "read" THEN 1 ELSE 0)
  BY CountTaken DEF IInv, QueueInv, SocketInv

\* A handler that is no read takes the place of the head, or none does.
LEMMA HeadGone ==
    ASSUME IInv, ReaderInv, queue # <<>>, NEW h, h.op # "read",
           queue' \in {Tail(queue), Append(Tail(queue), h)}, UNCHANGED <<reads, outcome>>
    PROVE  ReaderInv'
<1>1. /\ Tail(queue) \in Seq(Expected) /\ reads \in Nat /\ Count(Tail(queue)) \in Nat
      /\ Count(queue) = Count(Tail(queue)) + (IF Head(queue).op = "read" THEN 1 ELSE 0)
  BY HeadCounted
<1>2. Count(Append(Tail(queue), h)) = Count(Tail(queue))
  <2>1. Count(Append(Tail(queue), h)) = Count(Tail(queue)) + 0
    BY <1>1, CountAppended
  <2> QED
    BY <1>1, <2>1
<1>3. Count(queue') = Count(Tail(queue))
  <2>1. queue' = Tail(queue) \/ queue' = Append(Tail(queue), h)
    OBVIOUS
  <2> QED
    BY <1>2, <2>1
<1>4. Opened' = Opened
  BY DEF Opened
<1>5. \/ Count(queue') + reads' = Count(queue) + reads
      \/ Count(queue') + reads' = Count(queue) + reads - 1
  BY <1>1, <1>3
<1> QED
  BY <1>4, <1>5, NoMoreReads

\* Another handler that is no read becomes ready.
LEMMA OtherReady ==
    ASSUME IInv, ReaderInv, NEW h, h.op # "read", queue' = Append(queue, h),
           UNCHANGED <<reads, outcome>>
    PROVE  ReaderInv'
<1>1. queue \in Seq(Expected) /\ reads \in Nat
  BY DEF IInv, QueueInv, SocketInv
<1>2. Count(queue) \in Nat /\ Count(queue') = Count(queue)
  BY <1>1, CountType, CountAppended
<1>3. Opened' = Opened
  BY DEF Opened
<1>4. Count(queue') + reads' = Count(queue) + reads
  BY <1>2
<1> QED
  BY <1>3, <1>4, NoMoreReads

\* The socket is closed: its reads are in the queue now.
LEMMA ReadsClosed ==
    ASSUME IInv, ReaderInv, queue # <<>>, CloseSocket, Opened' = Opened
    PROVE  ReaderInv'
<1>1. /\ Tail(queue) \in Seq(Expected) /\ reads \in Nat /\ Count(Tail(queue)) \in Nat
      /\ Count(queue) = Count(Tail(queue)) + (IF Head(queue).op = "read" THEN 1 ELSE 0)
  BY HeadCounted
<1>2. Count(Tail(queue) \o Aborted) = Count(Tail(queue)) + reads
  BY <1>1, CountAborted
<1>3. queue' = Tail(queue) \o Aborted /\ reads' = 0
  BY DEF CloseSocket
<1>4. Count(queue') = Count(Tail(queue)) + reads
  BY <1>2, <1>3
<1>5. \/ Count(queue') + reads' = Count(queue) + reads
      \/ Count(queue') + reads' = Count(queue) + reads - 1
  BY <1>1, <1>3, <1>4
<1> QED
  BY <1>5, NoMoreReads

\* A read is started by a connect() that has succeeded, or by the read before it;
\* those of a connection that is closed are aborted and end.
LEMMA NextReaderInv == IInv /\ ReaderInv /\ [Next]_vars => ReaderInv'
<1> SUFFICES ASSUME IInv, ReaderInv, [Next]_vars
             PROVE  ReaderInv'
  OBVIOUS
<1> USE DEF vars, jsVars, sockVars, bufVars
<1> DEFINE Same == UNCHANGED <<queue, reads, outcome>>
<1>1. ASSUME Same
      PROVE  ReaderInv'
  BY <1>1 DEF ReaderInv, Opened
<1>2. ASSUME Connect
      PROVE  ReaderInv'
  <2>1. UNCHANGED <<queue, reads>> /\ connects + 1 \in Connections /\ connects \in Nat
        /\ outcome' = [outcome EXCEPT ![connects + 1] = "asked"]
    BY <1>2, Bounds DEF Connect, Connections, IInv, CallInv
  <2>2. /\ outcome[connects + 1] = "none"
        /\ outcome \in [Connections -> {"none", "asked", "open", "failed"}]
    BY <2>1 DEF IInv, DueInv
  <2>3. Opened' = Opened
    BY <2>1, <2>2 DEF Opened
  <2> QED
    BY <2>1, <2>3 DEF ReaderInv
<1>3. ASSUME Disconnect \/ Quit
      PROVE  ReaderInv'
  BY <1>3, OtherReady DEF Disconnect, Quit
<1>4. ASSUME Send
      PROVE  ReaderInv'
  BY <1>4, OtherReady DEF Send
<1>5. ASSUME Resolve
      PROVE  ReaderInv'
  BY <1>5, OtherReady DEF Resolve
<1>6. ASSUME ConnectCompletes
      PROVE  ReaderInv'
  BY <1>6, OtherReady DEF ConnectCompletes
<1>7. ASSUME ReadCompletes
      PROVE  ReaderInv'
  <2> DEFINE h == [op |-> "read", ok |-> unread # <<>>, data |-> unread]
  <2>1. queue' = Append(queue, h) /\ reads' = reads - 1 /\ UNCHANGED outcome
    BY <1>7 DEF ReadCompletes
  <2>2. h.op = "read"
    OBVIOUS
  <2> HIDE DEF h
  <2>3. queue \in Seq(Expected) /\ reads \in Nat
    BY DEF IInv, QueueInv, SocketInv
  <2>4. Count(queue) \in Nat /\ Count(queue') = Count(queue) + 1
    BY <2>1, <2>2, <2>3, CountType, CountAppended
  <2>5. Count(queue') + reads' = Count(queue) + reads
    BY <2>1, <2>3, <2>4
  <2>6. Opened' = Opened
    BY <2>1 DEF Opened
  <2> QED
    BY <2>5, <2>6, NoMoreReads
<1>8. ASSUME Owes(Head(queue)), queue # <<>>, Answer(Head(queue).con, "failed"), CloseSocket
      PROVE  ReaderInv'
  <2>1. Head(queue).con \in Connections /\ outcome[Head(queue).con] = "asked"
    BY <1>8, HeadType DEF DueHandler
  <2>2. Opened' = Opened
    BY <1>8, <2>1 DEF Opened, Answer, IInv, DueInv
  <2> QED
    BY <1>8, <2>2, ReadsClosed
<1>9. ASSUME ResolveFailed \/ ConnectFailed
      PROVE  ReaderInv'
  BY <1>8, <1>9 DEF ResolveFailed, ConnectFailed, Ready, Owes
<1>10. ASSUME ResolvedClosed \/ ResolvedOpen \/ ResolvedAgain
       PROVE  ReaderInv'
  <2> DEFINE Made(o) == [op |-> "connected", con |-> Head(queue).con, ok |-> o]
  <2>1. PICK h \in {Made(FALSE), Made(TRUE)} :
           /\ queue # <<>> /\ queue' \in {Tail(queue), Append(Tail(queue), h)}
           /\ UNCHANGED <<reads, outcome>>
    BY <1>10 DEF ResolvedClosed, ResolvedOpen, ResolvedAgain, Ready
  <2>2. h.op # "read"
    OBVIOUS
  <2> HIDE DEF Made
  <2> QED
    BY <2>1, <2>2, HeadGone
<1>11. ASSUME Connected
       PROVE  ReaderInv'
  <2> DEFINE c == Head(queue).con
  <2>1. /\ queue # <<>> /\ Head(queue).op = "connected" /\ Answer(c, "open")
        /\ StartRead(readBuf, Tail(queue))
    BY <1>11 DEF Connected, Ready
  <2>2. c \in Connections /\ outcome[c] = "asked"
    BY <2>1, HeadType DEF Owes, DueHandler
  <2>3. Opened' = Opened \cup {c} /\ c \notin Opened
    BY <2>1, <2>2 DEF Opened, Answer, IInv, DueInv
  <2>4. Cardinality(Opened') = Cardinality(Opened) + 1 /\ Cardinality(Opened) \in Nat
    BY <2>3, OpenedType, FS_AddElement
  <2>5. /\ Tail(queue) \in Seq(Expected) /\ reads \in Nat /\ Count(Tail(queue)) \in Nat
        /\ Count(queue) = Count(Tail(queue))
    BY <2>1, HeadCounted
  <2>6. Count(queue') + reads' \in {Count(Tail(queue)) + reads, Count(Tail(queue)) + reads + 1}
    BY <2>1, <2>5, CountStarted
  <2>7. Count(queue') + reads' <= Cardinality(Opened')
    BY <2>4, <2>5, <2>6 DEF ReaderInv
  <2> QED
    BY <2>7 DEF ReaderInv
<1>12. ASSUME OnRead
       PROVE  ReaderInv'
  <2>1. queue # <<>> /\ Head(queue).op = "read" /\ UNCHANGED outcome
    BY <1>12 DEF OnRead, Ready
  <2>2. PICK buf : StartRead(buf, Tail(queue))
    BY <1>12, OnReadStarts
  <2>3. /\ Tail(queue) \in Seq(Expected) /\ reads \in Nat /\ Count(Tail(queue)) \in Nat
        /\ Count(queue) = Count(Tail(queue)) + 1
    BY <2>1, HeadCounted
  <2>4. Count(queue') + reads' \in {Count(Tail(queue)) + reads, Count(Tail(queue)) + reads + 1}
    BY <2>2, <2>3, CountStarted
  <2>5. \/ Count(queue') + reads' = Count(queue) + reads
        \/ Count(queue') + reads' = Count(queue) + reads - 1
    BY <2>3, <2>4
  <2>6. Opened' = Opened
    BY <2>1 DEF Opened
  <2> QED
    BY <2>5, <2>6, NoMoreReads
<1>13. ASSUME OnReadError \/ ExecuteSend
       PROVE  ReaderInv'
  <2>1. queue # <<>> /\ queue' = Tail(queue) /\ UNCHANGED <<reads, outcome>>
    BY <1>13 DEF OnReadError, ExecuteSend, Ready
  <2>2. Refused(0).op # "read"
    BY DEF Refused
  <2> QED
    BY <2>1, <2>2, HeadGone
<1>14. ASSUME ExecuteDisconnect
       PROVE  ReaderInv'
  <2>1. CASE CloseSocket
    <3>1. Opened' = Opened
      BY <1>14 DEF ExecuteDisconnect, Opened
    <3> QED
      BY <1>14, <2>1, <3>1, ReadsClosed DEF ExecuteDisconnect, Ready
  <2>2. CASE queue' = Tail(queue) /\ UNCHANGED sockVars
    <3>1. queue # <<>> /\ UNCHANGED <<reads, outcome>>
      BY <1>14, <2>2 DEF ExecuteDisconnect, Ready
    <3>2. Refused(0).op # "read"
      BY DEF Refused
    <3> QED
      BY <2>2, <3>1, <3>2, HeadGone
  <2> QED
    BY <1>14, <2>1, <2>2 DEF ExecuteDisconnect
<1>15. Establish \/ Arrive \/ ServerCloses \/ ServiceEnds \/ UNCHANGED vars
          => Same
  BY DEF Establish, Arrive, ServerCloses, ServiceEnds
<1> HIDE DEF Same
<1> QED
  BY <1>1, <1>2, <1>3, <1>4, <1>5, <1>6, <1>7, <1>9, <1>10, <1>11, <1>12, <1>13, <1>14,
     <1>15 DEF Next, System, ServiceThread, Over

\* It holds in every state.
LEMMA ReadersInvariant == Spec => []ReaderInv
<1>1. Init => ReaderInv
  <2> SUFFICES ASSUME Init
               PROVE  ReaderInv
    OBVIOUS
  <2>1. ReadsIn(queue) = {} /\ reads = 0
    BY DEF Init, ReadsIn
  <2>2. Count(queue) = 0
    BY <2>1, FS_EmptySet DEF Count
  <2> QED
    BY <2>1, <2>2, OpenedType DEF ReaderInv
<1>2. IInv /\ ReaderInv /\ [Next]_vars => ReaderInv'
  BY NextReaderInv
<1> QED
  BY <1>1, <1>2, Invariance, PTL DEF Spec

\* There are never more chains of reads on the one buffer, waiting for data or
\* for their handler to be executed, than connect()s that have succeeded: closing
\* a connection, opening the next one and joining one that is open leave none
\* behind and make none but the one that is due.
THEOREM OneChainPerConnect == Spec => [](Count(queue) + reads <= Cardinality(Opened))
  BY ReadersInvariant, PTL DEF ReaderInv

\* A read takes the space of another one only after two connect()s have
\* succeeded, on one connection or on two: a page that connects once, or whose
\* other connect()s all fail, never gets there, whatever it sends and disconnects.
TwoOpened == \E c, d \in Connections : c # d /\ outcome[c] = "open" /\ outcome[d] = "open"

THEOREM BrokenNeedsTwoConnects == Spec => [](phase = "broken" => TwoOpened)
<1>1. Init => ~ (phase = "broken")
  BY DEF Init
<1>2. ASSUME IsFiniteSet(Opened'), Cardinality(Opened') \in Nat, Cardinality(Opened') >= 2
      PROVE  TwoOpened'
  <2>1. Opened' # {} /\ \A x : Opened' # {x}
    <3>1. Cardinality(Opened') # 0 /\ Cardinality(Opened') # 1
      BY <1>2
    <3>2. Opened' # {}
      BY <3>1, FS_EmptySet
    <3>3. ASSUME NEW x, Opened' = {x}
          PROVE  FALSE
      <4>1. Cardinality({x}) = 1
        BY FS_Singleton
      <4> QED
        BY <3>1, <3>3, <4>1
    <3> QED
      BY <3>2, <3>3
  <2>2. PICK c \in Opened' : TRUE
    BY <2>1
  <2>3. PICK d \in Opened' : d # c
    BY <2>1, <2>2
  <2> QED
    BY <2>2, <2>3 DEF Opened, TwoOpened
<1>3. ASSUME IInv, ReaderInv, OnRead, Held(Tail(queue))
      PROVE  TwoOpened'
  <2>1. queue # <<>> /\ Head(queue).op = "read" /\ UNCHANGED outcome
    BY <1>3 DEF OnRead, Ready
  <2>2. /\ Tail(queue) \in Seq(Expected) /\ reads \in Nat /\ Count(Tail(queue)) \in Nat
        /\ Count(queue) = Count(Tail(queue)) + 1
    BY <1>3, <2>1, HeadCounted
  <2>3. Count(Tail(queue)) + reads >= 1
    BY <1>3, <2>2, HeldCounted
  <2>4. Opened' = Opened
    BY <2>1 DEF Opened
  <2>5. Cardinality(Opened) \in Nat /\ IsFiniteSet(Opened) /\ Cardinality(Opened) >= 2
    BY <1>3, <2>2, <2>3, OpenedType DEF ReaderInv
  <2> QED
    BY <1>2, <2>4, <2>5
<1>4. ASSUME IInv, ReaderInv, Connected, Held(Tail(queue))
      PROVE  TwoOpened'
  <2> DEFINE c == Head(queue).con
  <2>1. queue # <<>> /\ Head(queue).op = "connected" /\ Answer(c, "open")
    BY <1>4 DEF Connected, Ready
  <2>2. c \in Connections /\ outcome[c] = "asked"
    BY <1>4, <2>1, HeadType DEF Owes, DueHandler
  <2>3. Opened' = Opened \cup {c} /\ c \notin Opened
    BY <1>4, <2>1, <2>2 DEF Opened, Answer, IInv, DueInv
  <2>4. /\ Tail(queue) \in Seq(Expected) /\ reads \in Nat /\ Count(Tail(queue)) \in Nat
        /\ Count(queue) = Count(Tail(queue))
    BY <1>4, <2>1, HeadCounted
  <2>5. Count(Tail(queue)) + reads >= 1
    BY <1>4, <2>4, HeldCounted
  <2>6. /\ Cardinality(Opened) \in Nat /\ IsFiniteSet(Opened) /\ IsFiniteSet(Opened')
        /\ Cardinality(Opened') = Cardinality(Opened) + 1
    BY <2>3, OpenedType, FS_AddElement
  <2>7. Cardinality(Opened) >= 1
    BY <1>4, <2>4, <2>5, <2>6 DEF ReaderInv
  <2> HIDE DEF c
  <2> QED
    BY <1>2, <2>6, <2>7
<1>5. ASSUME phase = "broken", [Next]_vars
      PROVE  UNCHANGED outcome
  BY <1>5 DEF Next, ServiceThread, ResolveFailed, ResolvedClosed, ResolvedOpen, ResolvedAgain,
         ConnectFailed, Connected, OnRead, OnReadError, ExecuteSend, ExecuteDisconnect,
         ServiceEnds, Ready, Over, vars
<1>6. ASSUME phase # "broken", phase' = "broken", [Next]_vars
      PROVE  (OnRead \/ Connected) /\ Held(Tail(queue))
  <2>1. OnRead \/ Connected
    BY <1>6 DEF Next, System, ServiceThread, Over, Connect, Disconnect, Send, Quit, Resolve,
           Establish, ConnectCompletes, ReadCompletes, Arrive, ServerCloses, ResolveFailed,
           ResolvedClosed, ResolvedOpen, ResolvedAgain, ConnectFailed, OnReadError,
           ExecuteSend, ExecuteDisconnect, ServiceEnds, vars
  <2>2. PICK buf : StartRead(buf, Tail(queue))
    BY <2>1 DEF OnRead, Connected
  <2> QED
    BY <1>6, <2>1, <2>2 DEF StartRead
<1>7. IInv /\ ReaderInv /\ (phase = "broken" => TwoOpened) /\ [Next]_vars
         => (phase = "broken" => TwoOpened)'
  <2> SUFFICES ASSUME IInv, ReaderInv, phase = "broken" => TwoOpened, [Next]_vars,
                      phase' = "broken"
               PROVE  TwoOpened'
    OBVIOUS
  <2>1. CASE phase = "broken"
    BY <1>5, <2>1 DEF TwoOpened
  <2>2. CASE phase # "broken"
    BY <1>3, <1>4, <1>6, <2>2
  <2> QED
    BY <2>1, <2>2
<1> QED
  BY <1>1, <1>7, Invariance, ReadersInvariant, PTL DEF Spec
===============================================================================
