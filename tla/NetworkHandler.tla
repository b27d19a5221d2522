--------------------------- MODULE NetworkHandler ---------------------------
(***************************************************************************)
(* The lobby connection: NetworkHandler's slots, called by JavaScript on   *)
(* the GUI thread, its io_service with the one thread that executes the    *)
(* handlers, its resolver, its only socket and its only read buffer.       *)
(*                                                                         *)
(* A connect() has a number, and so has the connection it opens.  What the *)
(* server sends is cut into tokens, so that a line may arrive in two       *)
(* pieces: token n of a connection ends a line if n is odd.                *)
(***************************************************************************)
EXTENDS Integers, Sequences

CONSTANTS MaxConnects, MaxDisconnects, MaxSends, \* bounds on JavaScript's calls
          MaxTokens                 \* bound on the tokens of any two connections

ASSUME BoundsAssumption ==
    {MaxConnects, MaxDisconnects, MaxSends, MaxTokens} \subseteq Nat

VARIABLES
    resolving, \* the connect()s the resolver's own thread has yet to answer
    queue,     \* io_service: the handlers that are ready, in order
    sock,      \* "closed" or "open"
    conn,      \* the connection the open socket was last connected for, or 0
    net,       \* the state of the open socket's connection in the kernel
    confirmed, \* a connect() on the connected socket has told the kernel so
    connOp,    \* the connect() with an asynchronous operation pending, or 0
    reads,     \* how many reads are pending on the socket
    unread,    \* the tokens the kernel has received on it
    readBuf,   \* the stream buffer
    line,      \* history: the tokens of the last ReadEvent that had any
    outcome,   \* history: what became of each connect()
    written,   \* history: the last message written and its connection
    asked,     \* history: how many connect()s preceded each send()
    connects, disconnects, sends, \* how often each slot was called
    arrived,   \* how many tokens of each connection have arrived
    phase      \* "up", "quit", "lateQuit", "down" or "broken"

jsVars   == <<connects, disconnects, sends, asked>>
sockVars == <<sock, conn, net, confirmed, connOp, reads, unread>>
bufVars  == <<readBuf, line>>
vars     == <<resolving, queue, sockVars, bufVars, outcome, written, jsVars,
              arrived, phase>>

Connections == 1..MaxConnects
Tokens == [con : Connections, n : 1..MaxTokens]

Handlers ==
    [op : {"resolved", "connected"}, con : Connections, ok : BOOLEAN]
        \cup [op : {"read"}, ok : BOOLEAN, data : Seq(Tokens)]
        \cup [op : {"send"}, msg : 1..MaxSends]
        \cup [op : {"disconnect"}]

TypeOK ==
    /\ resolving \in Seq(Connections)
    /\ queue \in Seq(Handlers)
    /\ sock \in {"closed", "open"}
    /\ conn \in 0..MaxConnects
    /\ net \in {"none", "syn", "up", "fin", "error"}
    /\ confirmed \in BOOLEAN
    /\ connOp \in 0..MaxConnects
    /\ reads \in Nat
    /\ unread \in Seq(Tokens)
    /\ readBuf \in Seq(Tokens)
    /\ line \in Seq(Tokens)
    /\ outcome \in [Connections -> {"none", "asked", "open", "failed", "twice"}]
    /\ written \in [msg : 0..MaxSends, con : 0..MaxConnects]
    /\ asked \in [1..MaxSends -> 0..MaxConnects]
    /\ connects \in 0..MaxConnects
    /\ disconnects \in 0..MaxDisconnects
    /\ sends \in 0..MaxSends
    /\ arrived \in [Connections -> 0..MaxTokens]
    /\ phase \in {"up", "quit", "lateQuit", "down", "broken"}

Init ==
    /\ resolving = <<>>
    /\ queue = <<>>
    /\ sock = "closed"
    /\ conn = 0
    /\ net = "none" /\ confirmed = FALSE
    /\ connOp = 0
    /\ reads = 0
    /\ unread = <<>>
    /\ readBuf = <<>>
    /\ line = <<>>
    /\ outcome = [c \in Connections |-> "none"]
    /\ written = [msg |-> 0, con |-> 0]
    /\ asked = [m \in 1..MaxSends |-> 0]
    /\ connects = 0 /\ disconnects = 0 /\ sends = 0
    /\ arrived = [c \in Connections |-> 0]
    /\ phase = "up"

\* One answer is due to each connect().
Answer(c, result) ==
    outcome' = [outcome EXCEPT ![c] = IF @ = "asked" THEN result ELSE "twice"]

-----------------------------------------------------------------------------
(* The slots.  What is posted is executed by the service thread, in order. *)

Connect ==
    /\ phase = "up"
    /\ connects < MaxConnects
    /\ connects' = connects + 1
    /\ resolving' = Append(resolving, connects + 1)
    /\ outcome' = [outcome EXCEPT ![connects + 1] = "asked"]
    /\ UNCHANGED <<queue, sockVars, bufVars, written, disconnects, sends, asked,
                   arrived, phase>>

Disconnect ==
    /\ phase = "up"
    /\ disconnects < MaxDisconnects
    /\ disconnects' = disconnects + 1
    /\ queue' = Append(queue, [op |-> "disconnect"])
    /\ UNCHANGED <<resolving, sockVars, bufVars, outcome, written, connects, sends,
                   asked, arrived, phase>>

\* Mutation of Send: the message overtakes what is in the queue.
SendDispatched ==
    /\ phase = "up"
    /\ sends < MaxSends
    /\ sends' = sends + 1
    /\ asked' = [asked EXCEPT ![sends + 1] = connects]
    /\ queue' = <<[op |-> "send", msg |-> sends + 1]>> \o queue
    /\ UNCHANGED <<resolving, sockVars, bufVars, outcome, written, connects,
                   disconnects, arrived, phase>>

Send ==
    /\ phase = "up"
    /\ sends < MaxSends
    /\ sends' = sends + 1
    /\ asked' = [asked EXCEPT ![sends + 1] = connects]
    /\ queue' = Append(queue, [op |-> "send", msg |-> sends + 1])
    /\ UNCHANGED <<resolving, sockVars, bufVars, outcome, written, connects,
                   disconnects, arrived, phase>>

\* Mutation of Quit: the connection is not closed.
QuitConnected ==
    /\ phase = "up"
    /\ phase' = IF resolving = <<>> THEN "quit" ELSE "lateQuit"
    /\ UNCHANGED <<resolving, queue, sockVars, bufVars, outcome, written, jsVars, arrived>>

\* ~LobbyInterface disconnects, ~NetworkHandler takes the service's work
\* away and joins its thread.
Quit ==
    /\ phase = "up"
    /\ phase' = IF resolving = <<>> THEN "quit" ELSE "lateQuit"
    /\ queue' = Append(queue, [op |-> "disconnect"])
    /\ UNCHANGED <<resolving, sockVars, bufVars, outcome, written, jsVars, arrived>>

-----------------------------------------------------------------------------
(* The socket.                                                             *)

\* Mutation of CloseSocket: the number of the connection is counted down.
CloseSocketCounted ==
    /\ queue' = Tail(queue) \o [i \in 1..reads |-> [op |-> "read", ok |-> FALSE, data |-> <<>>]]
    /\ sock' = "closed" /\ conn' = conn - 1 /\ net' = "none" /\ confirmed' = FALSE
    /\ connOp' = 0 /\ reads' = 0 /\ unread' = <<>>

\* What close() makes ready: the operations pending on the socket, aborted.
Aborted ==
    [i \in 1..reads |-> [op |-> "read", ok |-> FALSE, data |-> <<>>]]
        \o (IF connOp = 0 THEN <<>>
            ELSE <<[op |-> "connected", con |-> connOp, ok |-> FALSE]>>)

\* socket.close(), executed by the handler at the head of the queue.
CloseSocket ==
    /\ queue' = Tail(queue) \o Aborted
    /\ sock' = "closed" /\ conn' = 0 /\ net' = "none" /\ confirmed' = FALSE
    /\ connOp' = 0 /\ reads' = 0 /\ unread' = <<>>

LineEnds(buf) == {i \in DOMAIN buf : buf[i].n % 2 = 1}

\* A read has space in the buffer for what it gets: one that is pending, or one
\* that has got something but whose handler waits in the queue.
Held(q) ==
    \/ reads # 0
    \/ \E i \in DOMAIN q : q[i].op = "read" /\ q[i].ok /\ q[i].data # <<>>

\* async_read_until(): with a line in the buffer it is ready at once.  Otherwise
\* it prepares space in the buffer, which takes away the space another read has:
\* what that one gets, or has got, is lost or overwrites something else.  On a
\* closed socket it is ready at once, with an error.
StartRead(buf, rest) ==
    IF LineEnds(buf) # {}
    THEN /\ queue' = Append(rest, [op |-> "read", ok |-> TRUE, data |-> <<>>])
         /\ UNCHANGED <<reads, phase>>
    ELSE IF Held(rest)
    THEN /\ phase' = "broken"
         /\ queue' = rest
         /\ UNCHANGED reads
    ELSE /\ reads' = IF sock = "open" THEN 1 ELSE 0
         /\ queue' = IF sock = "open" THEN rest
                     ELSE Append(rest, [op |-> "read", ok |-> FALSE, data |-> <<>>])
         /\ UNCHANGED phase

-----------------------------------------------------------------------------
(* The handlers, executed by the service thread.                           *)

Ready(op) == phase # "broken" /\ queue # <<>> /\ Head(queue).op = op

\* Mutation of ResolveFailed: the missing return, after which the handler goes
\* on to connect to the host it does not have.
ResolveFailedContinues ==
    /\ Ready("resolved") /\ ~ Head(queue).ok
    /\ queue' = Append(Tail(queue) \o Aborted,
                       [op |-> "connected", con |-> Head(queue).con, ok |-> FALSE])
    /\ sock' = "open" /\ net' = "error" /\ conn' = Head(queue).con /\ confirmed' = FALSE
    /\ connOp' = 0 /\ reads' = 0 /\ unread' = <<>>
    /\ Answer(Head(queue).con, "failed")
    /\ UNCHANGED <<resolving, bufVars, written, jsVars, arrived, phase>>

\* The host could not be resolved.
ResolveFailed ==
    /\ Ready("resolved") /\ ~ Head(queue).ok
    /\ CloseSocket
    /\ Answer(Head(queue).con, "failed")
    /\ UNCHANGED <<resolving, bufVars, written, jsVars, arrived, phase>>

\* socket.async_connect() opens the socket if it is closed, and then, as on a
\* socket whose connection failed, starts to connect, or fails at once.
ResolvedClosed ==
    /\ Ready("resolved") /\ Head(queue).ok
    /\ sock = "closed" \/ (net = "error" /\ connOp = 0)
    /\ sock' = "open"
    /\ conn' = Head(queue).con /\ confirmed' = FALSE
    /\ \/ /\ net' = "syn" /\ connOp' = Head(queue).con
          /\ queue' = Tail(queue)
       \/ /\ net' = "error" /\ UNCHANGED connOp
          /\ queue' = Append(Tail(queue), [op |-> "connected", con |-> Head(queue).con,
                                           ok |-> FALSE])
    /\ UNCHANGED <<resolving, reads, unread, bufVars, outcome, written, jsVars,
                   arrived, phase>>

\* ... on an open socket it fails: it is connected, or already connecting ...
ResolvedOpen ==
    /\ Ready("resolved") /\ Head(queue).ok
    /\ sock = "open"
    /\ queue' = Append(Tail(queue), [op |-> "connected", con |-> Head(queue).con,
                                     ok |-> FALSE])
    /\ UNCHANGED <<resolving, sockVars, bufVars, outcome, written, jsVars, arrived, phase>>

\* ... but after a connection that was established meanwhile Linux holds the
\* socket for connecting until connect() is called again, which then succeeds.
ResolvedAgain ==
    /\ Ready("resolved") /\ Head(queue).ok
    /\ net \in {"up", "fin"} /\ ~ confirmed
    /\ confirmed' = TRUE
    /\ queue' = Append(Tail(queue), [op |-> "connected", con |-> Head(queue).con,
                                     ok |-> TRUE])
    /\ UNCHANGED <<resolving, sock, conn, net, connOp, reads, unread, bufVars, outcome,
                   written, jsVars, arrived, phase>>

\* Mutation of ConnectFailed: nothing is said of an aborted connect().
ConnectFailedSilent ==
    /\ Ready("connected") /\ ~ Head(queue).ok
    /\ CloseSocket
    /\ UNCHANGED <<resolving, bufVars, outcome, written, jsVars, arrived, phase>>

\* Also of a connect() that was aborted: there is no test for that.
ConnectFailed ==
    /\ Ready("connected") /\ ~ Head(queue).ok
    /\ CloseSocket
    /\ Answer(Head(queue).con, "failed")
    /\ UNCHANGED <<resolving, bufVars, written, jsVars, arrived, phase>>

\* Reading starts, from whatever the socket is by now.
Connected ==
    /\ Ready("connected") /\ Head(queue).ok
    /\ StartRead(readBuf, Tail(queue))
    /\ Answer(Head(queue).con, "open")
    /\ UNCHANGED <<resolving, sock, conn, net, confirmed, connOp, unread, bufVars, written,
                   jsVars, arrived>>

\* The number of tokens in the first line of the buffer.
FirstLine(buf) == CHOOSE i \in LineEnds(buf) : \A j \in LineEnds(buf) : i <= j

\* Mutation of OnRead: all that is in the buffer is posted, lines are consumed.
OnReadAll ==
    /\ Ready("read") /\ Head(queue).ok
    /\ LET buf  == readBuf \o Head(queue).data
           rest == IF LineEnds(buf) = {} THEN buf
                   ELSE SubSeq(buf, FirstLine(buf) + 1, Len(buf))
       IN /\ readBuf' = rest
          /\ line' = buf
          /\ StartRead(rest, Tail(queue))
    /\ UNCHANGED <<resolving, sock, conn, net, confirmed, connOp, unread, outcome, written,
                   jsVars, arrived>>

\* A read completes without an error: onRead posts the first line of the buffer
\* and reads on.  If there is none, async_read_until() reads on itself, unless it
\* had seen one that another onRead has taken since: then the rest is posted.
OnRead ==
    /\ Ready("read") /\ Head(queue).ok
    /\ LET got == Head(queue).data
           buf == readBuf \o got
           n   == IF LineEnds(buf) # {} THEN FirstLine(buf)
                  ELSE IF got # <<>> THEN 0
                  ELSE Len(buf)
       IN /\ readBuf' = SubSeq(buf, n + 1, Len(buf))
          /\ line' = IF n = 0 THEN line ELSE SubSeq(buf, 1, n)
          /\ StartRead(readBuf', Tail(queue))
    /\ UNCHANGED <<resolving, sock, conn, net, confirmed, connOp, unread, outcome, written,
                   jsVars, arrived>>

\* An error, or the end of the stream, is logged, if that.
OnReadError ==
    /\ Ready("read") /\ ~ Head(queue).ok
    /\ queue' = Tail(queue)
    /\ UNCHANGED <<resolving, sockVars, bufVars, outcome, written, jsVars, arrived, phase>>

\* asio::write() waits for a connection that is being established, and an
\* error is only logged.
ExecuteSend ==
    /\ Ready("send")
    /\ net # "syn"
    /\ queue' = Tail(queue)
    /\ \/ /\ net \in {"up", "fin"}
          /\ written' = [msg |-> Head(queue).msg, con |-> conn]
       \/ /\ net # "up"
          /\ UNCHANGED written
    /\ UNCHANGED <<resolving, sockVars, bufVars, outcome, jsVars, arrived, phase>>

ExecuteDisconnect ==
    /\ Ready("disconnect")
    /\ IF sock = "open" THEN CloseSocket
       ELSE queue' = Tail(queue) /\ UNCHANGED sockVars
    /\ UNCHANGED <<resolving, bufVars, outcome, written, jsVars, arrived, phase>>

\* service.run() returns, the join succeeds.
ServiceEnds ==
    /\ phase \in {"quit", "lateQuit"}
    /\ queue = <<>> /\ resolving = <<>> /\ connOp = 0 /\ reads = 0
    /\ phase' = "down"
    /\ UNCHANGED <<resolving, queue, sockVars, bufVars, outcome, written, jsVars, arrived>>

ServiceThread ==
    \/ ResolveFailed \/ ResolvedClosed \/ ResolvedOpen \/ ResolvedAgain
    \/ ConnectFailed \/ Connected \/ OnRead \/ OnReadError
    \/ ExecuteSend \/ ExecuteDisconnect \/ ServiceEnds

-----------------------------------------------------------------------------
(* The resolver, the kernel, the server, the reactor.                      *)

Resolve ==
    /\ resolving # <<>>
    /\ \E ok \in BOOLEAN :
          queue' = Append(queue, [op |-> "resolved", con |-> Head(resolving), ok |-> ok])
    /\ resolving' = Tail(resolving)
    /\ UNCHANGED <<sockVars, bufVars, outcome, written, jsVars, arrived, phase>>

\* The three-way handshake ends, one way or the other.
Establish ==
    /\ net = "syn"
    /\ net' \in {"up", "error"}
    /\ UNCHANGED <<resolving, queue, sock, conn, confirmed, connOp, reads, unread, bufVars, outcome,
                   written, jsVars, arrived, phase>>

Arrive ==
    /\ net = "up"
    /\ arrived[conn] < MaxTokens
    /\ \A c \in Connections \ {conn} : arrived[c] + arrived[conn] < MaxTokens
    /\ arrived' = [arrived EXCEPT ![conn] = @ + 1]
    /\ unread' = Append(unread, [con |-> conn, n |-> arrived[conn] + 1])
    /\ UNCHANGED <<resolving, queue, sock, conn, net, confirmed, connOp, reads, bufVars,
                   outcome, written, jsVars, phase>>

ServerCloses ==
    /\ net = "up"
    /\ net' = "fin"
    /\ UNCHANGED <<resolving, queue, sock, conn, confirmed, connOp, reads, unread, bufVars, outcome,
                   written, jsVars, arrived, phase>>

ConnectCompletes ==
    /\ connOp # 0
    /\ net # "syn"
    /\ queue' = Append(queue, [op |-> "connected", con |-> connOp, ok |-> net # "error"])
    /\ connOp' = 0
    /\ UNCHANGED <<resolving, sock, conn, net, confirmed, reads, unread, bufVars, outcome,
                   written, jsVars, arrived, phase>>

\* A pending read takes what there is, or learns that there will be nothing.
ReadCompletes ==
    /\ reads > 0
    /\ unread # <<>> \/ net \in {"fin", "error"}
    /\ queue' = Append(queue, [op |-> "read", ok |-> unread # <<>>, data |-> unread])
    /\ reads' = reads - 1
    /\ unread' = <<>>
    /\ UNCHANGED <<resolving, sock, conn, net, confirmed, connOp, bufVars, outcome, written,
                   jsVars, arrived, phase>>

System == Resolve \/ Establish \/ ConnectCompletes \/ ReadCompletes

\* The program has ended, or its behaviour is undefined.
Over == phase \in {"down", "broken"} /\ UNCHANGED vars

-----------------------------------------------------------------------------
Next ==
    \/ phase # "broken" /\ (Connect \/ Disconnect \/ Send \/ Quit \/ System
                              \/ Arrive \/ ServerCloses)
    \/ ServiceThread \/ Over

Spec == Init /\ [][Next]_vars

\* Names are resolved or given up, connections established or given up, what is
\* complete is queued, and the service thread executes what is ready.  The server
\* need not do anything, nor JavaScript.
Fairness == WF_vars(phase # "broken" /\ System) /\ WF_vars(ServiceThread)

FairSpec == Spec /\ Fairness

-----------------------------------------------------------------------------
(* Properties.                                                             *)

Before(s, t) == s.con < t.con \/ (s.con = t.con /\ s.n < t.n)

\* What the page is given is in the order it was sent in, nothing is given
\* twice, and no line of an old connection comes after one of a later one,
\* whatever was left in the buffer when connections followed one another.
LinesInOrder ==
    [][line' # line =>
          /\ \A i, j \in DOMAIN line' : i < j => Before(line'[i], line'[j])
          /\ line # <<>> => Before(line[Len(line)], line'[1])]_vars

\* Messages are written in the order of the send()s, each once, and never to
\* a connection that was asked for only after the send().
SendsInOrder ==
    [][written' # written =>
          /\ written'.msg > written.msg
          /\ written'.con \in 1..asked[written'.msg]]_vars

\* No connect() is answered twice, though connections are opened, aborted
\* and closed by the handlers of other ones.
AnsweredOnce == \A c \in Connections : outcome[c] # "twice"

\* Every connect() comes to an end, so that again and again none is waiting: an
\* ErrorEvent is posted for it, or reading begins, which for one that passed on an
\* open socket is reading from the connection there was.
ConnectsEnd ==
    []<>(phase = "broken" \/ \A c \in Connections : outcome[c] # "asked")

\* The program ends, if nothing was being resolved when it was closed.
QuitEnds == phase = "quit" ~> phase \in {"down", "broken"}
=============================================================================
