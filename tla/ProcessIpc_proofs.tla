------------------------- MODULE ProcessIpc_proofs --------------------------
(***************************************************************************)
(* Theorems about the programs of Lab 9, for any choice of them and any    *)
(* number of runs: what they leave behind, what they find, and who is      *)
(* answered.                                                               *)
(***************************************************************************)
EXTENDS ProcessIpc, FiniteSums

\* What a call of a program may look like; i is its place in the script of p
\* in the program g.
GoodCall(g, p, i, c) ==
  /\ c[1] \in {"dup", "open"} => c[2] \in Channels \X {"r", "w"}
  /\ c[1] \in {"write", "read", "readAll"} => c[2] \in Channels
  /\ c[1] = "msgsnd" => c[2] \in {1, 2}
  /\ c[1] \in {"bind", "listen", "receive"} => c[2] \in Paths
  /\ c[1] = "bind" => i = 2
  /\ c[1] = "connect" => g = "c2" /\ p \in Clients /\ i = 1
  /\ c[1] = "write" /\ g = "c2" => c[2] \in {"up", "up2"}
  /\ c[1] = "sendTo" => p \in Clients /\ c[2] = "path"
  /\ c[1] = "receive" /\ p = "server" => c[2] = "path"
  /\ c[1] \in {"accept", "readPeer", "writePeer", "closePeer", "reply"} => p = "server"
  /\ c[1] = "again" => g = "c3" /\ p = "server" /\ c[2] = 3
  /\ c[1] \in {"readPeer", "writePeer", "closePeer"} => g = "c2" /\ i > 4
  /\ c[1] = "reply" => g = "c3" /\ i = 4
  /\ c[1] \in {"store", "append"} => g = "b1"
  /\ c[1] = "msgsnd" => g \in {"d1", "d2"}
  /\ c[1] = "bind" => g \in {"c2", "c3"} /\ (g = "c2" => p = "server")
  /\ c[1] \in {"write", "connect", "sendTo"} => ~(g \in {"b1", "d1", "d2"} /\ p = "parent")
  /\ c[1] = "writePeer" => i = 6
  /\ c[1] \in {"write", "connect", "sendTo"} => p # "server"

Own == [server |-> "path", k1 |-> "path1", k2 |-> "path2"]
GoodScript(g, p, s) ==
  /\ Len(s) \in Nat
  /\ \A i \in 1 .. Len(s) : GoodCall(g, p, i, s[i])
  /\ Len(s) >= 2 /\ s[2][1] = "bind" =>
       p \in {"server", "k1", "k2"} /\ s[1] = <<"unlink", Own[p]>> /\ s[2] = <<"bind", Own[p]>>

LEMMA GoodPipes ==
  /\ DOMAIN BidirectionalPipe = {"parent", "child"}
  /\ GoodScript("a1", "parent", BidirectionalPipe["parent"]) /\ GoodScript("a1", "child", BidirectionalPipe["child"])
  BY SMTT(30) DEF GoodScript, GoodCall, BidirectionalPipe, DownR, DownW, UpR, UpW, Channels, Own

LEMMA GoodPipeline ==
  /\ DOMAIN ShellPipeline = {"parent", "ls", "wc"}
  /\ GoodScript("a2", "parent", ShellPipeline["parent"]) /\ GoodScript("a2", "ls", ShellPipeline["ls"])
  /\ GoodScript("a2", "wc", ShellPipeline["wc"])
  BY DEF GoodScript, GoodCall, ShellPipeline, ShellPipelineParent, DownR, DownW, Channels, Own

LEMMA GoodFifos ==
  /\ DOMAIN TwoFifos = {"parent", "child"}
  /\ GoodScript("a3", "parent", TwoFifos["parent"]) /\ GoodScript("a3", "child", TwoFifos["child"])
  BY DEF GoodScript, GoodCall, TwoFifos, DownR, DownW, UpR, UpW, Channels, Own

LEMMA GoodMemory ==
  /\ DOMAIN SharedMemory = {"parent", "child"}
  /\ GoodScript("b1", "parent", SharedMemory["parent"]) /\ GoodScript("b1", "child", SharedMemory["child"])
  BY DEF GoodScript, GoodCall, SharedMemory, SharedMemoryParent, Own

LEMMA GoodPair ==
  /\ DOMAIN SocketPair = {"parent", "child"}
  /\ GoodScript("c1", "parent", SocketPair["parent"]) /\ GoodScript("c1", "child", SocketPair["child"])
  BY SMTT(30) DEF GoodScript, GoodCall, SocketPair, DownR, DownW, UpR, UpW, Channels, Own

LEMMA GoodStreams ==
  /\ DOMAIN StreamSockets = {"server", "k1", "k2"}
  /\ GoodScript("c2", "server", StreamSockets["server"]) /\ GoodScript("c2", "k1", StreamSockets["k1"])
  /\ GoodScript("c2", "k2", StreamSockets["k2"])
  BY DEF GoodScript, GoodCall, StreamSockets, StreamServer, StreamClient, Channels, Paths, Clients, Own

LEMMA GoodDatagrams ==
  /\ DOMAIN Datagrams = {"server", "k1", "k2"}
  /\ GoodScript("c3", "server", Datagrams["server"]) /\ GoodScript("c3", "k1", Datagrams["k1"])
  /\ GoodScript("c3", "k2", Datagrams["k2"])
  BY DEF GoodScript, GoodCall, Datagrams, DatagramClient, Paths, Clients, Own

LEMMA GoodQueue ==
  /\ DOMAIN MessageQueue = {"parent", "child"}
  /\ GoodScript("d1", "parent", MessageQueue["parent"]) /\ GoodScript("d1", "child", MessageQueue["child"])
  BY DEF GoodScript, GoodCall, MessageQueue, Own

LEMMA GoodReceive ==
  /\ DOMAIN NonBlockingReceive = {"parent", "child"}
  /\ GoodScript("d2", "parent", NonBlockingReceive["parent"]) /\ GoodScript("d2", "child", NonBlockingReceive["child"])
  BY DEF GoodScript, GoodCall, NonBlockingReceive, NonBlockingReceiveParent, Own

LEMMA ProgramsAre ==
  /\ DOMAIN Programs = {"a1", "a2", "a3", "b1", "c1", "c2", "c3", "d1", "d2"}
  /\ Programs["a1"] = BidirectionalPipe /\ Programs["a2"] = ShellPipeline /\ Programs["a3"] = TwoFifos
  /\ Programs["b1"] = SharedMemory /\ Programs["c1"] = SocketPair /\ Programs["c2"] = StreamSockets
  /\ Programs["c3"] = Datagrams /\ Programs["d1"] = MessageQueue /\ Programs["d2"] = NonBlockingReceive
  BY DEF Programs

LEMMA GoodPrograms ==
  ASSUME NEW g \in DOMAIN Programs
  PROVE  /\ DOMAIN Programs[g] \subseteq Processes
         /\ \A p \in DOMAIN Programs[g] : GoodScript(g, p, Programs[g][p])
<1> USE DEF Processes
<1>1. CASE g \in {"a1", "a2", "a3"}
  BY <1>1, ProgramsAre, GoodPipes, GoodPipeline, GoodFifos
<1>2. CASE g \in {"b1", "c1", "c2"}
  BY <1>2, ProgramsAre, GoodMemory, GoodPair, GoodStreams
<1>3. CASE g \in {"c3", "d1", "d2"}
  BY <1>3, ProgramsAre, GoodDatagrams, GoodQueue, GoodReceive
<1> QED  BY <1>1, <1>2, <1>3, ProgramsAre

-----------------------------------------------------------------------------
\* What p does at a call of this operation.
Performs(p, op) ==
  /\ (op = "close" => CloseEnds(p)) /\ (op = "dup" => Duplicate(p))
  /\ (op = "open" => OpenFifo(p)) /\ (op = "opened" => OpenedFifo(p))
  /\ (op = "write" => Write(p)) /\ (op = "read" => Read(p))
  /\ (op = "readAll" => ReadAll(p)) /\ (op = "wait" => WaitForChild(p))
  /\ (op = "sleep" => Sleep(p)) /\ (op = "store" => StoreMemory(p))
  /\ (op = "append" => AppendMemory(p)) /\ (op = "fetch" => FetchMemory(p))
  /\ (op = "remove" => RemoveObject(p)) /\ (op = "msgsnd" => SendMessage(p))
  /\ (op = "msgrcv" => ReceiveMessage(p)) /\ (op = "tryMsgrcv" => TryReceiveMessage(p))
  /\ (op = "unlink" => Unlink(p)) /\ (op = "bind" => Bind(p))
  /\ (op = "listen" => Listen(p)) /\ (op = "connect" => Connect(p))
  /\ (op = "accept" => Accept(p)) /\ (op = "readPeer" => ReadPeer(p))
  /\ (op = "writePeer" => WritePeer(p)) /\ (op = "closePeer" => ClosePeer(p))
  /\ (op = "closeListener" => CloseListener(p)) /\ (op = "sendTo" => SendTo(p))
  /\ (op = "receive" => ReceiveFrom(p)) /\ (op = "reply" => Reply(p))
  /\ (op = "again" => Again(p))

\* A step of a process ends it, or performs the call its script names.
LEMMA StepPerforms ==
  ASSUME NEW p, Step(p)
  PROVE  /\ status[p] = "running" /\ UNCHANGED <<run, program, killed, spoiled>>
         /\ \/ pc[p] > Len(Script(p)) /\ Exit(p)
            \/ pc[p] <= Len(Script(p)) /\ Performs(p, Script(p)[pc[p]][1])
<1>1. UNCHANGED <<run, program, killed, spoiled>>
  BY DEF Step
<1>2. CASE Exit(p)
  BY <1>1, <1>2 DEF Exit
<1>3. CASE CloseEnds(p)
  BY <1>1, <1>3 DEF CloseEnds, At, Performs
<1>4. CASE Duplicate(p)
  BY <1>1, <1>4 DEF Duplicate, At, Performs
<1>5. CASE OpenFifo(p)
  BY <1>1, <1>5 DEF OpenFifo, At, Performs
<1>6. CASE OpenedFifo(p)
  BY <1>1, <1>6 DEF OpenedFifo, At, Performs
<1>7. CASE Write(p)
  BY <1>1, <1>7 DEF Write, At, Performs
<1>8. CASE Read(p)
  BY <1>1, <1>8 DEF Read, At, Performs
<1>9. CASE ReadAll(p)
  BY <1>1, <1>9 DEF ReadAll, At, Performs
<1>10. CASE WaitForChild(p)
  BY <1>1, <1>10 DEF WaitForChild, At, Performs
<1>11. CASE Sleep(p)
  BY <1>1, <1>11 DEF Sleep, At, Performs
<1>12. CASE StoreMemory(p)
  BY <1>1, <1>12 DEF StoreMemory, At, Performs
<1>13. CASE AppendMemory(p)
  BY <1>1, <1>13 DEF AppendMemory, At, Performs
<1>14. CASE FetchMemory(p)
  BY <1>1, <1>14 DEF FetchMemory, At, Performs
<1>15. CASE RemoveObject(p)
  BY <1>1, <1>15 DEF RemoveObject, At, Performs
<1>16. CASE SendMessage(p)
  BY <1>1, <1>16 DEF SendMessage, At, Performs
<1>17. CASE ReceiveMessage(p)
  BY <1>1, <1>17 DEF ReceiveMessage, At, Performs
<1>18. CASE TryReceiveMessage(p)
  BY <1>1, <1>18 DEF TryReceiveMessage, At, Performs
<1>19. CASE Unlink(p)
  BY <1>1, <1>19 DEF Unlink, At, Performs
<1>20. CASE Bind(p)
  BY <1>1, <1>20 DEF Bind, At, Performs
<1>21. CASE Listen(p)
  BY <1>1, <1>21 DEF Listen, At, Performs
<1>22. CASE Connect(p)
  BY <1>1, <1>22 DEF Connect, At, Performs
<1>23. CASE Accept(p)
  BY <1>1, <1>23 DEF Accept, At, Performs
<1>24. CASE ReadPeer(p)
  BY <1>1, <1>24 DEF ReadPeer, At, Performs
<1>25. CASE WritePeer(p)
  BY <1>1, <1>25 DEF WritePeer, At, Performs
<1>26. CASE ClosePeer(p)
  BY <1>1, <1>26 DEF ClosePeer, At, Performs
<1>27. CASE CloseListener(p)
  BY <1>1, <1>27 DEF CloseListener, At, Performs
<1>28. CASE SendTo(p)
  BY <1>1, <1>28 DEF SendTo, At, Performs
<1>29. CASE ReceiveFrom(p)
  BY <1>1, <1>29 DEF ReceiveFrom, At, Performs
<1>30. CASE Reply(p)
  BY <1>1, <1>30 DEF Reply, At, Performs
<1>31. CASE Again(p)
  BY <1>1, <1>31 DEF Again, At, Performs
<1> QED
  BY <1>1, <1>2, <1>3, <1>4, <1>5, <1>6, <1>7, <1>8, <1>9, <1>10, <1>11, <1>12, <1>13, <1>14, <1>15,
     <1>16, <1>17, <1>18, <1>19, <1>20, <1>21, <1>22, <1>23, <1>24, <1>25, <1>26, <1>27, <1>28, <1>29,
     <1>30, <1>31 DEF Step

-----------------------------------------------------------------------------
\* Every process that was started is at a place of its script, or behind it.
Located ==
  /\ program \in DOMAIN Programs
  /\ pc \in [Processes -> Nat \ {0}]
  /\ status \in [Processes -> {"running", "ended", "killed", "failed", "off"}]
  /\ \A p \in Processes : status[p] # "off" => p \in DOMAIN Programs[program]

\* The mail under way and received.
Letters == [type : {1, 2}, message : Messages]
MailTypes ==
  /\ run \in 1 .. MaxRuns
  /\ got \in [Processes -> Seq(Messages)]
  /\ data \in [Channels \cup Paths -> Seq(Messages)]
  /\ queue \in Seq(Letters)
  /\ memory \in Messages

\* Datagrams come to the server from clients, and the servers know whom they talk to.
FromClients(s) == \A i \in 1 .. Len(s) : s[i].from \in Clients
PeerKnown ==
  /\ peer \in Clients \cup {Nobody}
  /\ program = "c2" /\ pc["server"] > 4 => peer \in Clients
  /\ program = "c3" /\ pc["server"] > 3 => peer \in Clients
  /\ FromClients(data["path"])

Ends == (Processes \cup {"backlog"}) \X (Channels \cup Paths)
          \X {"r", "w", "bound", "listen"} \X {"fd", "std"}
IpcTypes ==
  /\ program \in Chosen /\ Located /\ MailTypes /\ PeerKnown
  /\ ends \subseteq Ends /\ files \subseteq Paths

LEMMA CallIsGood ==
  ASSUME Located, NEW p \in Processes, status[p] = "running"
  PROVE  /\ GoodScript(program, p, Script(p)) /\ p \in DOMAIN Programs[program]
         /\ pc[p] <= Len(Script(p)) => GoodCall(program, p, pc[p], Script(p)[pc[p]])
<1>1. GoodScript(program, p, Script(p)) /\ p \in DOMAIN Programs[program]
  BY GoodPrograms DEF Located, Script
<1>2. pc[p] \in Nat \ {0}
  BY DEF Located
<1> QED  BY <1>1, <1>2 DEF GoodScript

LEMMA MessageIsTyped ==
  ASSUME MailTypes, NEW p \in Processes
  PROVE  /\ Message(p) \in Messages /\ Message(p).run = run /\ Message(p).from = p
         /\ [Message(p) EXCEPT !.re = memory.from] \in Messages
         /\ [Message(p) EXCEPT !.re = memory.from].run = run
<1> DEFINE last == Last(got[p]).from
           re == IF got[p] = <<>> THEN Nobody ELSE last
<1>1. got[p] # <<>> => last \in Processes \cup {Nobody}
  <2>1. got[p] \in Seq(Messages)
    BY DEF MailTypes
  <2>2. got[p] # <<>> => Len(got[p]) \in 1 .. Len(got[p])
    BY <2>1
  <2>3. got[p] # <<>> => got[p][Len(got[p])] \in Messages
    BY <2>1, <2>2
  <2> QED  BY <2>3 DEF Last, Messages
<1> HIDE DEF last
<1>2. re \in Processes \cup {Nobody}
  BY <1>1
<1>3. Message(p) = [run |-> run, from |-> p, re |-> re]
  BY DEF Message, last
<1>4. run \in 0 .. MaxRuns /\ memory.from \in Processes \cup {Nobody}
  BY IpcAssumption DEF MailTypes, Messages
<1> HIDE DEF re
<1> QED  BY <1>2, <1>3, <1>4 DEF Messages

-----------------------------------------------------------------------------
\* The shapes of a step: how p goes on, and what becomes of the mail and the files.
Advances(p) == UNCHANGED status /\ pc' = [pc EXCEPT ![p] = @ + 1]
MailStays == UNCHANGED <<got, data, queue, memory>>

Quiet(p) == Advances(p) /\ MailStays /\ UNCHANGED files
Goes(p, how) == status' = [status EXCEPT ![p] = how] /\ MailStays /\ UNCHANGED <<pc, files>>
TurnsBack(p) ==
  /\ program = "c3" /\ p = "server" /\ pc' = [pc EXCEPT ![p] = 3]
  /\ MailStays /\ UNCHANGED <<status, files>>
Posts(p, c) ==
  /\ Advances(p) /\ data' = [data EXCEPT ![c] = Append(@, Message(p))]
  /\ (c = "path" => p \in Clients) /\ UNCHANGED <<got, queue, memory, files>>
Takes(p, c) ==
  /\ Advances(p) \/ UNCHANGED <<pc, status>>
  /\ data[c] # <<>> /\ Receive(p, Head(data[c])) /\ data' = [data EXCEPT ![c] = Tail(@)]
  /\ UNCHANGED <<queue, memory, files>>
Stores(p) ==
  /\ Advances(p) /\ memory' \in {Nothing, Message(p), [Message(p) EXCEPT !.re = memory.from]}
  /\ UNCHANGED <<got, data, queue, files>>
Fetches(p) == Advances(p) /\ Receive(p, memory) /\ UNCHANGED <<data, queue, memory, files>>
Mails(p, t) ==
  /\ Advances(p) /\ queue' = Append(queue, [type |-> t, message |-> Message(p)])
  /\ UNCHANGED <<got, data, memory, files>>
Clears(p) == Advances(p) /\ queue' = <<>> /\ UNCHANGED <<got, data, memory, files>>
Pulls(p, i) ==
  /\ Advances(p) /\ Receive(p, queue[i].message) /\ queue' = RemoveAt(queue, i)
  /\ UNCHANGED <<data, memory, files>>
Files(p) == Advances(p) /\ MailStays /\ files' \subseteq Paths

Effect(p) ==
  \/ Quiet(p) \/ TurnsBack(p) \/ Stores(p) \/ Fetches(p) \/ Clears(p) \/ Files(p)
  \/ \E how \in {"ended", "killed", "failed"} : Goes(p, how)
  \/ \E c : Posts(p, c)
  \/ \E c \in Channels \cup Paths : Takes(p, c)
  \/ \E t \in {1, 2} : Mails(p, t)
  \/ \E i \in 1 .. Len(queue) : Pulls(p, i)

\* Of the messages of a type the first is one of the queue.
LEMMA FirstOfType ==
  ASSUME queue \in Seq(Letters), NEW t, OfType(t) # {}
  PROVE  Min(OfType(t)) \in 1 .. Len(queue) /\ Min(OfType(t)) \in OfType(t)
<1>1. OfType(t) \subseteq 1 .. Len(queue)
  BY DEF OfType
<1>2. \E m \in OfType(t) : \A k \in OfType(t) : m <= k
  <2>1. OfType(t) \subseteq Nat
    BY <1>1
  <2> QED  BY <2>1, LeastNumber
<1>3. Min(OfType(t)) \in OfType(t)
  BY <1>2 DEF Min
<1> QED  BY <1>1, <1>3

LEMMA EffectOf == ASSUME IpcTypes, NEW p \in Processes, Step(p) PROVE Effect(p)
<1> DEFINE op == Script(p)[pc[p]][1]
           arg == Arg(p)
<1>1. Located /\ MailTypes /\ PeerKnown /\ status[p] = "running" /\ files \subseteq Paths
  BY StepPerforms DEF IpcTypes
<1>2. CASE Exit(p)
  BY <1>2 DEF Exit, Leave, Effect, Goes, MailStays
<1>3. SUFFICES ASSUME pc[p] <= Len(Script(p)) PROVE Effect(p)
  BY <1>2, StepPerforms
<1>4. GoodCall(program, p, pc[p], <<op, arg>>)
  BY <1>1, <1>3, CallIsGood DEF GoodCall, Arg
<1>5. peer \in Clients => Up[peer] \in Channels /\ Down[peer] \in Channels \ {"path"} /\ PathOf[peer] \in Paths \ {"path"}
  BY DEF Clients, Up, Down, PathOf, Channels, Paths
<1>6. CASE CloseEnds(p) \/ Duplicate(p) \/ OpenFifo(p) \/ OpenedFifo(p) \/ WaitForChild(p) \/ Sleep(p)
  BY <1>6 DEF CloseEnds, Duplicate, OpenFifo, OpenedFifo, WaitForChild, Sleep, Return, kernel,
              Effect, Quiet, Advances, MailStays
<1>7. CASE Listen(p) \/ Accept(p) \/ ClosePeer(p) \/ CloseListener(p)
  BY <1>7 DEF Listen, Accept, ClosePeer, CloseListener, Return, Effect, Quiet, Advances, MailStays
<1>8. CASE Connect(p)
  BY <1>8 DEF Connect, Return, Leave, Effect, Quiet, Goes, Advances, MailStays
<1>9. CASE Bind(p)
  BY <1>1, <1>4, <1>9 DEF Bind, At, GoodCall, Return, Leave, Effect, Files, Goes, Advances, MailStays
<1>10. CASE Unlink(p)
  BY <1>1, <1>10 DEF Unlink, Return, Effect, Files, Advances, MailStays
<1>11. ASSUME NEW c, c = "path" => p \in Clients, WriteTo(p, c), UNCHANGED <<got, queue, memory, files>>
       PROVE  Effect(p)
  BY <1>11 DEF WriteTo, Return, Leave, Effect, Posts, Goes, Advances, MailStays
<1>12. CASE Write(p)
  BY <1>4, <1>11, <1>12 DEF Write, At, GoodCall, Channels
<1>13. CASE WritePeer(p)
  BY <1>1, <1>4, <1>5, <1>11, <1>13 DEF WritePeer, At, GoodCall, PeerKnown
<1>14. CASE SendTo(p)
  BY <1>4, <1>14 DEF SendTo, At, GoodCall, Return, Leave, Effect, Posts, Goes, Advances, MailStays
<1>15. CASE Reply(p)
  <2>1. p = "server" /\ program = "c3" /\ pc["server"] = 4
    BY <1>4, <1>15 DEF Reply, At, GoodCall
  <2>2. PathOf[peer] # "path"
    BY <1>1, <1>5, <2>1 DEF PeerKnown
  <2>3. CASE Bound(PathOf[peer])
    BY <1>15, <2>2, <2>3 DEF Reply, Return, Effect, Posts, Advances
  <2>4. CASE ~Bound(PathOf[peer])
    BY <1>15, <2>4 DEF Reply, Return, Effect, Quiet, Advances, MailStays
  <2> QED  BY <2>3, <2>4
<1>16. ASSUME NEW c \in Channels \cup Paths, ReadFrom(p, c), UNCHANGED <<status, queue, memory, files>>,
              Return(p) \/ (data[c] # <<>> /\ UNCHANGED pc)
       PROVE  Effect(p)
  BY <1>16 DEF ReadFrom, Return, Effect, Takes, Quiet, Advances, MailStays
<1>17. CASE Read(p) \/ ReadAll(p)
  BY <1>4, <1>16, <1>17 DEF Read, ReadAll, At, GoodCall
<1>18. CASE ReadPeer(p)
  BY <1>1, <1>4, <1>5, <1>16, <1>18 DEF ReadPeer, At, GoodCall, PeerKnown
<1>19. CASE ReceiveFrom(p)
  BY <1>4, <1>19 DEF ReceiveFrom, At, GoodCall, Return, Effect, Takes, Advances
<1>20. CASE StoreMemory(p) \/ AppendMemory(p) \/ FetchMemory(p)
  BY <1>20 DEF StoreMemory, AppendMemory, FetchMemory, kernel, Return, Effect, Stores, Fetches, Advances
<1>21. CASE RemoveObject(p)
  BY <1>21 DEF RemoveObject, Return, Effect, Stores, Clears, Advances
<1>22. CASE SendMessage(p)
  BY <1>4, <1>22 DEF SendMessage, At, GoodCall, Return, Effect, Mails, Advances
<1>23. ASSUME OfType(arg) # {}, TakeMessage(p, arg), Return(p), UNCHANGED <<status, data, memory, files>>
       PROVE  Effect(p)
  <2>1. Min(OfType(arg)) \in 1 .. Len(queue)
    BY <1>1, <1>23, FirstOfType DEF MailTypes
  <2>2. Pulls(p, Min(OfType(arg)))
    BY <1>23 DEF TakeMessage, Return, Pulls, Advances
  <2> QED  BY <2>1, <2>2 DEF Effect
<1>24. CASE ReceiveMessage(p)
  BY <1>23, <1>24 DEF ReceiveMessage
<1>25. CASE TryReceiveMessage(p)
  BY <1>23, <1>25 DEF TryReceiveMessage, Return, Effect, Quiet, Advances, MailStays
<1>26. CASE Again(p)
  BY <1>4, <1>26 DEF Again, At, Arg, GoodCall, kernel, Effect, TurnsBack, MailStays
<1> QED
  BY <1>2, <1>6, <1>7, <1>8, <1>9, <1>10, <1>12, <1>13, <1>14, <1>15, <1>17, <1>18, <1>19, <1>20,
     <1>21, <1>22, <1>24, <1>25, <1>26 DEF Step

\* Where p is after a step.
LEMMA PlaceAfter ==
  ASSUME IpcTypes, NEW p \in Processes, Step(p)
  PROVE  /\ UNCHANGED <<run, program, killed, spoiled>> /\ status[p] = "running"
         /\ \/ status' = status /\ pc' \in {pc, [pc EXCEPT ![p] = @ + 1]}
            \/ status' = status /\ program = "c3" /\ p = "server" /\ pc' = [pc EXCEPT ![p] = 3]
            \/ UNCHANGED pc /\ \E how \in {"ended", "killed", "failed"} : status' = [status EXCEPT ![p] = how]
<1>1. UNCHANGED <<run, program, killed, spoiled>> /\ status[p] = "running" /\ Effect(p)
  BY StepPerforms, EffectOf
<1> QED
  BY <1>1 DEF Effect, Quiet, Goes, TurnsBack, Posts, Takes, Stores, Fetches, Mails, Clears, Pulls, Files,
              Advances, MailStays

LEMMA LocatedAfter == ASSUME IpcTypes, NEW p \in Processes, Step(p) PROVE Located'
<1>1. Located
  BY DEF IpcTypes
<1> QED  BY <1>1, PlaceAfter DEF Located

\* A message less in the queue, or one more in a sequence.
LEMMA OneLetterLess ==
  ASSUME NEW S, NEW s \in Seq(S), NEW i \in 1 .. Len(s)
  PROVE  /\ RemoveAt(s, i) \in Seq(S) /\ Len(RemoveAt(s, i)) = Len(s) - 1
         /\ \A j \in 1 .. Len(s) - 1 : RemoveAt(s, i)[j] = s[IF j < i THEN j ELSE j + 1]
<1> DEFINE a == SubSeq(s, 1, i - 1)
           b == SubSeq(s, i + 1, Len(s))
<1>1. a \in Seq(S) /\ b \in Seq(S) /\ Len(a) = i - 1 /\ Len(b) = Len(s) - i /\ Len(s) \in Nat
  OBVIOUS
<1>2. \A j \in 1 .. i - 1 : a[j] = s[j]
  OBVIOUS
<1>3. \A j \in 1 .. Len(s) - i : b[j] = s[i + j]
  OBVIOUS
<1> HIDE DEF a, b
<1>4. /\ a \o b \in Seq(S) /\ Len(a \o b) = Len(s) - 1
      /\ \A j \in 1 .. Len(s) - 1 : (a \o b)[j] = IF j < i THEN a[j] ELSE b[j - (i - 1)]
  BY <1>1
<1>5. \A j \in 1 .. Len(s) - 1 : (a \o b)[j] = s[IF j < i THEN j ELSE j + 1]
  <2> TAKE j \in 1 .. Len(s) - 1
  <2>1. CASE j < i
    BY <1>1, <1>2, <1>4, <2>1
  <2>2. CASE ~(j < i)
    <3>1. j - (i - 1) \in 1 .. Len(s) - i /\ i + (j - (i - 1)) = j + 1
      BY <1>1, <2>2
    <3> QED  BY <1>3, <1>4, <2>2, <3>1
  <2> QED  BY <2>1, <2>2
<1> QED  BY <1>4, <1>5 DEF RemoveAt, a, b

LEMMA MailTypesAfter == ASSUME IpcTypes, NEW p \in Processes, Step(p) PROVE MailTypes'
<1>1. MailTypes /\ run' = run /\ Effect(p)
  BY StepPerforms, EffectOf DEF IpcTypes
<1>2. Message(p) \in Messages /\ [Message(p) EXCEPT !.re = memory.from] \in Messages /\ Nothing \in Messages
  BY <1>1, MessageIsTyped, IpcAssumption DEF Nothing, Messages
<1>3. ASSUME NEW m \in Messages, Receive(p, m) PROVE got' \in [Processes -> Seq(Messages)]
  BY <1>1, <1>3 DEF Receive, MailTypes
<1>4. CASE Quiet(p) \/ TurnsBack(p) \/ Files(p) \/ \E how \in {"ended", "killed", "failed"} : Goes(p, how)
  BY <1>1, <1>4 DEF Quiet, TurnsBack, Files, Goes, MailStays, MailTypes
<1>5. CASE Stores(p) \/ Clears(p)
  <2> DEFINE message == Message(p)
             answer == [Message(p) EXCEPT !.re = memory.from]
  <2>1. Stores(p) => memory' \in {Nothing, message, answer}
    BY DEF Stores
  <2>2. message \in Messages /\ answer \in Messages
    BY <1>2
  <2> HIDE DEF message, answer
  <2>3. memory' \in Messages
    BY <1>1, <1>2, <1>5, <2>1, <2>2 DEF Clears, MailTypes
  <2>4. queue' \in Seq(Letters)
    <3>1. queue' = queue \/ queue' = <<>>
      BY <1>5 DEF Stores, Clears
    <3>2. queue \in Seq(Letters)
      BY <1>1 DEF MailTypes
    <3>3. <<>> \in Seq(Letters)
      OBVIOUS
    <3> QED  BY <3>1, <3>2, <3>3, Zenon
  <2> QED  BY <1>1, <1>5, <2>3, <2>4 DEF Stores, Clears, MailTypes
<1>5a. CASE Fetches(p)
  BY <1>1, <1>3, <1>5a DEF Fetches, MailTypes
<1>6. ASSUME NEW c, Posts(p, c) PROVE MailTypes'
  <2>1. \A d \in Channels \cup Paths : Append(data[d], Message(p)) \in Seq(Messages)
    BY <1>1, <1>2 DEF MailTypes
  <2>2. data' \in [Channels \cup Paths -> Seq(Messages)]
    BY <1>1, <1>6, <2>1 DEF Posts, MailTypes
  <2> QED  BY <1>1, <1>6, <2>2 DEF Posts, MailTypes
<1>7. ASSUME NEW c \in Channels \cup Paths, Takes(p, c) PROVE MailTypes'
  <2>1. data[c] \in Seq(Messages) /\ data[c] # <<>>
    BY <1>1, <1>7 DEF Takes, MailTypes
  <2>2. Head(data[c]) \in Messages /\ Tail(data[c]) \in Seq(Messages)
    BY <2>1
  <2> QED  BY <1>1, <1>3, <1>7, <2>2 DEF Takes, MailTypes
<1>8. ASSUME NEW t \in {1, 2}, Mails(p, t) PROVE MailTypes'
  <2>1. [type |-> t, message |-> Message(p)] \in Letters
    BY <1>2 DEF Letters
  <2> QED  BY <1>1, <1>8, <2>1 DEF Mails, MailTypes
<1>9. ASSUME NEW i \in 1 .. Len(queue), Pulls(p, i) PROVE MailTypes'
  <2>1. queue[i].message \in Messages
    <3>1. queue[i] \in Letters
      BY <1>1 DEF MailTypes
    <3> QED  BY <3>1 DEF Letters
  <2>2. RemoveAt(queue, i) \in Seq(Letters)
    BY <1>1, OneLetterLess DEF MailTypes
  <2> QED  BY <1>1, <1>3, <1>9, <2>1, <2>2 DEF Pulls, MailTypes
<1> QED  BY <1>1, <1>4, <1>5, <1>5a, <1>6, <1>7, <1>8, <1>9 DEF Effect

LEMMA EndsAfter == ASSUME IpcTypes, NEW p \in Processes, Step(p) PROVE ends' \subseteq Ends
<1>1. Located /\ ends \subseteq Ends /\ status[p] = "running"
  BY StepPerforms DEF IpcTypes
<1>2. CASE Exit(p)
  BY <1>1, <1>2 DEF Exit, Leave, Without
<1>3. SUFFICES ASSUME pc[p] <= Len(Script(p)) PROVE ends' \subseteq Ends
  BY <1>2, StepPerforms
<1>4. GoodCall(program, p, pc[p], <<Script(p)[pc[p]][1], Arg(p)>>)
  BY <1>1, <1>3, CallIsGood DEF GoodCall, Arg
<1>5. \A k \in Clients : /\ Up[k] \in Channels /\ Down[k] \in Channels
                         /\ k \in Processes
  BY DEF Clients, Up, Down, Channels, Processes
<1>6. CASE CloseEnds(p) \/ CloseListener(p)
  BY <1>1, <1>6 DEF CloseEnds, CloseListener
<1>7. CASE Duplicate(p) \/ OpenFifo(p)
  BY <1>1, <1>4, <1>7 DEF Duplicate, OpenFifo, At, GoodCall, Ends
<1>8. CASE Write(p) \/ WritePeer(p) \/ SendTo(p)
  BY <1>1, <1>8 DEF Write, WritePeer, SendTo, WriteTo, Leave, Without
<1>9. CASE Bind(p) \/ Listen(p)
  BY <1>1, <1>4, <1>9 DEF Bind, Listen, Leave, Without, At, GoodCall, Ends
<1>10. CASE Connect(p)
  BY <1>1, <1>4, <1>5, <1>10 DEF Connect, Leave, Without, ServerEnds, At, GoodCall, Ends
<1>11. CASE Accept(p)
  BY <1>1, <1>5, <1>11 DEF Accept, ServerEnds, Ends
<1>12. CASE ClosePeer(p)
  BY <1>1, <1>12 DEF ClosePeer
<1>13. CASE OpenedFifo(p) \/ Read(p) \/ ReadAll(p) \/ WaitForChild(p) \/ Sleep(p) \/ FetchMemory(p)
            \/ Again(p)
  BY <1>1, <1>13 DEF OpenedFifo, Read, ReadAll, WaitForChild, Sleep, FetchMemory, Again, kernel
<1>14. CASE StoreMemory(p) \/ AppendMemory(p) \/ RemoveObject(p) \/ SendMessage(p)
            \/ ReceiveMessage(p) \/ TryReceiveMessage(p)
  BY <1>1, <1>14 DEF StoreMemory, AppendMemory, RemoveObject, SendMessage, ReceiveMessage, TryReceiveMessage
<1>15. CASE Unlink(p) \/ ReadPeer(p) \/ ReceiveFrom(p) \/ Reply(p)
  BY <1>1, <1>15 DEF Unlink, ReadPeer, ReceiveFrom, Reply
<1> QED
  BY <1>2, <1>6, <1>7, <1>8, <1>9, <1>10, <1>11, <1>12, <1>13, <1>14, <1>15 DEF Step

\* The calls of the two servers.
LEMMA StreamCalls ==
  /\ Len(StreamSockets["server"]) = 9
  /\ StreamSockets["server"][1] = <<"unlink", "path">> /\ StreamSockets["server"][2] = <<"bind", "path">>
  /\ StreamSockets["server"][3][1] = "listen" /\ StreamSockets["server"][4][1] = "accept"
  /\ StreamSockets["server"][5][1] = "readPeer" /\ StreamSockets["server"][6][1] = "writePeer"
  /\ StreamSockets["server"][7][1] = "closePeer" /\ StreamSockets["server"][8][1] = "closeListener"
  /\ StreamSockets["server"][9] = <<"unlink", "path">>
  BY DEF StreamSockets, StreamServer

LEMMA DatagramCalls ==
  /\ Len(Datagrams["server"]) = 5
  /\ Datagrams["server"][1] = <<"unlink", "path">> /\ Datagrams["server"][2] = <<"bind", "path">>
  /\ Datagrams["server"][3] = <<"receive", "path">> /\ Datagrams["server"][4][1] = "reply"
  /\ Datagrams["server"][5] = <<"again", 3>>
  BY DEF Datagrams

LEMMA DatagramsAfter == ASSUME IpcTypes, NEW p \in Processes, Step(p) PROVE FromClients(data'["path"])
<1>1. MailTypes /\ Effect(p) /\ FromClients(data["path"]) /\ data["path"] \in Seq(Messages)
  BY EffectOf DEF IpcTypes, PeerKnown, MailTypes, Paths
<1>2. CASE data' = data
  BY <1>1, <1>2
<1>3. ASSUME NEW c, Posts(p, c) PROVE FromClients(data'["path"])
  <2>1. CASE c = "path" /\ p \in Clients
    <3>1. data'["path"] = Append(data["path"], Message(p))
      BY <1>1, <1>3, <2>1 DEF Posts, MailTypes, Paths
    <3>2. Message(p).from \in Clients
      BY <1>1, <2>1, MessageIsTyped
    <3> QED  BY <1>1, <3>1, <3>2 DEF FromClients
  <2>2. CASE c # "path"
    <3>1. data'["path"] = data["path"]
      BY <1>1, <1>3, <2>2 DEF Posts, MailTypes, Paths
    <3> QED  BY <1>1, <3>1
  <2> QED  BY <1>3, <2>1, <2>2 DEF Posts
<1>4. ASSUME NEW c \in Channels \cup Paths, Takes(p, c) PROVE FromClients(data'["path"])
  <2>1. CASE c = "path"
    <3>1. data'["path"] = Tail(data["path"]) /\ data["path"] # <<>>
      BY <1>1, <1>4, <2>1 DEF Takes, MailTypes
    <3> QED  BY <1>1, <3>1 DEF FromClients
  <2>2. CASE c # "path"
    <3>1. data'["path"] = data["path"]
      BY <1>1, <1>4, <2>2 DEF Takes, MailTypes, Paths
    <3> QED  BY <1>1, <3>1
  <2> QED  BY <2>1, <2>2
<1>5. data' = data \/ (\E c : Posts(p, c)) \/ \E c \in Channels \cup Paths : Takes(p, c)
  BY <1>1 DEF Effect, Quiet, Goes, TurnsBack, Stores, Fetches, Mails, Clears, Pulls, Files, MailStays
<1> QED  BY <1>2, <1>3, <1>4, <1>5

LEMMA PeerMoves ==
  ASSUME IpcTypes, NEW p \in Processes, Step(p)
  PROVE  peer' = peer \/ peer' \in Clients
<1>1. Located /\ MailTypes /\ FromClients(data["path"]) /\ status[p] = "running"
  BY StepPerforms DEF IpcTypes, PeerKnown
<1>2. CASE peer' = peer
  BY <1>2
<1>3. CASE Accept(p)
  BY <1>3 DEF Accept
<1>4. CASE ReceiveFrom(p) /\ p = "server"
  <2>1. Arg(p) = "path"
    <3>1. pc[p] <= Len(Script(p)) /\ Script(p)[pc[p]][1] = "receive"
      BY <1>4 DEF ReceiveFrom, At
    <3>2. GoodCall(program, p, pc[p], Script(p)[pc[p]])
      BY <1>1, <3>1, CallIsGood
    <3> QED  BY <1>4, <3>1, <3>2 DEF GoodCall, Arg
  <2>2. peer' = data["path"][1].from /\ data["path"] \in Seq(Messages) /\ data["path"] # <<>>
    BY <1>1, <1>4, <2>1 DEF ReceiveFrom, Sender, MailTypes, Paths
  <2>3. 1 \in 1 .. Len(data["path"])
    BY <2>2
  <2> QED  BY <1>1, <2>2, <2>3 DEF FromClients
<1>5. CASE CloseEnds(p) \/ Duplicate(p) \/ OpenFifo(p) \/ OpenedFifo(p) \/ Write(p) \/ Read(p)
           \/ ReadAll(p) \/ WaitForChild(p) \/ Sleep(p)
  BY <1>5 DEF CloseEnds, Duplicate, OpenFifo, OpenedFifo, Write, Read, ReadAll, WaitForChild, Sleep
<1>6. CASE StoreMemory(p) \/ AppendMemory(p) \/ FetchMemory(p) \/ RemoveObject(p)
           \/ SendMessage(p) \/ ReceiveMessage(p) \/ TryReceiveMessage(p)
  BY <1>6 DEF StoreMemory, AppendMemory, FetchMemory, RemoveObject, SendMessage, ReceiveMessage, TryReceiveMessage
<1>7. CASE Unlink(p) \/ Bind(p) \/ Listen(p) \/ Connect(p) \/ ReadPeer(p) \/ WritePeer(p)
           \/ ClosePeer(p) \/ CloseListener(p) \/ SendTo(p) \/ Reply(p) \/ Again(p) \/ Exit(p)
  BY <1>7 DEF Unlink, Bind, Listen, Connect, ReadPeer, WritePeer, ClosePeer, CloseListener, SendTo, Reply, Again, Exit
<1>8. CASE ReceiveFrom(p) /\ p # "server"
  BY <1>8 DEF ReceiveFrom
<1> QED  BY <1>3, <1>4, <1>5, <1>6, <1>7, <1>8 DEF Step

LEMMA PeerAfter == ASSUME IpcTypes, NEW p \in Processes, Step(p) PROVE PeerKnown'
<1>1. PeerKnown /\ Located /\ program' = program /\ (peer' = peer \/ peer' \in Clients)
  BY StepPerforms, PeerMoves DEF IpcTypes
<1>2. \/ pc'["server"] = pc["server"] \/ pc'["server"] = 3
      \/ p = "server" /\ pc'["server"] = pc["server"] + 1
  <2>1. pc \in [Processes -> Nat \ {0}] /\ "server" \in Processes
    BY <1>1 DEF Located, Processes
  <2>2. CASE pc' = pc
    BY <2>2
  <2>3. CASE pc' = [pc EXCEPT ![p] = @ + 1]
    BY <2>1, <2>3
  <2>4. CASE p = "server" /\ pc' = [pc EXCEPT ![p] = 3]
    BY <2>1, <2>4
  <2> QED  BY <2>2, <2>3, <2>4, PlaceAfter
<1>4. ASSUME program = "c2", p = "server", pc["server"] = 4 PROVE peer' \in Clients
  <2>1. Len(Script(p)) = 9 /\ Script(p)[pc[p]][1] = "accept"
    BY <1>4, StreamCalls, ProgramsAre DEF Script
  <2>2. Accept(p)
    BY <1>4, <2>1, StepPerforms DEF Performs
  <2> QED  BY <2>2 DEF Accept
<1>5. ASSUME program = "c3", p = "server", pc["server"] = 3 PROVE peer' \in Clients
  <2>1. Len(Script(p)) = 5 /\ Script(p)[pc[p]] = <<"receive", "path">>
    BY <1>5, DatagramCalls, ProgramsAre DEF Script
  <2>2. ReceiveFrom(p)
    BY <1>5, <2>1, StepPerforms DEF Performs
  <2>3. peer' = data["path"][1].from /\ data["path"] # <<>> /\ data["path"] \in Seq(Messages)
    BY <1>5, <2>1, <2>2 DEF ReceiveFrom, Arg, Sender, IpcTypes, MailTypes, Paths
  <2> QED  BY <1>1, <2>3 DEF PeerKnown, FromClients
<1>6. FromClients(data'["path"])
  BY DatagramsAfter
<1>7. pc["server"] \in Nat
  BY <1>1 DEF Located, Processes
<1> QED  BY <1>1, <1>2, <1>4, <1>5, <1>6, <1>7 DEF PeerKnown

\* Who may be where when a program is started.
LEMMA FreshStart ==
  ASSUME NEW g \in Chosen
  PROVE  /\ g \in DOMAIN Programs /\ Inherited(g) \subseteq Ends
         /\ [p \in Processes |-> 1] \in [Processes -> Nat \ {0}]
         /\ Started(g) \in [Processes -> {"running", "ended", "killed", "failed", "off"}]
         /\ \A p \in Processes : (Started(g)[p] = "running" <=> p \in DOMAIN Programs[g])
                                 /\ Started(g)[p] \in {"running", "off"}
         /\ [c \in Channels \cup Paths |-> <<>>] \in [Channels \cup Paths -> Seq(Messages)]
         /\ [p \in Processes |-> <<>>] \in [Processes -> Seq(Messages)]
<1>1. g \in DOMAIN Programs /\ DOMAIN Programs[g] \subseteq Processes
  BY IpcAssumption, GoodPrograms
<1>2. Inherited(g) \subseteq Ends
  <2>1. {"down", "up"} \subseteq Channels /\ {"down"} \subseteq Channels
    BY DEF Channels
  <2> QED  BY <1>1, <2>1 DEF Inherited, Ends
<1>3. <<>> \in Seq(Messages)
  OBVIOUS
<1> QED  BY <1>1, <1>2, <1>3 DEF Started

LEMMA TypesAtFirst == ASSUME Init PROVE IpcTypes
<1>1. program \in Chosen
  BY DEF Init
<1>2. Located
  BY <1>1, FreshStart DEF Init, Located
<1>3. Nothing \in Messages
  BY IpcAssumption DEF Nothing, Messages
<1>4. MailTypes
  <2>1. queue = <<>> /\ memory = Nothing /\ run = 1
    BY DEF Init
  <2>2. queue \in Seq(Letters) /\ run \in 1 .. MaxRuns
    BY <2>1, IpcAssumption
  <2> QED  BY <1>1, <1>3, <2>1, <2>2, FreshStart DEF Init, MailTypes
<1>5. PeerKnown
  <2>1. data["path"] = <<>> /\ pc["server"] = 1 /\ peer = Nobody
    BY DEF Init, Processes, Paths
  <2> QED  BY <2>1 DEF PeerKnown, FromClients
<1>6. ends \subseteq Ends /\ files \subseteq Paths
  BY <1>1, FreshStart DEF Init
<1> QED  BY <1>1, <1>2, <1>4, <1>5, <1>6 DEF IpcTypes

LEMMA FilesAfter ==
  ASSUME IpcTypes, NEW p \in Processes, Step(p)
  PROVE  \/ files' = files
         \/ Unlink(p) /\ files' = files \ {Arg(p)}
         \/ Bind(p) /\ Arg(p) \notin files /\ files' = files \cup {Arg(p)} /\ pc[p] = 2
              /\ pc' = [pc EXCEPT ![p] = @ + 1] /\ status' = status /\ Arg(p) \in Paths
<1>1. CASE Unlink(p)
  BY <1>1 DEF Unlink
<1>2. CASE Bind(p)
  <2>1. GoodCall(program, p, pc[p], Script(p)[pc[p]]) /\ Script(p)[pc[p]][1] = "bind"
    BY <1>2, CallIsGood, StepPerforms DEF Bind, At, IpcTypes
  <2>2. pc[p] = 2 /\ Arg(p) \in Paths
    BY <2>1 DEF GoodCall, Arg
  <2> QED  BY <1>2, <2>2 DEF Bind, Return
<1>3. CASE CloseEnds(p) \/ Duplicate(p) \/ OpenFifo(p) \/ OpenedFifo(p) \/ Write(p) \/ Read(p)
           \/ ReadAll(p) \/ WaitForChild(p) \/ Sleep(p)
  BY <1>3 DEF CloseEnds, Duplicate, OpenFifo, OpenedFifo, Write, Read, ReadAll, WaitForChild, Sleep, kernel
<1>4. CASE StoreMemory(p) \/ AppendMemory(p) \/ FetchMemory(p) \/ RemoveObject(p)
           \/ SendMessage(p) \/ ReceiveMessage(p) \/ TryReceiveMessage(p)
  BY <1>4 DEF StoreMemory, AppendMemory, FetchMemory, RemoveObject, SendMessage, ReceiveMessage,
              TryReceiveMessage, kernel
<1>5. CASE Listen(p) \/ Connect(p) \/ Accept(p) \/ ReadPeer(p) \/ WritePeer(p)
           \/ ClosePeer(p) \/ CloseListener(p) \/ SendTo(p) \/ ReceiveFrom(p) \/ Reply(p) \/ Again(p) \/ Exit(p)
  BY <1>5 DEF Listen, Connect, Accept, ReadPeer, WritePeer, ClosePeer, CloseListener, SendTo, ReceiveFrom,
              Reply, Again, Exit, kernel
<1> QED  BY <1>1, <1>2, <1>3, <1>4, <1>5 DEF Step

LEMMA TypesAfter == ASSUME IpcTypes, [Next]_vars PROVE IpcTypes'
<1>1. ASSUME NEW p \in Processes, Step(p) PROVE IpcTypes'
  <2>1. files' \subseteq Paths
    BY <1>1, FilesAfter DEF IpcTypes
  <2> QED  BY <1>1, <2>1, LocatedAfter, MailTypesAfter, EndsAfter, PeerAfter, PlaceAfter DEF IpcTypes
<1>2. ASSUME NEW p \in Processes, Kill(p) PROVE IpcTypes'
  <2>1. UNCHANGED <<run, program, pc, got, peer, data, files, queue, memory>>
        /\ status' = [status EXCEPT ![p] = "killed"] /\ ends' \subseteq ends /\ status[p] = "running"
    BY <1>2 DEF Kill, Leave, Without
  <2>2. Located'
    BY <2>1 DEF IpcTypes, Located
  <2>3. MailTypes' /\ PeerKnown'
    BY <2>1 DEF IpcTypes, MailTypes, PeerKnown
  <2> QED  BY <2>1, <2>2, <2>3 DEF IpcTypes
<1>3. ASSUME NextRun PROVE IpcTypes'
  <2>1. program' \in Chosen
    BY <1>3 DEF NextRun
  <2>2. Located'
    BY <1>3, <2>1, FreshStart DEF NextRun, Located
  <2>3. MailTypes'
    <3>1. run' \in 1 .. MaxRuns
      BY <1>3, IpcAssumption DEF NextRun, IpcTypes, MailTypes
    <3> QED  BY <1>3, <2>1, <3>1, FreshStart DEF NextRun, IpcTypes, MailTypes
  <2>4. PeerKnown'
    <3>1. data'["path"] = <<>> /\ pc'["server"] = 1 /\ peer' = Nobody
      BY <1>3 DEF NextRun, Processes, Paths
    <3> QED  BY <3>1 DEF PeerKnown, FromClients
  <2> QED  BY <1>3, <2>1, <2>2, <2>3, <2>4, FreshStart DEF NextRun, IpcTypes
<1>4. CASE UNCHANGED vars
  BY <1>4 DEF vars, process, kernel, IpcTypes, Located, MailTypes, PeerKnown
<1> QED  BY <1>1, <1>2, <1>3, <1>4 DEF Next

\* Every value of the constants: the types hold.
LEMMA IpcTypesHold == Spec => []IpcTypes
<1> QED  BY TypesAtFirst, TypesAfter, PTL DEF Spec

-----------------------------------------------------------------------------
\* Between unlink and bind nobody makes the path again.
AtBind(p) == status[p] = "running" /\ pc[p] = 2 /\ Len(Script(p)) >= 2 /\ Script(p)[2][1] = "bind"
BindInv ==
  \A p \in Processes : status[p] # "failed" /\ (AtBind(p) => Own[p] \notin files)

\* Two processes with a bind have two paths.
LEMMA OwnPaths ==
  ASSUME NEW p \in {"server", "k1", "k2"}, NEW q \in {"server", "k1", "k2"}, Own[p] = Own[q]
  PROVE  p = q
  BY DEF Own

LEMMA BindCall ==
  ASSUME IpcTypes, NEW p \in Processes, Bind(p)
  PROVE  AtBind(p) /\ Arg(p) = Own[p] /\ p \in {"server", "k1", "k2"}
<1>1. /\ Located /\ status[p] = "running" /\ pc[p] \in Nat /\ pc[p] <= Len(Script(p))
      /\ Script(p)[pc[p]][1] = "bind"
  BY DEF Bind, At, IpcTypes, Located
<1>2. pc[p] = 2
  BY <1>1, CallIsGood DEF GoodCall
<1>3. Len(Script(p)) >= 2 /\ Len(Script(p)) \in Nat
  BY <1>1, <1>2, CallIsGood DEF GoodScript
<1>4. p \in {"server", "k1", "k2"} /\ Script(p)[2] = <<"bind", Own[p]>>
  BY <1>1, <1>2, <1>3, CallIsGood DEF GoodScript
<1> QED  BY <1>1, <1>2, <1>3, <1>4 DEF AtBind, Arg

\* Who leaves is at the end, or at a call that may fail.
LEMMA StatusAfter ==
  ASSUME NEW p \in Processes, Step(p)
  PROVE  status' = status \/ Exit(p) \/ Write(p) \/ WritePeer(p) \/ Connect(p) \/ SendTo(p) \/ Bind(p)
<1>1. CASE CloseEnds(p) \/ Duplicate(p) \/ OpenFifo(p) \/ OpenedFifo(p) \/ Read(p)
           \/ ReadAll(p) \/ WaitForChild(p) \/ Sleep(p)
  BY <1>1 DEF CloseEnds, Duplicate, OpenFifo, OpenedFifo, Read, ReadAll, WaitForChild, Sleep
<1>2. CASE StoreMemory(p) \/ AppendMemory(p) \/ FetchMemory(p) \/ RemoveObject(p)
           \/ SendMessage(p) \/ ReceiveMessage(p) \/ TryReceiveMessage(p)
  BY <1>2 DEF StoreMemory, AppendMemory, FetchMemory, RemoveObject, SendMessage, ReceiveMessage,
              TryReceiveMessage
<1>3. CASE Unlink(p) \/ Listen(p) \/ Accept(p) \/ ReadPeer(p) \/ ClosePeer(p) \/ CloseListener(p)
           \/ ReceiveFrom(p) \/ Reply(p) \/ Again(p)
  BY <1>3 DEF Unlink, Listen, Accept, ReadPeer, ClosePeer, CloseListener, ReceiveFrom, Reply, Again
<1> QED  BY <1>1, <1>2, <1>3 DEF Step

LEMMA NobodyFails ==
  ASSUME IpcTypes, BindInv, NEW p \in Processes, Step(p), NEW q \in Processes
  PROVE  status'[q] # "failed"
<1>1. status[q] # "failed" /\ status \in [Processes -> {"running", "ended", "killed", "failed", "off"}]
  BY DEF BindInv, IpcTypes, Located
<1>2. CASE Bind(p)
  <2>1. Arg(p) \notin files
    BY <1>2, BindCall DEF BindInv
  <2> QED  BY <1>1, <1>2, <2>1 DEF Bind
<1>3. CASE Write(p) \/ WritePeer(p) \/ Connect(p) \/ SendTo(p) \/ Exit(p)
  <2>1. status' = status \/ \E how \in {"killed", "ended"} : status' = [status EXCEPT ![p] = how]
    BY <1>3 DEF Write, WritePeer, WriteTo, Connect, SendTo, Exit, Leave
  <2> QED  BY <1>1, <2>1
<1> QED  BY <1>1, <1>2, <1>3, StatusAfter

LEMMA BindAfter == ASSUME IpcTypes, BindInv, [Next]_vars PROVE BindInv'
<1>1. ASSUME NEW p \in Processes, Step(p), NEW q \in Processes, AtBind(q)' PROVE Own[q] \notin files'
  <2>1. Located /\ program' = program /\ Script(q)' = Script(q)
    BY <1>1, StepPerforms DEF IpcTypes, Script
  <2>2. status[q] = "running" /\ pc'[q] = 2
    BY <1>1, <2>1, PlaceAfter DEF AtBind, Located
  <2>3. /\ Len(Script(q)) >= 2 /\ Script(q)[2][1] = "bind" /\ q \in {"server", "k1", "k2"}
        /\ Script(q)[1] = <<"unlink", Own[q]>> /\ Len(Script(q)) \in Nat
    BY <1>1, <2>1, <2>2, CallIsGood DEF AtBind, GoodScript
  <2>4. CASE pc[q] = 2
    <3>1. Own[q] \notin files
      BY <2>2, <2>3, <2>4 DEF BindInv, AtBind
    <3>2. ASSUME Bind(p) PROVE Arg(p) # Own[q]
      <4>1. p # q
        BY <1>1, <2>1, <2>2, <2>4, <3>2, FilesAfter, BindCall DEF Located, Bind, Return, BindInv
      <4> QED  BY <1>1, <2>3, <3>2, <4>1, BindCall, OwnPaths
    <3> QED  BY <1>1, <3>1, <3>2, FilesAfter
  <2>5. CASE pc[q] # 2
    <3>1. p = q /\ pc[q] = 1
      BY <1>1, <2>1, <2>2, <2>5, PlaceAfter DEF Located
    <3>2. Performs(q, "unlink") /\ Arg(q) = Own[q]
      BY <1>1, <2>3, <3>1, StepPerforms DEF Arg
    <3> QED  BY <3>2 DEF Performs, Unlink
  <2> QED  BY <2>4, <2>5
<1>2. ASSUME NEW p \in Processes, Kill(p) PROVE BindInv'
  <2>1. UNCHANGED <<program, pc, files>> /\ status' = [status EXCEPT ![p] = "killed"]
    BY <1>2 DEF Kill, Leave
  <2> QED  BY <2>1 DEF IpcTypes, Located, BindInv, AtBind, Script
<1>3. CASE NextRun
  <2>1. program' \in Chosen /\ status' = Started(program') /\ \A q \in Processes : pc'[q] = 1
    BY <1>3 DEF NextRun
  <2> QED  BY <2>1, FreshStart DEF BindInv, AtBind
<1>4. CASE UNCHANGED vars
  BY <1>4 DEF vars, process, kernel, BindInv, AtBind, Script
<1>5. ASSUME NEW p \in Processes, Step(p) PROVE BindInv'
  BY <1>1, <1>5, NobodyFails DEF BindInv
<1> QED  BY <1>2, <1>3, <1>4, <1>5 DEF Next

LEMMA BindAtFirst == ASSUME Init PROVE BindInv
<1>1. program \in Chosen /\ status = Started(program) /\ \A q \in Processes : pc[q] = 1
  BY DEF Init
<1> QED  BY <1>1, FreshStart DEF BindInv, AtBind

\* No bind of a server or a client finds its path in use, whatever was killed before:
\* each unlinks its path first, and nobody else makes it in between.
THEOREM SocketsCanBeBound == Spec => []BindNeverFails
<1>1. BindInv => BindNeverFails
  BY DEF BindInv, BindNeverFails
<1> QED  BY <1>1, IpcTypesHold, BindAtFirst, BindAfter, PTL DEF Spec

-----------------------------------------------------------------------------
\* Who makes an object waits for the other process and removes it last.
Waits == [b1 |-> 2, d1 |-> 2, d2 |-> 4]
Removes == [b1 |-> 4, d1 |-> 4, d2 |-> 5]
Objects == [b1 |-> "shm", d1 |-> "queue", d2 |-> "queue"]
ObjectInv ==
  /\ ~spoiled => (program # "b1" => memory = Nothing) /\ (program \notin {"d1", "d2"} => queue = <<>>)
  /\ program \in {"b1", "d1", "d2"} =>
     /\ pc["parent"] > Waits[program] => status["child"] # "running"
     /\ ~spoiled /\ pc["parent"] > Removes[program] => queue = <<>> /\ memory = Nothing
     /\ ~killed /\ status["parent"] # "running" => pc["parent"] > Removes[program]

LEMMA ObjectCalls ==
  ASSUME program \in {"b1", "d1", "d2"}
  PROVE  /\ DOMAIN Programs[program] = {"parent", "child"}
         /\ Waits[program] \in Nat /\ Removes[program] \in Nat /\ Waits[program] < Removes[program]
         /\ Len(Script("parent")) = Removes[program]
         /\ Script("parent")[Waits[program]] = <<"wait", "child">>
         /\ Script("parent")[Removes[program]] = <<"remove", Objects[program]>>
<1>1. CASE program = "b1"
  BY <1>1, ProgramsAre DEF Script, SharedMemory, SharedMemoryParent, Waits, Removes, Objects
<1>2. CASE program = "d1"
  BY <1>2, ProgramsAre DEF Script, MessageQueue, Waits, Removes, Objects
<1>3. CASE program = "d2"
  BY <1>3, ProgramsAre DEF Script, NonBlockingReceive, NonBlockingReceiveParent, Waits, Removes, Objects
<1> QED  BY <1>1, <1>2, <1>3

\* Only the programs for it use the memory and the queue.
LEMMA ObjectsAfter ==
  ASSUME IpcTypes, NEW p \in Processes, Step(p)
  PROVE  /\ memory' = memory \/ memory' = Nothing \/ program = "b1"
         /\ queue = <<>> => queue' = <<>> \/ program \in {"d1", "d2"}
<1>1. Located /\ status[p] = "running" /\ Effect(p) /\ queue \in Seq(Letters)
  BY StepPerforms, EffectOf DEF IpcTypes, MailTypes
<1>2. ASSUME pc[p] <= Len(Script(p)) PROVE GoodCall(program, p, pc[p], Script(p)[pc[p]])
  BY <1>1, <1>2, CallIsGood
<1>3. CASE StoreMemory(p) \/ AppendMemory(p)
  <2>1. pc[p] <= Len(Script(p)) /\ Script(p)[pc[p]][1] \in {"store", "append"} /\ queue' = queue
    BY <1>3 DEF StoreMemory, AppendMemory, At
  <2> QED  BY <1>2, <2>1 DEF GoodCall
<1>4. CASE SendMessage(p)
  <2>1. pc[p] <= Len(Script(p)) /\ Script(p)[pc[p]][1] = "msgsnd" /\ memory' = memory
    BY <1>4 DEF SendMessage, At
  <2> QED  BY <1>2, <2>1 DEF GoodCall
<1>5. CASE RemoveObject(p)
  BY <1>5 DEF RemoveObject
<1>6. CASE ReceiveMessage(p) \/ TryReceiveMessage(p)
  <2>1. memory' = memory
    BY <1>6 DEF ReceiveMessage, TryReceiveMessage
  <2>2. queue = <<>> => queue' = queue
    <3>1. queue = <<>> => OfType(Arg(p)) = {}
      BY DEF OfType
    <3> QED  BY <1>6, <3>1 DEF ReceiveMessage, TryReceiveMessage
  <2> QED  BY <2>1, <2>2
<1>7. CASE CloseEnds(p) \/ Duplicate(p) \/ OpenFifo(p) \/ OpenedFifo(p) \/ Write(p) \/ Read(p)
           \/ ReadAll(p) \/ WaitForChild(p) \/ Sleep(p) \/ FetchMemory(p)
  BY <1>7 DEF CloseEnds, Duplicate, OpenFifo, OpenedFifo, Write, Read, ReadAll, WaitForChild, Sleep,
              FetchMemory, kernel
<1>8. CASE Unlink(p) \/ Bind(p) \/ Listen(p) \/ Connect(p) \/ Accept(p) \/ ReadPeer(p) \/ WritePeer(p)
           \/ ClosePeer(p) \/ CloseListener(p) \/ SendTo(p) \/ ReceiveFrom(p) \/ Reply(p) \/ Again(p)
           \/ Exit(p)
  BY <1>8 DEF Unlink, Bind, Listen, Connect, Accept, ReadPeer, WritePeer, ClosePeer, CloseListener, SendTo,
              ReceiveFrom, Reply, Again, Exit, kernel
<1> QED  BY <1>3, <1>4, <1>5, <1>6, <1>7, <1>8 DEF Step

\* The parent of such a program leaves it at the end of its script.
LEMMA ParentStays ==
  ASSUME IpcTypes, program \in {"b1", "d1", "d2"}, Step("parent"), status'["parent"] # "running"
  PROVE  Exit("parent")
<1>1. Located /\ status["parent"] = "running" /\ "parent" \in Processes
  BY StepPerforms DEF IpcTypes, Processes
<1>2. ASSUME NEW op \in {"write", "writePeer", "connect", "sendTo", "bind"}, At("parent", op) PROVE FALSE
  <2>1. pc["parent"] <= Len(Script("parent")) /\ Script("parent")[pc["parent"]][1] = op
    BY <1>2 DEF At
  <2>2. GoodCall(program, "parent", pc["parent"], Script("parent")[pc["parent"]])
    BY <1>1, <2>1, CallIsGood
  <2> QED  BY <2>1, <2>2 DEF GoodCall
<1>3. status' # status
  BY <1>1
<1> QED  BY <1>1, <1>2, <1>3, StatusAfter DEF Write, WritePeer, Connect, SendTo, Bind

LEMMA ObjectAfter == ASSUME IpcTypes, ObjectInv, NEW p \in Processes, Step(p) PROVE ObjectInv'
<1> DEFINE W == Waits[program]
           R == Removes[program]
<1>1. /\ Located /\ status[p] = "running" /\ "parent" \in Processes /\ "child" \in Processes
      /\ UNCHANGED <<run, program, killed, spoiled>>
      /\ status \in [Processes -> {"running", "ended", "killed", "failed", "off"}]
      /\ pc \in [Processes -> Nat \ {0}]
  BY StepPerforms DEF IpcTypes, Processes, Located
<1>2. ~spoiled' => (program' # "b1" => memory' = Nothing) /\ (program' \notin {"d1", "d2"} => queue' = <<>>)
  BY <1>1, ObjectsAfter DEF ObjectInv
<1>3. ASSUME program \in {"b1", "d1", "d2"}
      PROVE  /\ pc'["parent"] > W => status'["child"] # "running"
             /\ ~spoiled /\ pc'["parent"] > R => queue' = <<>> /\ memory' = Nothing
             /\ ~killed /\ status'["parent"] # "running" => pc'["parent"] > R
  <2>1. /\ W \in Nat /\ R \in Nat /\ W < R /\ Len(Script("parent")) = R
        /\ Script("parent")[W] = <<"wait", "child">>
        /\ Script("parent")[R] = <<"remove", Objects[program]>>
        /\ p \in {"parent", "child"}
    BY <1>1, <1>3, ObjectCalls DEF Located
  <2>2. /\ pc["parent"] > W => status["child"] # "running"
        /\ ~spoiled /\ pc["parent"] > R => queue = <<>> /\ memory = Nothing
        /\ ~killed /\ status["parent"] # "running" => pc["parent"] > R
    BY <1>3 DEF ObjectInv
  <2> HIDE DEF W, R
  <2>3. CASE p = "child"
    <3>1. pc'["parent"] = pc["parent"] /\ status'["parent"] = status["parent"] /\ ~(pc["parent"] > W)
      <4>1. pc' = pc \/ pc' = [pc EXCEPT ![p] = @ + 1]
        BY <2>3, PlaceAfter
      <4>2. status' = status \/ \E how \in {"ended", "killed", "failed"} : status' = [status EXCEPT ![p] = how]
        BY PlaceAfter
      <4> QED  BY <1>1, <2>2, <2>3, <4>1, <4>2
    <3> QED  BY <1>1, <2>1, <2>2, <3>1
  <2>4. CASE p = "parent" /\ pc["parent"] <= R
    <3>1. pc["parent"] \in Nat /\ Performs("parent", Script("parent")[pc["parent"]][1])
      BY <1>1, <2>1, <2>4, StepPerforms
    <3>2. status' = status
      BY <1>1, <1>3, <2>1, <2>4, <3>1, ParentStays, PlaceAfter DEF Exit
    <3>3. pc'["parent"] \in {pc["parent"], pc["parent"] + 1}
      <4>1. pc' = pc \/ pc' = [pc EXCEPT ![p] = @ + 1]
        BY <1>1, <2>4, <3>2, PlaceAfter
      <4> QED  BY <1>1, <2>4, <4>1
    <3>4. ASSUME pc["parent"] = W PROVE status["child"] # "running"
      BY <2>1, <3>1, <3>4 DEF Performs, WaitForChild, Arg
    <3>5. ASSUME pc["parent"] = R, ~spoiled PROVE queue' = <<>> /\ memory' = Nothing
      <4>1. RemoveObject("parent") /\ Arg("parent") = Objects[program]
        BY <2>1, <3>1, <3>5 DEF Performs, Arg
      <4>2. Objects[program] = IF program = "b1" THEN "shm" ELSE "queue"
        BY <1>3 DEF Objects
      <4> QED  BY <1>3, <3>5, <4>1, <4>2 DEF RemoveObject, ObjectInv
    <3> QED  BY <1>1, <2>1, <2>2, <2>4, <3>1, <3>2, <3>3, <3>4, <3>5
  <2>5. CASE p = "parent" /\ pc["parent"] > R
    <3>1. UNCHANGED <<pc, queue, memory>> /\ status' = [status EXCEPT !["parent"] = "ended"]
      <4>1. pc["parent"] \in Nat /\ ~(pc["parent"] <= R)
        BY <1>1, <2>1, <2>5
      <4>2. Exit("parent")
        BY <2>1, <2>5, <4>1, StepPerforms
      <4> QED  BY <4>2 DEF Exit, Leave
    <3> QED  BY <1>1, <2>1, <2>2, <2>5, <3>1
  <2>6. pc["parent"] \in Nat
    BY <1>1
  <2> QED  BY <2>1, <2>3, <2>4, <2>5, <2>6
<1> QED  BY <1>1, <1>2, <1>3 DEF ObjectInv

-----------------------------------------------------------------------------
\* The ends of the others stay, and only a client that connects waits to be accepted.
LEMMA OthersEnds ==
  ASSUME NEW p \in Processes, Step(p), NEW e \in ends, e[1] # p, e[1] # "backlog"
  PROVE  e \in ends'
<1>1. CASE CloseEnds(p) \/ CloseListener(p)
  BY <1>1 DEF CloseEnds, CloseListener
<1>2. CASE Duplicate(p) \/ OpenFifo(p) \/ Listen(p)
  BY <1>2 DEF Duplicate, OpenFifo, Listen
<1>3. CASE Write(p) \/ WritePeer(p) \/ SendTo(p) \/ Bind(p) \/ Connect(p) \/ Exit(p)
  BY <1>3 DEF Write, WritePeer, SendTo, Bind, Connect, Exit, WriteTo, Leave, Without
<1>4. CASE Accept(p) \/ ClosePeer(p)
  <2>1. \A k, h : e \in ServerEnds(k, h) => e[1] = h
    BY DEF ServerEnds
  <2> QED  BY <1>4, <2>1 DEF Accept, ClosePeer
<1>5. CASE OpenedFifo(p) \/ Read(p) \/ ReadAll(p) \/ WaitForChild(p) \/ Sleep(p) \/ FetchMemory(p)
            \/ Again(p)
  BY <1>5 DEF OpenedFifo, Read, ReadAll, WaitForChild, Sleep, FetchMemory, Again, kernel
<1>6. CASE StoreMemory(p) \/ AppendMemory(p) \/ RemoveObject(p) \/ SendMessage(p)
            \/ ReceiveMessage(p) \/ TryReceiveMessage(p)
  BY <1>6 DEF StoreMemory, AppendMemory, RemoveObject, SendMessage, ReceiveMessage, TryReceiveMessage
<1>7. CASE Unlink(p) \/ ReadPeer(p) \/ ReceiveFrom(p) \/ Reply(p)
  BY <1>7 DEF Unlink, ReadPeer, ReceiveFrom, Reply
<1> QED  BY <1>1, <1>2, <1>3, <1>4, <1>5, <1>6, <1>7 DEF Step

LEMMA NewInBacklog ==
  ASSUME NEW p \in Processes, Step(p), NEW e \in ends', e[1] = "backlog", e \notin ends
  PROVE  Connect(p) /\ e \in ServerEnds(p, "backlog")
<1>1. p # "backlog"
  BY DEF Processes
<1>2. CASE CloseEnds(p) \/ CloseListener(p)
  BY <1>2 DEF CloseEnds, CloseListener
<1>3. CASE Duplicate(p) \/ OpenFifo(p) \/ Listen(p)
  BY <1>1, <1>3 DEF Duplicate, OpenFifo, Listen
<1>4. CASE Write(p) \/ WritePeer(p) \/ SendTo(p) \/ Bind(p) \/ Exit(p)
  BY <1>1, <1>4 DEF Write, WritePeer, SendTo, Bind, Exit, WriteTo, Leave, Without
<1>5. CASE Connect(p)
  BY <1>1, <1>5 DEF Connect, Leave, Without
<1>6. CASE Accept(p) \/ ClosePeer(p)
  <2>1. \A k, h : e \in ServerEnds(k, h) => e[1] = h
    BY DEF ServerEnds
  <2> QED  BY <1>1, <1>6, <2>1 DEF Accept, ClosePeer
<1>7. CASE OpenedFifo(p) \/ Read(p) \/ ReadAll(p) \/ WaitForChild(p) \/ Sleep(p) \/ FetchMemory(p)
            \/ Again(p)
  BY <1>7 DEF OpenedFifo, Read, ReadAll, WaitForChild, Sleep, FetchMemory, Again, kernel
<1>8. CASE StoreMemory(p) \/ AppendMemory(p) \/ RemoveObject(p) \/ SendMessage(p)
            \/ ReceiveMessage(p) \/ TryReceiveMessage(p)
  BY <1>8 DEF StoreMemory, AppendMemory, RemoveObject, SendMessage, ReceiveMessage, TryReceiveMessage
<1>9. CASE Unlink(p) \/ ReadPeer(p) \/ ReceiveFrom(p) \/ Reply(p)
  BY <1>9 DEF Unlink, ReadPeer, ReceiveFrom, Reply
<1> QED  BY <1>2, <1>3, <1>4, <1>5, <1>6, <1>7, <1>8, <1>9 DEF Step

LEMMA PeerStays == ASSUME IpcTypes, NEW p \in Processes, Step(p), p # "server" PROVE peer' = peer
<1>1. ASSUME Accept(p) PROVE FALSE
  <2>1. pc[p] <= Len(Script(p)) /\ Script(p)[pc[p]][1] = "accept"
    BY <1>1 DEF Accept, At
  <2>2. GoodCall(program, p, pc[p], Script(p)[pc[p]])
    BY <2>1, StepPerforms, CallIsGood DEF IpcTypes
  <2> QED  BY <2>1, <2>2 DEF GoodCall
<1>2. CASE CloseEnds(p) \/ Duplicate(p) \/ OpenFifo(p) \/ OpenedFifo(p) \/ Write(p) \/ Read(p)
           \/ ReadAll(p) \/ WaitForChild(p) \/ Sleep(p)
  BY <1>2 DEF CloseEnds, Duplicate, OpenFifo, OpenedFifo, Write, Read, ReadAll, WaitForChild, Sleep
<1>3. CASE StoreMemory(p) \/ AppendMemory(p) \/ FetchMemory(p) \/ RemoveObject(p)
           \/ SendMessage(p) \/ ReceiveMessage(p) \/ TryReceiveMessage(p)
  BY <1>3 DEF StoreMemory, AppendMemory, FetchMemory, RemoveObject, SendMessage, ReceiveMessage, TryReceiveMessage
<1>4. CASE Unlink(p) \/ Bind(p) \/ Listen(p) \/ Connect(p) \/ ReadPeer(p) \/ WritePeer(p)
           \/ ClosePeer(p) \/ CloseListener(p) \/ SendTo(p) \/ ReceiveFrom(p) \/ Reply(p) \/ Again(p) \/ Exit(p)
  BY <1>4 DEF Unlink, Bind, Listen, Connect, ReadPeer, WritePeer, ClosePeer, CloseListener, SendTo,
              ReceiveFrom, Reply, Again, Exit
<1> QED  BY <1>1, <1>2, <1>3, <1>4 DEF Step

\* A client of the stream server that waits to be accepted, or for the answer.
Waiting(k) == status[k] = "running" /\ pc[k] \in {2, 3} /\ <<k, Down[k], "r", "fd">> \in ends
NothingDown == data["down"] = <<>> /\ data["down2"] = <<>>
Served(k) == Waiting(k) /\ ServerEnds(k, "server") \subseteq ends
StreamInv ==
  /\ ~spoiled => /\ (program \notin {"c2", "c3"} => files = {})
                 /\ program = "c2" => files \subseteq {"path"} /\ (pc["server"] > 9 => files = {})
  /\ program = "c2" /\ ~killed =>
     /\ status["server"] # "running" => pc["server"] > 9
     /\ pc["server"] <= 6 => NothingDown
     /\ pc["server"] <= 4 => \A k \in Clients : ServerEnds(k, "backlog") \subseteq ends => Waiting(k)
     /\ pc["server"] \in {5, 6} => Served(peer)
  /\ program = "c3" /\ ~killed => status["server"] = "running" /\ pc["server"] <= 5

LEMMA StreamClientCalls ==
  ASSUME NEW k \in Clients
  PROVE  /\ Len(StreamSockets[k]) = 4 /\ StreamSockets[k][1][1] = "connect"
         /\ StreamSockets[k][2] = <<"write", Up[k]>> /\ StreamSockets[k][3] = <<"read", Down[k]>>
         /\ Down[k] \in {"down", "down2"}
  BY DEF Clients, StreamSockets, StreamClient, Up, Down

\* Nothing is sent down before the server writes, at the sixth of its calls.
LEMMA NothingDownAfter ==
  ASSUME IpcTypes, program = "c2", NothingDown, NEW p \in Processes, Step(p),
         WritePeer(p) => pc["server"] # 6
  PROVE  NothingDown'
<1>1. /\ Located /\ status[p] = "running"
      /\ \A c \in {"down", "down2"} : data[c] = <<>> /\ c \in DOMAIN data
  BY StepPerforms DEF IpcTypes, NothingDown, MailTypes, Channels
<1>2. ASSUME NEW op, At(p, op)
      PROVE  pc[p] <= Len(Script(p)) /\ GoodCall(program, p, pc[p], <<op, Arg(p)>>)
  <2>1. pc[p] <= Len(Script(p)) /\ Script(p)[pc[p]][1] = op
    BY <1>2 DEF At
  <2>2. GoodCall(program, p, pc[p], Script(p)[pc[p]])
    BY <1>1, <2>1, CallIsGood
  <2> QED  BY <2>1, <2>2 DEF GoodCall, Arg
<1>3. SUFFICES ASSUME NEW c \in {"down", "down2"} PROVE data'[c] = <<>>
  BY DEF NothingDown
<1>4. CASE Write(p)
  <2>1. Arg(p) \in {"up", "up2"}
    BY <1>2, <1>4 DEF Write, GoodCall
  <2> QED  BY <1>1, <1>4, <2>1 DEF Write, WriteTo
<1>5. CASE SendTo(p)
  <2>1. Arg(p) = "path"
    BY <1>2, <1>5 DEF SendTo, GoodCall
  <2> QED  BY <1>1, <1>5, <2>1 DEF SendTo
<1>6. CASE Reply(p)
  BY <1>2, <1>6 DEF Reply, GoodCall
<1>7. CASE WritePeer(p)
  BY <1>2, <1>7 DEF WritePeer, GoodCall
<1>8. CASE Read(p) \/ ReadAll(p) \/ ReadPeer(p)
  <2>1. ASSUME NEW d, ReadFrom(p, d) PROVE data' = data \/ (data[d] # <<>> /\ data' = [data EXCEPT ![d] = Tail(@)])
    <3>1. CASE data[d] = <<>>
      BY <2>1, <3>1 DEF ReadFrom
    <3>2. CASE data[d] # <<>>
      BY <2>1, <3>2 DEF ReadFrom
    <3> QED  BY <3>1, <3>2
  <2>2. \E d : data' = data \/ (data[d] # <<>> /\ data' = [data EXCEPT ![d] = Tail(@)])
    BY <1>8, <2>1 DEF Read, ReadAll, ReadPeer
  <2> QED  BY <1>1, <2>2
<1>9. CASE ReceiveFrom(p)
  BY <1>1, <1>9 DEF ReceiveFrom
<1>10. CASE CloseEnds(p) \/ Duplicate(p) \/ OpenFifo(p) \/ OpenedFifo(p) \/ WaitForChild(p) \/ Sleep(p)
            \/ FetchMemory(p) \/ Again(p) \/ Exit(p)
  BY <1>1, <1>10 DEF CloseEnds, Duplicate, OpenFifo, OpenedFifo, WaitForChild, Sleep, FetchMemory, Again,
                     Exit, kernel
<1>11. CASE StoreMemory(p) \/ AppendMemory(p) \/ RemoveObject(p) \/ SendMessage(p)
            \/ ReceiveMessage(p) \/ TryReceiveMessage(p)
  BY <1>1, <1>11 DEF StoreMemory, AppendMemory, RemoveObject, SendMessage, ReceiveMessage, TryReceiveMessage
<1>12. CASE Unlink(p) \/ Bind(p) \/ Listen(p) \/ Connect(p) \/ Accept(p) \/ ClosePeer(p) \/ CloseListener(p)
  BY <1>1, <1>12 DEF Unlink, Bind, Listen, Connect, Accept, ClosePeer, CloseListener
<1> QED  BY <1>4, <1>5, <1>6, <1>7, <1>8, <1>9, <1>10, <1>11, <1>12 DEF Step

\* A client goes on waiting while somebody holds the other ends of its connection and
\* has written nothing.
LEMMA StillWaiting ==
  ASSUME IpcTypes, program = "c2", NothingDown, NEW k \in Clients, Waiting(k), NEW p \in Processes, Step(p),
         NEW h, ServerEnds(k, h) \subseteq ends
  PROVE  Waiting(k)'
<1>1. /\ status \in [Processes -> {"running", "ended", "killed", "failed", "off"}]
      /\ pc \in [Processes -> Nat \ {0}] /\ k \in Processes /\ k # "server" /\ k # "backlog"
      /\ status[k] = "running" /\ pc[k] \in {2, 3} /\ <<k, Down[k], "r", "fd">> \in ends
  BY DEF IpcTypes, Located, Waiting, Clients, Processes
<1>2. CASE p # k
  <2>1. <<k, Down[k], "r", "fd">> \in ends'
    BY <1>1, <1>2, OthersEnds
  <2>2. status'[k] = status[k] /\ pc'[k] = pc[k]
    BY <1>1, <1>2, PlaceAfter
  <2> QED  BY <1>1, <2>1, <2>2 DEF Waiting
<1>3. CASE p = k
  <2>1. /\ Len(Script(k)) = 4 /\ Script(k)[2] = <<"write", Up[k]>> /\ Script(k)[3] = <<"read", Down[k]>>
        /\ data[Down[k]] = <<>>
    BY StreamClientCalls, ProgramsAre DEF Script, NothingDown
  <2>2. Holders(Up[k], "r") # {} /\ Holders(Down[k], "w") # {}
    BY DEF ServerEnds, Holders
  <2>3. CASE pc[k] = 2
    <3>1. Write(k) /\ Arg(k) = Up[k]
      BY SMTT(30), <1>3, <2>1, <2>3, StepPerforms DEF Performs, Arg
    <3> QED  BY <1>1, <2>2, <2>3, <3>1 DEF Write, WriteTo, Return, Waiting
  <2>4. CASE pc[k] = 3
    <3>1. Read(k) /\ Arg(k) = Down[k]
      <4>1. /\ pc[k] <= Len(Script(k)) /\ ~(pc[k] > Len(Script(k)))
            /\ Script(k)[pc[k]] = <<"read", Down[k]>> /\ Script(k)[pc[k]][1] = "read"
        BY <2>1, <2>4
      <4>2. Performs(k, "read")
        BY <1>3, <4>1, StepPerforms
      <4> QED  BY <4>1, <4>2 DEF Performs, Arg
    <3> QED  BY <2>1, <2>2, <3>1 DEF Read, ReadFrom
  <2> QED  BY <1>1, <2>3, <2>4
<1> QED  BY <1>2, <1>3

\* The servers leave at the end of their scripts: whom one of them answers still waits.
LEMMA ServerStays ==
  ASSUME IpcTypes, BindInv, Step("server"), status'["server"] # "running",
         program = "c2" /\ pc["server"] = 6 => Served(peer)
  PROVE  Exit("server")
<1>1. /\ Located /\ status["server"] = "running" /\ "server" \in Processes
      /\ status \in [Processes -> {"running", "ended", "killed", "failed", "off"}]
  BY StepPerforms DEF IpcTypes, Processes, Located
<1>2. ASSUME NEW op, At("server", op) PROVE GoodCall(program, "server", pc["server"], <<op, Arg("server")>>)
  <2>1. pc["server"] <= Len(Script("server")) /\ Script("server")[pc["server"]][1] = op
    BY <1>2 DEF At
  <2>2. GoodCall(program, "server", pc["server"], Script("server")[pc["server"]])
    BY <1>1, <2>1, CallIsGood
  <2> QED  BY <2>1, <2>2 DEF GoodCall, Arg
<1>3. ~Write("server") /\ ~Connect("server") /\ ~SendTo("server")
  BY <1>2 DEF Write, Connect, SendTo, GoodCall
<1>4. CASE WritePeer("server")
  <2>1. program = "c2" /\ pc["server"] = 6
    BY <1>2, <1>4 DEF WritePeer, GoodCall
  <2>2. Holders(Down[peer], "r") # {}
    BY <2>1 DEF Served, Waiting, Holders
  <2> QED  BY <1>1, <1>4, <2>2 DEF WritePeer, WriteTo
<1>5. CASE Bind("server")
  <2>1. status'["server"] # "failed"
    BY <1>1, NobodyFails
  <2> QED  BY <1>1, <1>5, <2>1 DEF Bind, Leave
<1> QED  BY <1>1, <1>3, <1>4, <1>5, StatusAfter

\* The path of the stream server is there until it ends.
LEMMA PathsAfter ==
  ASSUME IpcTypes, StreamInv, NEW p \in Processes, Step(p), ~spoiled
  PROVE  /\ program \notin {"c2", "c3"} => files' = {}
         /\ program = "c2" => files' \subseteq {"path"} /\ (pc'["server"] > 9 => files' = {})
<1>1. Located /\ pc \in [Processes -> Nat \ {0}] /\ "server" \in Processes
  BY DEF IpcTypes, Located, Processes
<1>2. ASSUME Bind(p)
      PROVE  program \in {"c2", "c3"} /\ (program = "c2" => p = "server" /\ Arg(p) = "path")
  <2>1. pc[p] <= Len(Script(p)) /\ Script(p)[pc[p]][1] = "bind"
    BY <1>2 DEF Bind, At
  <2>2. GoodCall(program, p, pc[p], Script(p)[pc[p]])
    BY <1>1, <2>1, StepPerforms, CallIsGood
  <2>3. Arg(p) = Own[p] /\ Own["server"] = "path"
    BY <1>2, BindCall DEF Own
  <2> QED  BY <2>1, <2>2, <2>3 DEF GoodCall
<1>3. program \notin {"c2", "c3"} => files' = {}
  BY <1>2, FilesAfter DEF StreamInv
<1>4. ASSUME program = "c2" PROVE files' \subseteq {"path"}
  BY <1>2, <1>4, FilesAfter DEF StreamInv
<1>5. ASSUME program = "c2", pc'["server"] > 9 PROVE files' = {}
  <2>1. CASE pc["server"] > 9
    <3>1. ~Bind(p)
      BY <1>2, <1>5, <2>1, BindCall DEF AtBind
    <3> QED  BY <1>5, <2>1, <3>1, FilesAfter DEF StreamInv
  <2>2. CASE ~(pc["server"] > 9)
    <3>1. p = "server" /\ pc["server"] = 9
      <4>1. pc' = pc \/ pc' = [pc EXCEPT ![p] = @ + 1]
        BY <1>5, PlaceAfter
      <4>2. pc["server"] \in Nat /\ pc'["server"] # pc["server"]
        BY <1>1, <1>5, <2>2
      <4>3. p = "server" /\ pc'["server"] = pc["server"] + 1
        BY <1>1, <4>1, <4>2
      <4> QED  BY <1>5, <2>2, <4>2, <4>3
    <3>2. Len(Script(p)) = 9 /\ Script(p)[pc[p]] = <<"unlink", "path">>
      BY <1>5, <3>1, StreamCalls, ProgramsAre DEF Script
    <3>3. Performs(p, "unlink") /\ Arg(p) = "path"
      BY <3>1, <3>2, StepPerforms DEF Arg
    <3> QED  BY <1>5, <3>3 DEF Performs, Unlink, StreamInv
  <2> QED  BY <2>1, <2>2
<1> QED  BY <1>3, <1>4, <1>5

\* The places of the server after a step.
LEMMA ServerPlace ==
  ASSUME IpcTypes, NEW p \in Processes, Step(p)
  PROVE  /\ pc["server"] \in Nat /\ pc'["server"] \in Nat
         /\ \/ pc'["server"] = pc["server"]
            \/ p = "server" /\ pc'["server"] = pc["server"] + 1 /\ status' = status
            \/ p = "server" /\ program = "c3" /\ pc'["server"] = 3 /\ status' = status
         /\ p # "server" => pc'["server"] = pc["server"] /\ status'["server"] = status["server"]
<1>1. /\ status \in [Processes -> {"running", "ended", "killed", "failed", "off"}]
      /\ pc \in [Processes -> Nat \ {0}] /\ "server" \in Processes
  BY DEF IpcTypes, Located, Processes
<1>2. CASE status' = status /\ pc' = pc
  BY <1>1, <1>2
<1>3. CASE status' = status /\ pc' = [pc EXCEPT ![p] = @ + 1]
  BY <1>1, <1>3
<1>4. CASE status' = status /\ program = "c3" /\ p = "server" /\ pc' = [pc EXCEPT ![p] = 3]
  BY <1>1, <1>4
<1>5. CASE UNCHANGED pc /\ \E how \in {"ended", "killed", "failed"} : status' = [status EXCEPT ![p] = how]
  BY <1>1, <1>5
<1> QED  BY <1>2, <1>3, <1>4, <1>5, PlaceAfter

\* Whoever comes into the backlog waits for the server.
LEMMA BacklogWaits ==
  ASSUME IpcTypes, program = "c2", NothingDown, NEW p \in Processes, Step(p), NEW k \in Clients,
         ServerEnds(k, "backlog") \subseteq ends => Waiting(k),
         ServerEnds(k, "backlog") \subseteq ends'
  PROVE  Waiting(k)'
<1>1. CASE ServerEnds(k, "backlog") \subseteq ends
  BY <1>1, StillWaiting
<1>2. CASE ~(ServerEnds(k, "backlog") \subseteq ends)
  <2>1. PICK e \in ServerEnds(k, "backlog") : e \notin ends
    BY <1>2
  <2>2. e[1] = "backlog" /\ e[2] \in {Up[k], Down[k]}
    BY <2>1 DEF ServerEnds
  <2>3. Connect(p) /\ e \in ServerEnds(p, "backlog")
    BY <2>1, <2>2, NewInBacklog
  <2>4. /\ Located /\ status[p] = "running" /\ pc[p] <= Len(Script(p)) /\ Script(p)[pc[p]][1] = "connect"
        /\ pc \in [Processes -> Nat \ {0}]
    BY <2>3, StepPerforms DEF IpcTypes, Connect, At, Located
  <2>5. p \in Clients /\ pc[p] = 1
    BY <2>4, CallIsGood DEF GoodCall
  <2>6. p = k
    <3>1. e[2] \in {Up[p], Down[p]}
      BY <2>3 DEF ServerEnds
    <3> QED  BY <2>2, <2>5, <3>1 DEF Clients, Up, Down
  <2>7. pc'[k] = 2 /\ status' = status /\ <<k, Down[k], "r", "fd">> \in ends'
    <3>1. e \notin Without({p})
      BY <2>1 DEF Without
    <3>2. Bound("path") /\ Holders("path", "listen") # {}
      BY <2>1, <2>3, <3>1 DEF Connect, Leave
    <3> QED  BY <2>3, <2>4, <2>5, <2>6, <3>2 DEF Connect, Return
  <2> QED  BY <2>4, <2>6, <2>7 DEF Waiting
<1> QED  BY <1>1, <1>2

\* Whom the server has accepted waits until it has written the answer.
LEMMA ServedAfter ==
  ASSUME IpcTypes, StreamInv, program = "c2", ~killed, NEW p \in Processes, Step(p), pc'["server"] \in {5, 6}
  PROVE  Served(peer)'
<1>1. /\ pc["server"] \in {4, 5, 6} /\ peer \in Clients \cup {Nobody} /\ PeerKnown
      /\ p # "server" => pc'["server"] = pc["server"]
      /\ p = "server" => pc'["server"] = pc["server"] + 1 \/ pc'["server"] = pc["server"]
  BY ServerPlace DEF IpcTypes, PeerKnown
<1>2. NothingDown
  BY <1>1 DEF StreamInv
<1>3. CASE p # "server"
  <2>1. Served(peer) /\ peer' = peer /\ peer \in Clients
    BY <1>1, <1>3, PeerStays DEF StreamInv, PeerKnown
  <2>2. Waiting(peer)'
    <3>1. ASSUME NEW k \in Clients, Served(k) PROVE Waiting(k)'
      BY <1>2, <3>1, StillWaiting DEF Served
    <3>2. \A k \in Clients : Served(k) => Waiting(k)'
      BY <3>1
    <3> QED  BY <2>1, <3>2 DEF Waiting
  <2>3. ServerEnds(peer, "server") \subseteq ends'
    <3>1. \A e \in ServerEnds(peer, "server") : e \in ends /\ e[1] = "server" /\ e[1] # p /\ e[1] # "backlog"
      BY <1>3, <2>1 DEF Served, ServerEnds
    <3> QED  BY <3>1, OthersEnds
  <2> QED  BY <2>1, <2>2, <2>3 DEF Served, ServerEnds
<1>4. CASE p = "server" /\ pc["server"] = 4
  <2>1. Len(Script(p)) = 9 /\ Script(p)[pc[p]][1] = "accept"
    BY <1>4, StreamCalls, ProgramsAre DEF Script
  <2>2. Accept(p)
    BY <1>4, <2>1, StepPerforms DEF Performs
  <2>3. PICK k \in Clients :
          /\ ServerEnds(k, "backlog") \subseteq ends
          /\ ends' = (ends \ ServerEnds(k, "backlog")) \cup ServerEnds(k, p)
          /\ peer' = k
    BY <2>2 DEF Accept
  <2>4. Waiting(k)
    BY <1>4, <2>3 DEF StreamInv
  <2>5. Waiting(k)'
    BY <1>2, <2>3, <2>4, StillWaiting
  <2> QED  BY <1>4, <2>3, <2>5 DEF Served, Waiting, ServerEnds
<1>5. CASE p = "server" /\ pc["server"] # 4
  <2>1. Served(peer) /\ peer \in Clients /\ pc["server"] \in {5, 6}
    BY <1>1, <1>5 DEF StreamInv, PeerKnown
  <2>2. Len(Script(p)) = 9 /\ Script(p)[5][1] = "readPeer" /\ Script(p)[6][1] = "writePeer"
    BY <1>5, StreamCalls, ProgramsAre DEF Script
  <2>3. CASE pc["server"] = 5
    <3>1. ReadPeer(p)
      BY <1>5, <2>2, <2>3, StepPerforms DEF Performs
    <3>2. UNCHANGED <<status, peer, ends>> /\ pc' = [pc EXCEPT ![p] = @ + 1]
      BY <3>1 DEF ReadPeer, Return
    <3>3. pc'[peer] = pc[peer]
      BY <1>5, <2>1, <3>2 DEF IpcTypes, Located, Clients, Processes
    <3> QED  BY <2>1, <3>2, <3>3 DEF Served, Waiting
  <2>4. CASE pc["server"] = 6
    <3>1. WritePeer(p)
      BY <1>5, <2>2, <2>4, StepPerforms DEF Performs
    <3>2. Holders(Down[peer], "r") # {}
      BY <2>1 DEF Served, Waiting, Holders
    <3>3. pc' = [pc EXCEPT ![p] = @ + 1]
      BY <3>1, <3>2 DEF WritePeer, WriteTo, Return
    <3> QED  BY <1>5, <2>4, <3>3 DEF IpcTypes, Located, Processes
  <2> QED  BY <2>1, <2>3, <2>4
<1> QED  BY <1>3, <1>4, <1>5

LEMMA StreamAfter == ASSUME IpcTypes, BindInv, StreamInv, NEW p \in Processes, Step(p) PROVE StreamInv'
<1>1. /\ UNCHANGED <<run, program, killed, spoiled>> /\ status[p] = "running"
      /\ status \in [Processes -> {"running", "ended", "killed", "failed", "off"}]
      /\ pc \in [Processes -> Nat \ {0}] /\ "server" \in Processes /\ Located
  BY StepPerforms DEF IpcTypes, Processes, Located
<1>2. ASSUME program = "c2", ~killed PROVE status'["server"] # "running" => pc'["server"] > 9
  <2>1. CASE p = "server" /\ status'["server"] # "running"
    <3>1. Exit("server")
      BY <1>2, <2>1, ServerStays DEF StreamInv
    <3>2. pc["server"] > 9 /\ pc' = pc
      BY <1>2, <3>1, StreamCalls, ProgramsAre DEF Exit, Script
    <3> QED  BY <3>2
  <2>2. CASE p # "server"
    BY <1>2, <2>2, ServerPlace DEF StreamInv
  <2> QED  BY <2>1, <2>2
<1>3. ASSUME program = "c2", ~killed, pc'["server"] <= 6 PROVE NothingDown'
  <2>1. pc["server"] <= 6
    BY <1>3, ServerPlace
  <2>2. NothingDown
    BY <1>3, <2>1 DEF StreamInv
  <2>3. ASSUME WritePeer(p), pc["server"] = 6 PROVE FALSE
    <3>1. pc[p] <= Len(Script(p)) /\ Script(p)[pc[p]][1] = "writePeer"
      BY <2>3 DEF WritePeer, At
    <3>2. p = "server"
      BY <1>1, <3>1, CallIsGood DEF GoodCall
    <3>3. Holders(Down[peer], "r") # {}
      BY <1>3, <2>3 DEF StreamInv, Served, Waiting, Holders
    <3>4. pc' = [pc EXCEPT ![p] = @ + 1]
      BY <2>3, <3>3 DEF WritePeer, WriteTo, Return
    <3> QED  BY <1>1, <1>3, <2>3, <3>2, <3>4
  <2> QED  BY <1>3, <2>2, <2>3, NothingDownAfter
<1>4. ASSUME program = "c2", ~killed, pc'["server"] <= 4, NEW k \in Clients, ServerEnds(k, "backlog") \subseteq ends'
      PROVE  Waiting(k)'
  <2>1. pc["server"] <= 4 /\ pc["server"] \in Nat
    BY <1>4, ServerPlace
  <2>2. NothingDown /\ (ServerEnds(k, "backlog") \subseteq ends => Waiting(k))
    BY <1>4, <2>1 DEF StreamInv
  <2> QED  BY <1>4, <2>2, BacklogWaits
<1>5. ASSUME program = "c3", ~killed PROVE status'["server"] = "running" /\ pc'["server"] <= 5
  <2>1. status["server"] = "running" /\ pc["server"] <= 5
    BY <1>5 DEF StreamInv
  <2>2. CASE p # "server"
    BY <2>1, <2>2, ServerPlace
  <2>3. CASE p = "server"
    <3>1. Len(Script(p)) = 5 /\ Script(p)[5] = <<"again", 3>>
      BY <1>5, <2>3, DatagramCalls, ProgramsAre DEF Script
    <3>2. pc["server"] \in Nat
      BY <1>1
    <3>3. status'["server"] = "running"
      BY <1>5, <2>1, <2>3, <3>1, <3>2, ServerStays DEF Exit
    <3>4. CASE pc["server"] = 5
      <4>1. Again(p) /\ Arg(p) = 3
        BY <2>3, <3>1, <3>4, StepPerforms DEF Performs, Arg
      <4> QED  BY <1>1, <2>3, <4>1 DEF Again
    <3> QED  BY <2>1, <3>2, <3>3, <3>4, ServerPlace
  <2> QED  BY <2>2, <2>3
<1>6. ~spoiled => /\ (program \notin {"c2", "c3"} => files' = {})
                  /\ program = "c2" => files' \subseteq {"path"} /\ (pc'["server"] > 9 => files' = {})
  BY PathsAfter
<1>7. ASSUME program = "c2", ~killed, pc'["server"] \in {5, 6} PROVE Served(peer)'
  BY <1>7, ServedAfter
<1> QED  BY <1>1, <1>2, <1>3, <1>4, <1>5, <1>6, <1>7 DEF StreamInv, ServerEnds

-----------------------------------------------------------------------------
\* The mail is of this run; what a run that was spoiled has left may be older.
OfRuns(s, R) == \A i \in 1 .. Len(s) : s[i].run \in R
LettersOf(s, n) == \A i \in 1 .. Len(s) : s[i].message.run = n
MailInv ==
  /\ \A c \in Channels \cup Paths : OfRuns(data[c], {run})
  /\ ~spoiled => /\ LettersOf(queue, run) /\ memory.run \in {0, run}
                 /\ \A p \in Processes : OfRuns(got[p], {0, run})

LEMMA RunsGrow ==
  ASSUME NEW S, NEW s \in Seq(S), NEW m, NEW R
  PROVE  /\ OfRuns(s, R) /\ m.run \in R => OfRuns(Append(s, m), R)
         /\ OfRuns(s, R) /\ s # <<>> => OfRuns(Tail(s), R) /\ Head(s).run \in R
         /\ OfRuns(<<>>, R)
  BY DEF OfRuns

LEMMA LettersGrow ==
  ASSUME NEW S, NEW s \in Seq(S), NEW m, NEW t, NEW n
  PROVE  /\ LettersOf(s, n) /\ m.run = n => LettersOf(Append(s, [type |-> t, message |-> m]), n)
         /\ \A i \in 1 .. Len(s) : LettersOf(s, n) => LettersOf(RemoveAt(s, i), n) /\ s[i].message.run = n
         /\ LettersOf(<<>>, n)
<1>1. ASSUME LettersOf(s, n), m.run = n PROVE LettersOf(Append(s, [type |-> t, message |-> m]), n)
  BY <1>1 DEF LettersOf
<1>2. ASSUME NEW i \in 1 .. Len(s), LettersOf(s, n) PROVE LettersOf(RemoveAt(s, i), n) /\ s[i].message.run = n
  <2> DEFINE u == RemoveAt(s, i)
  <2>1. /\ Len(u) = Len(s) - 1 /\ Len(s) \in Nat
        /\ \A j \in 1 .. Len(s) - 1 : u[j] = s[IF j < i THEN j ELSE j + 1]
    BY OneLetterLess
  <2> HIDE DEF u
  <2>2. \A j \in 1 .. Len(u) : u[j].message.run = n
    <3> TAKE j \in 1 .. Len(u)
    <3>1. (IF j < i THEN j ELSE j + 1) \in 1 .. Len(s)
      BY <2>1
    <3> QED  BY <1>2, <2>1, <3>1 DEF LettersOf
  <2> QED  BY <1>2, <2>2 DEF LettersOf, u
<1> QED  BY <1>1, <1>2 DEF LettersOf

LEMMA MailAfter == ASSUME IpcTypes, MailInv, NEW p \in Processes, Step(p) PROVE MailInv'
<1>1. MailTypes /\ UNCHANGED <<run, spoiled>> /\ Effect(p)
  BY StepPerforms, EffectOf DEF IpcTypes
<1>2. /\ Message(p).run = run /\ [Message(p) EXCEPT !.re = memory.from].run = run /\ Nothing.run = 0
      /\ run \in {0, run} /\ 0 \in {0, run}
  BY <1>1, MessageIsTyped DEF Nothing
<1>3. ASSUME NEW m, Receive(p, m), m.run \in {0, run}, ~spoiled
      PROVE  \A q \in Processes : OfRuns(got'[q], {0, run})
  <2> DEFINE runs == {0, run}
  <2>1. \A q \in Processes : OfRuns(got[q], runs) /\ got[q] \in Seq(Messages)
    BY <1>1, <1>3 DEF MailInv, MailTypes
  <2>2. m.run \in runs
    BY <1>3
  <2>3. got' = [got EXCEPT ![p] = Append(@, m)] /\ DOMAIN got = Processes
    BY <1>1, <1>3 DEF Receive, MailTypes
  <2> HIDE DEF runs
  <2>4. OfRuns(Append(got[p], m), runs)
    BY <2>1, <2>2, RunsGrow
  <2>5. \A q \in Processes : OfRuns(got'[q], runs)
    BY <2>1, <2>3, <2>4
  <2> QED  BY <2>5 DEF runs
<1>4. CASE Quiet(p) \/ TurnsBack(p) \/ Files(p) \/ \E how \in {"ended", "killed", "failed"} : Goes(p, how)
  <2>1. MailStays
    BY <1>4 DEF Quiet, TurnsBack, Files, Goes
  <2> QED  BY <1>1, <2>1 DEF MailStays, MailInv
<1>5. CASE Stores(p)
  <2>1. memory'.run \in {0, run}
    <3> DEFINE message == Message(p)
               answer == [Message(p) EXCEPT !.re = memory.from]
    <3>1. memory' \in {Nothing, message, answer} /\ message.run = run /\ answer.run = run
      BY <1>2, <1>5 DEF Stores
    <3> HIDE DEF message, answer
    <3> QED  BY <1>2, <3>1
  <2>2. UNCHANGED <<got, data, queue>>
    BY <1>5 DEF Stores
  <2> QED  BY <1>1, <2>1, <2>2 DEF MailInv
<1>6. CASE Clears(p)
  <2>1. UNCHANGED <<got, data, memory>> /\ queue' = <<>>
    BY <1>6 DEF Clears
  <2>2. LettersOf(queue', run)
    BY <2>1 DEF LettersOf
  <2> QED  BY <1>1, <2>1, <2>2 DEF MailInv
<1>7. CASE Fetches(p)
  <2>1. UNCHANGED <<data, queue, memory>> /\ Receive(p, memory)
    BY <1>7 DEF Fetches
  <2>2. ~spoiled => \A q \in Processes : OfRuns(got'[q], {0, run})
    BY <1>3, <2>1 DEF MailInv
  <2> QED  BY <1>1, <2>1, <2>2 DEF MailInv
<1>8. ASSUME NEW c, Posts(p, c) PROVE MailInv'
  <2>1. UNCHANGED <<got, queue, memory>> /\ data' = [data EXCEPT ![c] = Append(@, Message(p))]
    BY <1>8 DEF Posts
  <2>2. \A d \in Channels \cup Paths : OfRuns(data'[d], {run})
    <3> DEFINE R == {run}
               m == Message(p)
    <3>1. m.run \in R /\ \A d \in Channels \cup Paths : OfRuns(data[d], R) /\ data[d] \in Seq(Messages)
      BY <1>1, <1>2 DEF MailInv, MailTypes
    <3>2. DOMAIN data = Channels \cup Paths /\ data' = [data EXCEPT ![c] = Append(@, m)]
      BY <1>1, <2>1 DEF MailTypes
    <3> HIDE DEF R, m
    <3>3. \A d \in Channels \cup Paths : OfRuns(Append(data[d], m), R)
      BY <3>1, RunsGrow
    <3>4. \A d \in Channels \cup Paths : OfRuns(data'[d], R)
      BY <3>1, <3>2, <3>3
    <3> QED  BY <3>4 DEF R
  <2> QED  BY <1>1, <2>1, <2>2 DEF MailInv
<1>9. ASSUME NEW c \in Channels \cup Paths, Takes(p, c) PROVE MailInv'
  <2>1. UNCHANGED <<queue, memory>> /\ data' = [data EXCEPT ![c] = Tail(@)] /\ Receive(p, Head(data[c]))
    BY <1>9 DEF Takes
  <2> DEFINE R == {run}
  <2>2. /\ \A d \in Channels \cup Paths : OfRuns(data[d], R) /\ data[d] \in Seq(Messages)
        /\ data[c] # <<>> /\ DOMAIN data = Channels \cup Paths
    BY <1>1, <1>9 DEF MailInv, MailTypes, Takes
  <2>3. OfRuns(Tail(data[c]), R) /\ Head(data[c]).run \in R
    <3> HIDE DEF R
    <3> QED  BY <2>2, RunsGrow
  <2>4. \A d \in Channels \cup Paths : OfRuns(data'[d], R)
    <3> HIDE DEF R
    <3> QED  BY <2>1, <2>2, <2>3
  <2>5. ~spoiled => \A q \in Processes : OfRuns(got'[q], {0, run})
    BY <1>3, <2>1, <2>3
  <2> QED  BY <1>1, <2>1, <2>4, <2>5 DEF MailInv
<1>10. ASSUME NEW t \in {1, 2}, Mails(p, t) PROVE MailInv'
  <2>1. UNCHANGED <<got, data, memory>> /\ queue' = Append(queue, [type |-> t, message |-> Message(p)])
    BY <1>10 DEF Mails
  <2>2. ~spoiled => LettersOf(queue', run)
    <3> DEFINE m == Message(p)
    <3>1. queue' = Append(queue, [type |-> t, message |-> m]) /\ m.run = run /\ queue \in Seq(Letters)
      BY <1>1, <1>2, <2>1 DEF MailTypes
    <3> HIDE DEF m
    <3> QED  BY <3>1, LettersGrow DEF MailInv
  <2> QED  BY <1>1, <2>1, <2>2 DEF MailInv
<1>11. ASSUME NEW i \in 1 .. Len(queue), Pulls(p, i) PROVE MailInv'
  <2>1. UNCHANGED <<data, memory>> /\ queue' = RemoveAt(queue, i) /\ Receive(p, queue[i].message)
    BY <1>11 DEF Pulls
  <2>2. ~spoiled => LettersOf(queue', run) /\ queue[i].message.run = run
    <3>1. queue \in Seq(Letters)
      BY <1>1 DEF MailTypes
    <3> QED  BY <2>1, <3>1, LettersGrow DEF MailInv
  <2>3. ~spoiled => \A q \in Processes : OfRuns(got'[q], {0, run})
    BY <1>3, <2>1, <2>2
  <2> QED  BY <1>1, <2>1, <2>2, <2>3 DEF MailInv
<1> QED  BY <1>1, <1>4, <1>5, <1>6, <1>7, <1>8, <1>9, <1>10, <1>11 DEF Effect

-----------------------------------------------------------------------------
\* Nothing is left over: the invariant.
LeftInv == BindInv /\ ObjectInv /\ StreamInv /\ MailInv

LEMMA ItCleansUp == ASSUME IpcTypes, ObjectInv, StreamInv PROVE CleansUp
<1> SUFFICES ASSUME ~spoiled, ~killed, \A p \in Processes : status[p] # "running"
             PROVE  queue = <<>> /\ memory = Nothing /\ files = {}
  BY DEF CleansUp
<1>1. status["parent"] # "running" /\ status["server"] # "running"
  BY DEF Processes
<1>2. CASE program \in {"b1", "d1", "d2"}
  <2>1. files = {}
    BY <1>2 DEF StreamInv
  <2> QED  BY <1>1, <1>2, <2>1 DEF ObjectInv
<1>3. CASE program \notin {"b1", "d1", "d2"}
  <2>1. queue = <<>> /\ memory = Nothing
    BY <1>3 DEF ObjectInv
  <2> QED  BY <1>1, <2>1 DEF StreamInv
<1> QED  BY <1>2, <1>3

\* A run as it begins.
Begun ==
  /\ program \in Chosen /\ pc = [p \in Processes |-> 1] /\ status = Started(program)
  /\ ends = Inherited(program) /\ data = [c \in Channels \cup Paths |-> <<>>]
  /\ got = [p \in Processes |-> <<>>] /\ peer = Nobody
  /\ ~spoiled => queue = <<>> /\ memory = Nothing /\ files = {}

LEMMA LeftAtFirst == Begun => LeftInv
<1> SUFFICES ASSUME Begun PROVE LeftInv
  OBVIOUS
<1>1. /\ program \in Chosen /\ status = Started(program) /\ \A p \in Processes : pc[p] = 1 /\ got[p] = <<>>
      /\ \A c \in Channels \cup Paths : data[c] = <<>>
      /\ ends = Inherited(program)
      /\ ~spoiled => queue = <<>> /\ memory = Nothing /\ files = {}
  BY DEF Begun
<1>2. \A p \in Processes : status[p] \in {"running", "off"} /\ (p \in DOMAIN Programs[program] => status[p] = "running")
  BY <1>1, FreshStart
<1>3. BindInv
  BY <1>1, <1>2 DEF BindInv, AtBind
<1>4. ObjectInv
  <2>1. ASSUME program \in {"b1", "d1", "d2"}
        PROVE  /\ ~(pc["parent"] > Waits[program]) /\ ~(pc["parent"] > Removes[program])
               /\ status["parent"] = "running"
    <3>1. pc["parent"] = 1 /\ "parent" \in Processes
      BY <1>1 DEF Processes
    <3>2. Waits[program] >= 2 /\ Waits[program] \in Nat
      BY <2>1 DEF Waits
    <3> QED  BY <1>2, <2>1, <3>1, <3>2, ObjectCalls
  <2> QED  BY <1>1, <2>1 DEF ObjectInv
<1>5. StreamInv
  <2>1. pc["server"] = 1 /\ "server" \in Processes /\ NothingDown
    BY <1>1 DEF Processes, NothingDown, Channels
  <2>2. program \in {"c2", "c3"} => status["server"] = "running"
    BY <1>2, <2>1, ProgramsAre, GoodStreams, GoodDatagrams
  <2>3. program = "c2" => \A k \in Clients : ~(ServerEnds(k, "backlog") \subseteq ends)
    <3>1. program = "c2" => ends = {}
      BY <1>1 DEF Inherited
    <3> QED  BY <3>1 DEF ServerEnds
  <2> QED  BY <1>1, <2>1, <2>2, <2>3 DEF StreamInv
<1>6. MailInv
  <2>1. ~spoiled => LettersOf(queue, run) /\ memory.run \in {0, run}
    BY <1>1 DEF LettersOf, Nothing
  <2> QED  BY <1>1, <2>1 DEF MailInv, OfRuns
<1> QED  BY <1>3, <1>4, <1>5, <1>6 DEF LeftInv

LEMMA LeftAfter == ASSUME IpcTypes, LeftInv, [Next]_vars PROVE LeftInv'
<1>1. ASSUME NEW p \in Processes, Step(p) PROVE LeftInv'
  <2>1. [Next]_vars
    OBVIOUS
  <2>2. BindInv' /\ ObjectInv' /\ StreamInv' /\ MailInv'
    BY <1>1, BindAfter, ObjectAfter, StreamAfter, MailAfter DEF LeftInv
  <2> QED  BY <2>2 DEF LeftInv
<1>2. ASSUME NEW p \in Processes, Kill(p) PROVE LeftInv'
  <2>1. /\ UNCHANGED <<run, program, pc, got, data, files, queue, memory, spoiled>> /\ killed'
        /\ status' = [status EXCEPT ![p] = "killed"]
    BY <1>2 DEF Kill, Leave
  <2>2. status \in [Processes -> {"running", "ended", "killed", "failed", "off"}]
    BY DEF IpcTypes, Located
  <2>3. ObjectInv'
    <3>1. status["child"] # "running" => status'["child"] # "running"
      BY <2>1, <2>2 DEF Processes
    <3> QED  BY <2>1, <3>1 DEF LeftInv, ObjectInv
  <2>4. StreamInv'
    BY <2>1 DEF LeftInv, StreamInv
  <2>5. MailInv'
    BY <2>1 DEF LeftInv, MailInv
  <2> QED  BY <2>3, <2>4, <2>5, BindAfter DEF LeftInv
<1>3. CASE NextRun
  <2>1. spoiled' = (spoiled \/ killed \/ \E p \in Processes : status[p] = "running")
    BY <1>3 DEF NextRun
  <2>2. ~spoiled' => queue = <<>> /\ memory = Nothing /\ files = {}
    BY <2>1, ItCleansUp DEF LeftInv, CleansUp
  <2>3. Begun'
    BY <1>3, <2>2 DEF NextRun, Begun
  <2> QED  BY <2>3, LeftAtFirst, PTL
<1>4. CASE UNCHANGED vars
  <2>1. UNCHANGED <<run, program, pc, status, got, ends, data, files, queue, memory, peer, killed, spoiled>>
    BY <1>4 DEF vars, process, kernel, ghosts
  <2>2. ObjectInv' /\ MailInv'
    BY <2>1 DEF LeftInv, ObjectInv, MailInv
  <2>3. NothingDown' = NothingDown /\ \A k : Waiting(k)' = Waiting(k)
    BY <2>1 DEF NothingDown, Waiting
  <2>4. Served(peer)' = Served(peer)
    BY <2>1 DEF Served, Waiting, ServerEnds
  <2>5. StreamInv'
    BY <2>1, <2>3, <2>4 DEF LeftInv, StreamInv, ServerEnds
  <2> QED  BY <2>2, <2>5, BindAfter DEF LeftInv
<1> QED  BY <1>1, <1>2, <1>3, <1>4 DEF Next

LEMMA LeftHolds == Spec => [](IpcTypes /\ LeftInv)
<1>1. Init => LeftInv
  <2>1. Init => Begun
    BY DEF Init, Begun
  <2> QED  BY <2>1, LeftAtFirst
<1> QED  BY <1>1, TypesAtFirst, TypesAfter, LeftAfter, PTL DEF Spec

LEMMA TypesAreOK == IpcTypes => TypeOK
<1> SUFFICES ASSUME IpcTypes PROVE TypeOK
  OBVIOUS
<1>1. \A p \in Processes : ToSet(got[p]) \subseteq Messages
  <2> TAKE p \in Processes
  <2>1. got[p] \in Seq(Messages)
    BY DEF IpcTypes, MailTypes
  <2> QED  BY <2>1 DEF ToSet
<1> QED  BY <1>1 DEF TypeOK, IpcTypes, Located, MailTypes, PeerKnown, Ends

\* Whatever the programs chosen, and however often: what is stored in the kernel has
\* its type; no process gets a message of another program unless an earlier one was
\* killed or interrupted; and a run that ends by itself leaves no message, no shared
\* memory and no path.
THEOREM KernelIsLeftClean == Spec => []NothingIsLeftOver
<1>1. IpcTypes /\ LeftInv => NothingIsLeftOver
  <2> SUFFICES ASSUME IpcTypes, LeftInv PROVE NothingIsLeftOver
    OBVIOUS
  <2>1. NoForeignMail
    <3> SUFFICES ASSUME ~spoiled, NEW p \in Processes, NEW m \in ToSet(got[p]) PROVE m.run \in {0, run}
      BY DEF NoForeignMail
    <3>1. got[p] \in Seq(Messages) /\ OfRuns(got[p], {0, run})
      BY DEF IpcTypes, MailTypes, LeftInv, MailInv
    <3>2. PICK i \in 1 .. Len(got[p]) : m = got[p][i]
      BY <3>1 DEF ToSet
    <3> QED  BY <3>1, <3>2 DEF OfRuns
  <2> QED  BY <2>1, TypesAreOK, ItCleansUp DEF NothingIsLeftOver, LeftInv
<1> QED  BY <1>1, LeftHolds, PTL

-----------------------------------------------------------------------------
\* What a process does where it stands.
LEMMA CallAt ==
  ASSUME IpcTypes, NEW p \in Processes, Step(p)
  PROVE  /\ pc[p] \in Nat \ {0} /\ status[p] = "running" /\ p \in DOMAIN Programs[program]
         /\ UNCHANGED <<run, program, killed, spoiled>>
         /\ \A op, arg : pc[p] <= Len(Script(p)) /\ Script(p)[pc[p]] = <<op, arg>> =>
              Performs(p, op) /\ Arg(p) = arg
         /\ pc[p] > Len(Script(p)) => Exit(p)
         /\ Len(Script(p)) \in Nat
<1>1. Located /\ status[p] = "running" /\ UNCHANGED <<run, program, killed, spoiled>>
  BY StepPerforms DEF IpcTypes
<1>2. pc[p] \in Nat \ {0} /\ p \in DOMAIN Programs[program] /\ GoodScript(program, p, Script(p))
  BY <1>1, CallIsGood DEF Located
<1>3. Len(Script(p)) \in Nat
  BY <1>2 DEF GoodScript
<1>4. pc[p] > Len(Script(p)) => Exit(p)
  BY <1>2, <1>3, StepPerforms
<1>5. ASSUME NEW op, NEW arg, pc[p] <= Len(Script(p)), Script(p)[pc[p]] = <<op, arg>>
      PROVE  Performs(p, op) /\ Arg(p) = arg
  <2>1. ~(pc[p] > Len(Script(p))) /\ Script(p)[pc[p]][1] = op
    BY <1>2, <1>3, <1>5
  <2> QED  BY <1>5, <2>1, StepPerforms DEF Arg
<1> QED  BY <1>1, <1>2, <1>3, <1>4, <1>5

\* A sleep that ends too early is remembered.
LEMMA EarlyAfter ==
  ASSUME NEW p \in Processes, Step(p), ~early'
  PROVE  ~early /\ (Sleep(p) => ~(status["parent"] = "running" /\ pc["parent"] <= Arg(p)))
<1>1. CASE CloseEnds(p) \/ Duplicate(p) \/ OpenFifo(p) \/ OpenedFifo(p) \/ Write(p) \/ Read(p)
           \/ ReadAll(p) \/ WaitForChild(p)
  BY <1>1 DEF CloseEnds, Duplicate, OpenFifo, OpenedFifo, Write, Read, ReadAll, WaitForChild, Sleep, At
<1>5. CASE Sleep(p)
  <2> DEFINE tooEarly == status["parent"] = "running" /\ pc["parent"] <= Arg(p)
  <2>1. early' = (early \/ tooEarly)
    BY <1>5 DEF Sleep
  <2> HIDE DEF tooEarly
  <2>2. ~early /\ ~tooEarly
    BY <2>1, Zenon
  <2> QED  BY <2>2 DEF tooEarly
<1>2. CASE StoreMemory(p) \/ AppendMemory(p) \/ FetchMemory(p) \/ RemoveObject(p)
           \/ SendMessage(p) \/ ReceiveMessage(p) \/ TryReceiveMessage(p)
  BY <1>2 DEF StoreMemory, AppendMemory, FetchMemory, RemoveObject, SendMessage, ReceiveMessage,
              TryReceiveMessage, Sleep, At
<1>3. CASE Unlink(p) \/ Bind(p) \/ Listen(p) \/ Connect(p) \/ Accept(p) \/ ReadPeer(p) \/ WritePeer(p)
           \/ ClosePeer(p) \/ CloseListener(p) \/ SendTo(p) \/ ReceiveFrom(p) \/ Reply(p) \/ Again(p)
  BY <1>3 DEF Unlink, Bind, Listen, Connect, Accept, ReadPeer, WritePeer, ClosePeer, CloseListener, SendTo,
              ReceiveFrom, Reply, Again, Sleep, At
<1>4. CASE Exit(p)
  BY <1>4 DEF Exit, Sleep, At
<1> QED  BY <1>1, <1>2, <1>3, <1>4, <1>5 DEF Step

LEMMA StillUndisturbed ==
  ASSUME IpcTypes, NEW p \in Processes, Step(p), Undisturbed'
  PROVE  Undisturbed
  BY EarlyAfter, CallAt DEF Undisturbed

LEMMA MessageSays ==
  ASSUME NEW p, NEW r
  PROVE  /\ Message(p).run = run /\ Message(p).from = p
         /\ got[p] # <<>> => Message(p).re = Last(got[p]).from
         /\ [Message(p) EXCEPT !.re = r].run = run /\ [Message(p) EXCEPT !.re = r].from = p
         /\ [Message(p) EXCEPT !.re = r].re = r
<1> DEFINE last == Last(got[p]).from
           re == IF got[p] = <<>> THEN Nobody ELSE last
<1>1. Message(p) = [run |-> run, from |-> p, re |-> re] /\ (got[p] # <<>> => re = last)
  BY DEF Message
<1> HIDE DEF last, re
<1> QED  BY <1>1 DEF last

Answered(p) == Len(got[p]) = 1 /\ AnswerTo(p, got[p][1])

\* What becomes of what was received: it stays, or one message comes to it.
LEMMA Received ==
  ASSUME IpcTypes, NEW p \in Processes, NEW m, Receive(p, m)
  PROVE  /\ \A q \in Processes \ {p} : got'[q] = got[q]
         /\ got[p] = <<>> => Len(got'[p]) = 1 /\ got'[p][1] = m
         /\ got'[p] # <<>> /\ Last(got'[p]) = m
<1>1. got \in [Processes -> Seq(Messages)]
  BY DEF IpcTypes, MailTypes
<1>2. got' = [got EXCEPT ![p] = Append(got[p], m)]
  BY DEF Receive
<1>3. got'[p] = Append(got[p], m) /\ got[p] \in Seq(Messages) /\ Len(got[p]) \in Nat
  BY <1>1, <1>2
<1>4. /\ Len(Append(got[p], m)) = Len(got[p]) + 1
      /\ Append(got[p], m)[Len(got[p]) + 1] = m
  BY <1>3
<1> QED  BY <1>1, <1>2, <1>3, <1>4 DEF Last

-----------------------------------------------------------------------------
\* task_b1: what lies in the memory when the parent fetches it is the child's answer.
MemoryInv ==
  Undisturbed /\ program = "b1" =>
    /\ status["child"] # "running" => pc["child"] > 3
    /\ pc["child"] > 1 => pc["parent"] > 1
    /\ pc["parent"] \in {2, 3} =>
         /\ memory.run = run
         /\ pc["child"] <= 3 => memory.from = "parent"
         /\ pc["child"] > 3 => memory.from = "child" /\ memory.re = "parent"
    /\ pc["parent"] <= 3 => got["parent"] = <<>>
    /\ pc["parent"] > 3 => Answered("parent")

LEMMA MemoryCalls ==
  ASSUME program = "b1"
  PROVE  /\ DOMAIN Programs[program] = {"parent", "child"}
         /\ Len(Script("parent")) = 4 /\ Len(Script("child")) = 3
         /\ Script("parent")[1] = <<"store", "shm">> /\ Script("parent")[2] = <<"wait", "child">>
         /\ Script("parent")[3] = <<"fetch", "shm">> /\ Script("parent")[4] = <<"remove", "shm">>
         /\ Script("child")[1] = <<"sleep", 1>> /\ Script("child")[2] = <<"fetch", "shm">>
         /\ Script("child")[3] = <<"append", "shm">>
  BY ProgramsAre DEF Script, SharedMemory, SharedMemoryParent

LEMMA MemoryAfter ==
  ASSUME IpcTypes, ObjectInv, MemoryInv, NEW p \in Processes, Step(p)
  PROVE  MemoryInv'
<1> SUFFICES ASSUME Undisturbed', program' = "b1" PROVE MemoryInv'
  BY DEF MemoryInv
<1>1. /\ UNCHANGED <<run, program, killed, spoiled>> /\ program = "b1" /\ Undisturbed
      /\ p \in {"parent", "child"} /\ status[p] = "running"
      /\ status \in [Processes -> {"running", "ended", "killed", "failed", "off"}]
      /\ pc \in [Processes -> Nat \ {0}] /\ "parent" \in Processes /\ "child" \in Processes
  BY CallAt, StillUndisturbed, MemoryCalls DEF IpcTypes, Located, Processes
<1> DEFINE P == pc["parent"]
           C == pc["child"]
<1>2. /\ status["child"] # "running" => C > 3
      /\ C > 1 => P > 1
      /\ P \in {2, 3} => /\ memory.run = run
                         /\ C <= 3 => memory.from = "parent"
                         /\ C > 3 => memory.from = "child" /\ memory.re = "parent"
      /\ P <= 3 => got["parent"] = <<>>
      /\ P > 3 => Answered("parent")
  BY <1>1 DEF MemoryInv
<1>3. /\ P > 2 => status["child"] # "running"
      /\ status["parent"] # "running" => P > 4
  BY <1>1 DEF ObjectInv, Undisturbed, Waits, Removes
<1>4. P \in Nat \ {0} /\ C \in Nat \ {0}
  BY <1>1
<1>5. CASE p = "parent"
  <2>1. CASE P = 1
    <3>1. StoreMemory(p)
      BY <1>1, <1>5, <2>1, CallAt, MemoryCalls DEF Performs
    <3>2. UNCHANGED <<status, got>> /\ memory' = Message(p) /\ P' = 2 /\ C' = C
      BY <1>1, <1>5, <2>1, <3>1 DEF StoreMemory, Return
    <3> QED  BY <1>1, <1>2, <1>5, <2>1, <3>2, MessageSays DEF MemoryInv
  <2>2. CASE P = 2
    <3>1. WaitForChild(p)
      BY <1>1, <1>5, <2>2, CallAt, MemoryCalls DEF Performs
    <3>2. UNCHANGED <<status, got, memory>> /\ P' = 3 /\ C' = C
      BY <1>1, <1>5, <2>2, <3>1 DEF WaitForChild, Return, kernel
    <3> QED  BY <1>1, <1>2, <2>2, <3>2 DEF MemoryInv
  <2>3. CASE P = 3
    <3>1. FetchMemory(p)
      BY <1>1, <1>5, <2>3, CallAt, MemoryCalls DEF Performs
    <3>2. UNCHANGED <<status, memory>> /\ Receive(p, memory) /\ P' = 4 /\ C' = C
      BY <1>1, <1>5, <2>3, <3>1 DEF FetchMemory, Return, kernel
    <3>3. Len(got'[p]) = 1 /\ got'[p][1] = memory
      BY <1>2, <1>5, <2>3, <3>2, Received
    <3>4. memory.run = run /\ memory.from = "child" /\ memory.re = "parent"
      BY <1>2, <1>3, <2>3
    <3>5. Answered("parent")'
      BY <1>1, <1>5, <3>3, <3>4 DEF Answered, AnswerTo
    <3> QED  BY <1>1, <1>2, <2>3, <3>2, <3>5 DEF MemoryInv
  <2>4. CASE P > 3
    <3>1. CASE P = 4
      <4>1. RemoveObject(p)
        BY <1>1, <1>5, <3>1, CallAt, MemoryCalls DEF Performs
      <4>2. UNCHANGED <<status, got>> /\ P' = 5 /\ C' = C
        BY <1>1, <1>5, <3>1, <4>1 DEF RemoveObject, Return
      <4> QED  BY <1>1, <1>2, <2>4, <4>2 DEF MemoryInv, Answered, AnswerTo
    <3>2. CASE P > 4
      <4>1. Exit(p)
        BY <1>1, <1>5, <3>2, CallAt, MemoryCalls
      <4>2. UNCHANGED <<pc, got, memory>> /\ status'["child"] = status["child"]
        BY <1>1, <1>5, <4>1 DEF Exit, Leave
      <4> QED  BY <1>1, <1>2, <2>4, <4>2 DEF MemoryInv, Answered, AnswerTo
    <3> QED  BY <1>4, <2>4, <3>1, <3>2
  <2> QED  BY <1>4, <2>1, <2>2, <2>3, <2>4
<1>6. CASE p = "child"
  <2>1. CASE C = 1
    <3>1. Sleep(p) /\ Arg(p) = 1
      <4>1. Script(p)[1] = <<"sleep", 1>> /\ 1 <= Len(Script(p))
        BY <1>1, <1>6, MemoryCalls
      <4>2. pc[p] = 1
        BY <1>6, <2>1
      <4>3. Performs(p, "sleep") /\ Arg(p) = 1
        BY <4>1, <4>2, CallAt
      <4> QED  BY <4>3 DEF Performs
    <3>2. UNCHANGED <<status, got, memory>> /\ C' = 2 /\ P' = P
      BY <1>1, <1>6, <2>1, <3>1 DEF Sleep, Return, kernel
    <3>3. P > 1
      BY <1>3, <1>4, <3>1, EarlyAfter DEF Undisturbed
    <3> QED  BY <1>1, <1>2, <1>3, <2>1, <3>2, <3>3 DEF MemoryInv, Answered, AnswerTo
  <2>2. CASE C = 2
    <3>1. FetchMemory(p)
      BY <1>1, <1>6, <2>2, CallAt, MemoryCalls DEF Performs
    <3>2. UNCHANGED <<status, memory>> /\ Receive(p, memory) /\ C' = 3 /\ P' = P
      BY <1>1, <1>6, <2>2, <3>1 DEF FetchMemory, Return, kernel
    <3>3. got'["parent"] = got["parent"]
      BY <1>1, <1>6, <3>2, Received
    <3> QED  BY <1>1, <1>2, <2>2, <3>2, <3>3 DEF MemoryInv, Answered, AnswerTo
  <2>3. CASE C = 3
    <3>1. AppendMemory(p)
      BY <1>1, <1>6, <2>3, CallAt, MemoryCalls DEF Performs
    <3>2. UNCHANGED <<status, got>> /\ C' = 4 /\ P' = P
      BY <1>1, <1>6, <2>3, <3>1 DEF AppendMemory, Return
    <3>3. P = 2 /\ memory.from = "parent"
      BY <1>1, <1>2, <1>3, <1>4, <1>6, <2>3
    <3>4. memory'.run = run /\ memory'.from = p /\ memory'.re = memory.from
      BY <3>1, MessageSays DEF AppendMemory
    <3> QED  BY <1>1, <1>2, <1>6, <3>2, <3>3, <3>4 DEF MemoryInv
  <2>4. CASE C > 3
    <3>1. Exit(p)
      BY <1>1, <1>6, <2>4, CallAt, MemoryCalls
    <3>2. UNCHANGED <<pc, got, memory>>
      BY <3>1 DEF Exit
    <3> QED  BY <1>1, <1>2, <2>4, <3>2 DEF MemoryInv, Answered, AnswerTo
  <2> QED  BY <1>4, <2>1, <2>2, <2>3, <2>4
<1> QED  BY <1>1, <1>5, <1>6

-----------------------------------------------------------------------------
\* task_d1 and task_d2: the letters of type 2 are the child's, and it sends one when the
\* parent is past the call that does not block.
Addressed(s, g) ==
  \A i \in 1 .. Len(s) :
    /\ s[i].type = 1 => s[i].message.from = "parent"
    /\ s[i].type = 2 => s[i].message.from = "child" /\ (g = "d1" => s[i].message.re = "parent")
NoAnswers(s) == \A i \in 1 .. Len(s) : s[i].type # 2
QueueInv ==
  Undisturbed /\ program \in {"d1", "d2"} =>
    /\ Addressed(queue, program)
    /\ pc["child"] <= 2 => NoAnswers(queue)
    /\ program = "d1" /\ pc["child"] > 1 => got["child"] # <<>> /\ Last(got["child"]).from = "parent"
    /\ program = "d2" /\ pc["child"] > 1 => pc["parent"] > 2
    /\ pc["parent"] <= 3 => got["parent"] = <<>>
    /\ pc["parent"] > 3 => Answered("parent")

LEMMA ReplyCalls ==
  ASSUME program = "d1"
  PROVE  /\ DOMAIN Programs[program] = {"parent", "child"}
         /\ Len(Script("parent")) = 4 /\ Len(Script("child")) = 2
         /\ Script("parent")[1] = <<"msgsnd", 1>> /\ Script("parent")[2] = <<"wait", "child">>
         /\ Script("parent")[3] = <<"msgrcv", 2>> /\ Script("parent")[4] = <<"remove", "queue">>
         /\ Script("child")[1] = <<"msgrcv", 1>> /\ Script("child")[2] = <<"msgsnd", 2>>
  BY ProgramsAre DEF Script, MessageQueue

LEMMA NoWaitCalls ==
  ASSUME program = "d2"
  PROVE  /\ DOMAIN Programs[program] = {"parent", "child"}
         /\ Len(Script("parent")) = 5 /\ Len(Script("child")) = 2
         /\ Script("parent")[1] = <<"msgsnd", 1>> /\ Script("parent")[2] = <<"tryMsgrcv", 2>>
         /\ Script("parent")[3] = <<"msgrcv", 2>> /\ Script("parent")[4] = <<"wait", "child">>
         /\ Script("parent")[5] = <<"remove", "queue">>
         /\ Script("child")[1] = <<"sleep", 2>> /\ Script("child")[2] = <<"msgsnd", 2>>
  BY ProgramsAre DEF Script, NonBlockingReceive, NonBlockingReceiveParent

LEMMA QueueCalls ==
  ASSUME IpcTypes, program \in {"d1", "d2"}, NEW p \in Processes, Step(p)
  PROVE  /\ p \in {"parent", "child"}
         /\ p = "parent" =>
              /\ pc[p] = 1 => SendMessage(p) /\ Arg(p) = 1
              /\ pc[p] = 2 => IF program = "d1" THEN WaitForChild(p) ELSE TryReceiveMessage(p) /\ Arg(p) = 2
              /\ pc[p] = 3 => ReceiveMessage(p) /\ Arg(p) = 2
              /\ pc[p] > 3 => RemoveObject(p) \/ WaitForChild(p) \/ Exit(p)
         /\ p = "child" =>
              /\ pc[p] = 1 => IF program = "d1" THEN ReceiveMessage(p) /\ Arg(p) = 1 ELSE Sleep(p) /\ Arg(p) = 2
              /\ pc[p] = 2 => SendMessage(p) /\ Arg(p) = 2
              /\ pc[p] > 2 => Exit(p)
<1>1. CASE program = "d1"
  <2>1. p \in {"parent", "child"} /\ pc[p] \in Nat
    BY <1>1, CallAt, ReplyCalls
  <2>2. CASE p = "parent"
    BY <1>1, <2>1, <2>2, CallAt, ReplyCalls DEF Performs
  <2>3. CASE p = "child"
    BY <1>1, <2>1, <2>3, CallAt, ReplyCalls DEF Performs
  <2> QED  BY <2>1, <2>2, <2>3
<1>2. CASE program = "d2"
  <2>1. p \in {"parent", "child"} /\ pc[p] \in Nat
    BY <1>2, CallAt, NoWaitCalls
  <2>2. CASE p = "parent"
    <3>1. pc[p] = 1 => SendMessage(p) /\ Arg(p) = 1
      BY <1>2, <2>1, <2>2, CallAt, NoWaitCalls DEF Performs
    <3>2. pc[p] = 2 => TryReceiveMessage(p) /\ Arg(p) = 2
      BY <1>2, <2>1, <2>2, CallAt, NoWaitCalls DEF Performs
    <3>3. pc[p] = 3 => ReceiveMessage(p) /\ Arg(p) = 2
      BY <1>2, <2>1, <2>2, CallAt, NoWaitCalls DEF Performs
    <3>4. pc[p] > 3 => RemoveObject(p) \/ WaitForChild(p) \/ Exit(p)
      <4>1. pc[p] = 4 => WaitForChild(p)
        BY <1>2, <2>1, <2>2, CallAt, NoWaitCalls DEF Performs
      <4>2. pc[p] = 5 => RemoveObject(p)
        BY <1>2, <2>1, <2>2, CallAt, NoWaitCalls DEF Performs
      <4>3. pc[p] > 5 => Exit(p)
        BY <1>2, <2>1, <2>2, CallAt, NoWaitCalls DEF Performs
      <4> QED  BY <2>1, <4>1, <4>2, <4>3
    <3> QED  BY <1>2, <2>2, <3>1, <3>2, <3>3, <3>4
  <2>3. CASE p = "child"
    <3>1. pc[p] = 1 => Sleep(p) /\ Arg(p) = 2
      BY <1>2, <2>1, <2>3, CallAt, NoWaitCalls DEF Performs
    <3>2. pc[p] = 2 => SendMessage(p) /\ Arg(p) = 2
      BY <1>2, <2>1, <2>3, CallAt, NoWaitCalls DEF Performs
    <3>3. pc[p] > 2 => Exit(p)
      BY <1>2, <2>1, <2>3, CallAt, NoWaitCalls DEF Performs
    <3> QED  BY <1>2, <2>3, <3>1, <3>2, <3>3
  <2> QED  BY <2>1, <2>2, <2>3
<1> QED  BY <1>1, <1>2

LEMMA AddressedStays ==
  ASSUME NEW S, NEW s \in Seq(S), NEW g
  PROVE  /\ Addressed(<<>>, g) /\ NoAnswers(<<>>)
         /\ \A m : Addressed(s, g) /\ m.from = "parent" => Addressed(Append(s, [type |-> 1, message |-> m]), g)
         /\ \A m : Addressed(s, g) /\ m.from = "child" /\ (g = "d1" => m.re = "parent") =>
              Addressed(Append(s, [type |-> 2, message |-> m]), g)
         /\ \A m : NoAnswers(s) => NoAnswers(Append(s, [type |-> 1, message |-> m]))
         /\ \A i \in 1 .. Len(s) : /\ Addressed(s, g) => Addressed(RemoveAt(s, i), g)
                                   /\ NoAnswers(s) => NoAnswers(RemoveAt(s, i))
<1>2. ASSUME NEW m, NEW t \in {1, 2}, Addressed(s, g), t = 1 => m.from = "parent",
             t = 2 => m.from = "child" /\ (g = "d1" => m.re = "parent")
      PROVE  Addressed(Append(s, [type |-> t, message |-> m]), g)
  <2> DEFINE l == [type |-> t, message |-> m]
  <2>1. l.type = t /\ l.message = m
    OBVIOUS
  <2> HIDE DEF l
  <2>2. Addressed(Append(s, l), g)
    BY <1>2, <2>1 DEF Addressed
  <2> QED  BY <2>2 DEF l
<1>3. ASSUME NEW m, NoAnswers(s) PROVE NoAnswers(Append(s, [type |-> 1, message |-> m]))
  <2> DEFINE l == [type |-> 1, message |-> m]
  <2>1. l.type = 1
    OBVIOUS
  <2> HIDE DEF l
  <2>2. NoAnswers(Append(s, l))
    BY <1>3, <2>1 DEF NoAnswers
  <2> QED  BY <2>2 DEF l
<1>4. ASSUME NEW i \in 1 .. Len(s)
      PROVE  /\ Addressed(s, g) => Addressed(RemoveAt(s, i), g)
             /\ NoAnswers(s) => NoAnswers(RemoveAt(s, i))
  <2> DEFINE u == RemoveAt(s, i)
  <2>1. /\ Len(u) = Len(s) - 1 /\ Len(s) \in Nat
        /\ \A j \in 1 .. Len(s) - 1 : u[j] = s[IF j < i THEN j ELSE j + 1]
    BY OneLetterLess
  <2> HIDE DEF u
  <2>2. \A j \in 1 .. Len(u) : \E k \in 1 .. Len(s) : u[j] = s[k]
    <3> TAKE j \in 1 .. Len(u)
    <3>1. (IF j < i THEN j ELSE j + 1) \in 1 .. Len(s)
      BY <2>1
    <3> QED  BY <2>1, <3>1
  <2>3. (Addressed(s, g) => Addressed(u, g)) /\ (NoAnswers(s) => NoAnswers(u))
    BY SMTT(30), <2>2 DEF Addressed, NoAnswers
  <2> QED  BY <2>3 DEF u
<1> QED  BY <1>2, <1>3, <1>4 DEF Addressed, NoAnswers

\* A letter of a type, received.
LEMMA LetterReceived ==
  ASSUME IpcTypes, MailInv, ~spoiled, NEW p \in Processes, NEW t, OfType(t) # {}, TakeMessage(p, t),
         Addressed(queue, program)
  PROVE  \E i \in 1 .. Len(queue) :
           /\ queue[i].type = t /\ Receive(p, queue[i].message) /\ queue' = RemoveAt(queue, i)
           /\ queue[i].message.run = run /\ Addressed(queue', program)
           /\ NoAnswers(queue) => NoAnswers(queue')
<1>1. queue \in Seq(Letters) /\ LettersOf(queue, run)
  BY DEF IpcTypes, MailTypes, MailInv
<1> DEFINE i == Min(OfType(t))
<1>2. i \in 1 .. Len(queue) /\ i \in OfType(t)
  BY <1>1, FirstOfType
<1>3. Receive(p, queue[i].message) /\ queue' = RemoveAt(queue, i)
  BY DEF TakeMessage
<1>4. queue[i].type = t
  BY <1>2 DEF OfType
<1> HIDE DEF i
<1>5. Addressed(queue', program) /\ (NoAnswers(queue) => NoAnswers(queue'))
  BY <1>1, <1>2, <1>3, AddressedStays
<1>6. queue[i].message.run = run
  BY <1>1, <1>2 DEF LettersOf
<1> QED  BY <1>2, <1>3, <1>4, <1>5, <1>6

LEMMA QueueAfter ==
  ASSUME IpcTypes, ObjectInv, MailInv, QueueInv, NEW p \in Processes, Step(p)
  PROVE  QueueInv'
<1> SUFFICES ASSUME Undisturbed', program' \in {"d1", "d2"} PROVE QueueInv'
  BY DEF QueueInv
<1>1. /\ UNCHANGED <<run, program, killed, spoiled>> /\ program \in {"d1", "d2"} /\ Undisturbed /\ ~spoiled
      /\ p \in {"parent", "child"} /\ status[p] = "running"
      /\ status \in [Processes -> {"running", "ended", "killed", "failed", "off"}]
      /\ pc \in [Processes -> Nat \ {0}] /\ "parent" \in Processes /\ "child" \in Processes
      /\ queue \in Seq(Letters)
  BY CallAt, StillUndisturbed, QueueCalls DEF IpcTypes, Located, MailTypes, Processes, Undisturbed
<1> DEFINE P == pc["parent"]
           C == pc["child"]
<1>2. /\ Addressed(queue, program)
      /\ C <= 2 => NoAnswers(queue)
      /\ program = "d1" /\ C > 1 => got["child"] # <<>> /\ Last(got["child"]).from = "parent"
      /\ program = "d2" /\ C > 1 => P > 2
      /\ P <= 3 => got["parent"] = <<>>
      /\ P > 3 => Answered("parent")
  BY <1>1 DEF QueueInv
<1>3. P \in Nat \ {0} /\ C \in Nat \ {0}
  BY <1>1
<1>4. status["parent"] # "running" => P > 4
  BY <1>1, <1>3 DEF ObjectInv, Undisturbed, Removes
<1>5. CASE p = "parent"
  <2>1. CASE P = 1
    <3>1. SendMessage(p) /\ Arg(p) = 1
      BY <1>1, <1>5, <2>1, QueueCalls
    <3>2. UNCHANGED got /\ P' = 2 /\ C' = C /\ queue' = Append(queue, [type |-> 1, message |-> Message(p)])
      BY <1>1, <1>5, <2>1, <3>1 DEF SendMessage, Return
    <3>3. Message(p).from = "parent"
      BY <1>5, MessageSays
    <3>4. Addressed(queue', program) /\ (C <= 2 => NoAnswers(queue'))
      BY <1>1, <1>2, <3>2, <3>3, AddressedStays
    <3> QED  BY <1>1, <1>2, <2>1, <3>2, <3>4 DEF QueueInv
  <2>2. CASE P = 2
    <3>1. UNCHANGED <<got, queue>> /\ P' = 3 /\ C' = C
      <4>1. CASE program = "d1"
        <5>1. WaitForChild(p)
          BY <1>1, <1>5, <2>2, <4>1, QueueCalls
        <5> QED  BY <1>1, <1>5, <2>2, <5>1 DEF WaitForChild, Return, kernel
      <4>2. CASE program = "d2"
        <5>1. TryReceiveMessage(p) /\ Arg(p) = 2
          BY <1>1, <1>5, <2>2, <4>2, QueueCalls
        <5>2. OfType(2) = {}
          BY <1>2, <1>3, <2>2, <4>2 DEF OfType, NoAnswers
        <5> QED  BY <1>1, <1>5, <2>2, <5>1, <5>2 DEF TryReceiveMessage, Return
      <4> QED  BY <1>1, <4>1, <4>2
    <3> QED  BY <1>1, <1>2, <2>2, <3>1 DEF QueueInv
  <2>3. CASE P = 3
    <3>1. ReceiveMessage(p) /\ Arg(p) = 2
      BY <1>1, <1>5, <2>3, QueueCalls
    <3>2. OfType(2) # {} /\ TakeMessage(p, 2) /\ P' = 4 /\ C' = C
      BY <1>1, <1>5, <2>3, <3>1 DEF ReceiveMessage, Return
    <3>3. PICK i \in 1 .. Len(queue) :
            /\ queue[i].type = 2 /\ Receive(p, queue[i].message) /\ queue' = RemoveAt(queue, i)
            /\ queue[i].message.run = run /\ Addressed(queue', program)
            /\ NoAnswers(queue) => NoAnswers(queue')
      BY <1>1, <1>2, <3>2, LetterReceived
    <3>4. queue[i].message.from = "child" /\ (program = "d1" => queue[i].message.re = "parent")
      BY <1>2, <3>3 DEF Addressed
    <3>5. Len(got'[p]) = 1 /\ got'[p][1] = queue[i].message /\ got'["child"] = got["child"]
      BY <1>1, <1>2, <1>5, <2>3, <3>3, Received
    <3>6. Answered("parent")'
      BY <1>1, <1>5, <3>3, <3>4, <3>5 DEF Answered, AnswerTo
    <3> QED  BY <1>1, <1>2, <2>3, <3>2, <3>3, <3>5, <3>6 DEF QueueInv
  <2>4. CASE P > 3
    <3>1. UNCHANGED got /\ P' \in Nat /\ P' > 3 /\ C' = C /\ (queue' = queue \/ queue' = <<>>)
      <4>1. RemoveObject(p) \/ WaitForChild(p) \/ Exit(p)
        BY <1>1, <1>5, <2>4, QueueCalls
      <4> QED  BY <1>1, <1>3, <1>5, <2>4, <4>1 DEF RemoveObject, WaitForChild, Exit, Return, kernel
    <3>2. Addressed(queue', program) /\ (C <= 2 => NoAnswers(queue'))
      BY <1>1, <1>2, <3>1, AddressedStays
    <3>3. Answered("parent")'
      BY <1>1, <1>2, <2>4, <3>1 DEF Answered, AnswerTo
    <3> QED  BY <1>1, <1>2, <1>3, <2>4, <3>1, <3>2, <3>3 DEF QueueInv
  <2> QED  BY <1>3, <2>1, <2>2, <2>3, <2>4
<1>6. CASE p = "child"
  <2>1. CASE C = 1 /\ program = "d1"
    <3>1. ReceiveMessage(p) /\ Arg(p) = 1
      BY <1>1, <1>6, <2>1, QueueCalls
    <3>2. OfType(1) # {} /\ TakeMessage(p, 1) /\ P' = P /\ C' = 2
      BY <1>1, <1>6, <2>1, <3>1 DEF ReceiveMessage, Return
    <3>3. PICK i \in 1 .. Len(queue) :
            /\ queue[i].type = 1 /\ Receive(p, queue[i].message) /\ queue' = RemoveAt(queue, i)
            /\ queue[i].message.run = run /\ Addressed(queue', program)
            /\ NoAnswers(queue) => NoAnswers(queue')
      BY <1>1, <1>2, <3>2, LetterReceived
    <3>4. queue[i].message.from = "parent"
      BY <1>2, <3>3 DEF Addressed
    <3>5. got'["parent"] = got["parent"] /\ got'["child"] # <<>> /\ Last(got'["child"]) = queue[i].message
      BY <1>1, <1>6, <3>3, Received
    <3>6. P > 3 => Answered("parent")'
      BY <1>1, <1>2, <3>5 DEF Answered, AnswerTo
    <3> QED  BY <1>1, <1>2, <2>1, <3>2, <3>3, <3>4, <3>5, <3>6 DEF QueueInv
  <2>2. CASE C = 1 /\ program = "d2"
    <3>1. Sleep(p) /\ Arg(p) = 2
      BY <1>1, <1>6, <2>2, QueueCalls
    <3>2. UNCHANGED <<got, queue>> /\ C' = 2 /\ P' = P
      BY <1>1, <1>6, <2>2, <3>1 DEF Sleep, Return, kernel
    <3>3. P > 2
      BY <1>3, <1>4, <3>1, EarlyAfter DEF Undisturbed
    <3> QED  BY <1>1, <1>2, <2>2, <3>2, <3>3 DEF QueueInv, Answered, AnswerTo
  <2>3. CASE C = 2
    <3>1. SendMessage(p) /\ Arg(p) = 2
      BY <1>1, <1>6, <2>3, QueueCalls
    <3>2. UNCHANGED got /\ C' = 3 /\ P' = P /\ queue' = Append(queue, [type |-> 2, message |-> Message(p)])
      BY <1>1, <1>6, <2>3, <3>1 DEF SendMessage, Return
    <3>3. Message(p).from = "child" /\ (program = "d1" => Message(p).re = "parent")
      BY <1>2, <1>6, <2>3, MessageSays
    <3>4. Addressed(queue', program)
      <4> DEFINE m == Message(p)
      <4>1. m.from = "child" /\ (program = "d1" => m.re = "parent") /\ queue' = Append(queue, [type |-> 2, message |-> m])
        BY <3>2, <3>3
      <4> HIDE DEF m
      <4> QED  BY <1>1, <1>2, <4>1, AddressedStays
    <3> QED  BY <1>1, <1>2, <2>3, <3>2, <3>4 DEF QueueInv, Answered, AnswerTo
  <2>4. CASE C > 2
    <3>1. Exit(p)
      BY <1>1, <1>6, <2>4, QueueCalls
    <3>2. UNCHANGED <<pc, got, queue>>
      BY <3>1 DEF Exit
    <3> QED  BY <1>1, <1>2, <2>4, <3>2 DEF QueueInv, Answered, AnswerTo
  <2> QED  BY <1>1, <1>3, <2>1, <2>2, <2>3, <2>4
<1> QED  BY <1>1, <1>5, <1>6

-----------------------------------------------------------------------------
\* task_a2: every line that ls has written is in the pipe or with wc, and wc does not see
\* the end of the file before ls has gone.
Lines(n) == IF n <= 4 THEN 0 ELSE IF n = 5 THEN 1 ELSE 2
KeepsEnd(q, dir, last) ==
  /\ pc[q] <= last => <<q, "down", dir, "fd">> \in ends
  /\ pc[q] >= 2 => <<q, "down", dir, "std">> \in ends
PipelineInv ==
  Undisturbed /\ program = "a2" =>
    /\ Len(got["wc"]) + Len(data["down"]) = Lines(pc["ls"])
    /\ status["ls"] = "running" => pc["wc"] <= 4 /\ KeepsEnd("ls", "w", 3)
    /\ status["ls"] # "running" => pc["ls"] > 5
    /\ status["wc"] # "running" => pc["wc"] > 4
    /\ pc["wc"] <= 4 => KeepsEnd("wc", "r", 2)
    /\ pc["wc"] > 4 => data["down"] = <<>>

OnlyR == {DownR}
OnlyW == {DownW}
LEMMA PipelineCalls ==
  ASSUME program = "a2"
  PROVE  /\ DOMAIN Programs[program] = {"parent", "ls", "wc"}
         /\ Len(Script("parent")) = 4 /\ Len(Script("ls")) = 5 /\ Len(Script("wc")) = 4
         /\ Script("parent")[1] = <<"close", OnlyR>> /\ Script("parent")[2] = <<"close", OnlyW>>
         /\ Script("parent")[3] = <<"wait", "ls">> /\ Script("parent")[4] = <<"wait", "wc">>
         /\ Script("ls")[1] = <<"dup", DownW>> /\ Script("ls")[2] = <<"close", OnlyR>>
         /\ Script("ls")[3] = <<"close", OnlyW>>
         /\ Script("ls")[4] = <<"write", "down">> /\ Script("ls")[5] = <<"write", "down">>
         /\ Script("wc")[1] = <<"dup", DownR>> /\ Script("wc")[2] = <<"close", OnlyR>>
         /\ Script("wc")[3] = <<"close", OnlyW>> /\ Script("wc")[4] = <<"readAll", "down">>
<1>1. Programs[program] = ShellPipeline
  BY ProgramsAre
<1>2. /\ Script("parent") = ShellPipelineParent /\ Script("ls") = ShellPipeline.ls
      /\ Script("wc") = ShellPipeline.wc /\ DOMAIN ShellPipeline = {"parent", "ls", "wc"}
  BY <1>1 DEF Script, ShellPipeline
<1>3. /\ Len(Script("parent")) = 4
      /\ Script("parent")[1] = <<"close", OnlyR>> /\ Script("parent")[2] = <<"close", OnlyW>>
      /\ Script("parent")[3] = <<"wait", "ls">> /\ Script("parent")[4] = <<"wait", "wc">>
  BY <1>2 DEF ShellPipelineParent, OnlyR, OnlyW
<1>4. /\ Len(Script("ls")) = 5
      /\ Script("ls")[1] = <<"dup", DownW>> /\ Script("ls")[2] = <<"close", OnlyR>>
      /\ Script("ls")[3] = <<"close", OnlyW>>
      /\ Script("ls")[4] = <<"write", "down">> /\ Script("ls")[5] = <<"write", "down">>
  BY <1>2 DEF ShellPipeline, OnlyR, OnlyW
<1>5. /\ Len(Script("wc")) = 4
      /\ Script("wc")[1] = <<"dup", DownR>> /\ Script("wc")[2] = <<"close", OnlyR>>
      /\ Script("wc")[3] = <<"close", OnlyW>> /\ Script("wc")[4] = <<"readAll", "down">>
  BY <1>2 DEF ShellPipeline, OnlyR, OnlyW
<1> QED  BY <1>1, <1>2, <1>3, <1>4, <1>5

LEMMA PipelineDoes ==
  ASSUME IpcTypes, program = "a2", NEW p \in Processes, Step(p)
  PROVE  /\ p \in {"parent", "ls", "wc"}
         /\ p = "parent" => CloseEnds(p) \/ WaitForChild(p) \/ Exit(p)
         /\ p = "ls" =>
              /\ pc[p] = 1 => Duplicate(p) /\ Arg(p) = DownW
              /\ pc[p] = 2 => CloseEnds(p) /\ Arg(p) = OnlyR
              /\ pc[p] = 3 => CloseEnds(p) /\ Arg(p) = OnlyW
              /\ pc[p] \in {4, 5} => Write(p) /\ Arg(p) = "down"
              /\ pc[p] > 5 => Exit(p)
         /\ p = "wc" =>
              /\ pc[p] = 1 => Duplicate(p) /\ Arg(p) = DownR
              /\ pc[p] = 2 => CloseEnds(p) /\ Arg(p) = OnlyR
              /\ pc[p] = 3 => CloseEnds(p) /\ Arg(p) = OnlyW
              /\ pc[p] = 4 => ReadAll(p) /\ Arg(p) = "down"
              /\ pc[p] > 4 => Exit(p)
<1>1. p \in {"parent", "ls", "wc"} /\ pc[p] \in Nat \ {0}
  BY CallAt, PipelineCalls
<1>2. CASE p = "parent"
  <2>1. pc[p] = 1 => CloseEnds(p)
    BY <1>1, <1>2, CallAt, PipelineCalls DEF Performs
  <2>2. pc[p] = 2 => CloseEnds(p)
    BY <1>1, <1>2, CallAt, PipelineCalls DEF Performs
  <2>4. pc[p] = 3 => WaitForChild(p)
    BY <1>1, <1>2, CallAt, PipelineCalls DEF Performs
  <2>5. pc[p] = 4 => WaitForChild(p)
    BY <1>1, <1>2, CallAt, PipelineCalls DEF Performs
  <2>3. pc[p] > 4 => Exit(p)
    BY <1>1, <1>2, CallAt, PipelineCalls
  <2> QED  BY <1>1, <1>2, <2>1, <2>2, <2>3, <2>4, <2>5
<1>3. CASE p = "ls"
  <2>1. pc[p] = 1 => Duplicate(p) /\ Arg(p) = DownW
    BY <1>1, <1>3, CallAt, PipelineCalls DEF Performs
  <2>2. pc[p] = 2 => CloseEnds(p) /\ Arg(p) = OnlyR
    BY <1>1, <1>3, CallAt, PipelineCalls DEF Performs
  <2>3. pc[p] = 3 => CloseEnds(p) /\ Arg(p) = OnlyW
    BY <1>1, <1>3, CallAt, PipelineCalls DEF Performs
  <2>4. pc[p] \in {4, 5} => Write(p) /\ Arg(p) = "down"
    <3>1. Script(p)[4] = <<"write", "down">> /\ Script(p)[5] = <<"write", "down">> /\ 5 <= Len(Script(p))
      BY <1>1, <1>3, PipelineCalls
    <3>2. 4 <= Len(Script(p))
      BY <3>1, CallAt
    <3> QED  BY <3>1, <3>2, CallAt DEF Performs
  <2>5. pc[p] > 5 => Exit(p)
    BY <1>1, <1>3, CallAt, PipelineCalls
  <2> QED  BY <1>3, <2>1, <2>2, <2>3, <2>4, <2>5
<1>4. CASE p = "wc"
  <2>1. pc[p] = 1 => Duplicate(p) /\ Arg(p) = DownR
    BY <1>1, <1>4, CallAt, PipelineCalls DEF Performs
  <2>2. pc[p] = 2 => CloseEnds(p) /\ Arg(p) = OnlyR
    BY <1>1, <1>4, CallAt, PipelineCalls DEF Performs
  <2>3. pc[p] = 3 => CloseEnds(p) /\ Arg(p) = OnlyW
    BY <1>1, <1>4, CallAt, PipelineCalls DEF Performs
  <2>4. pc[p] = 4 => ReadAll(p) /\ Arg(p) = "down"
    BY <1>1, <1>4, CallAt, PipelineCalls DEF Performs
  <2>5. pc[p] > 4 => Exit(p)
    BY <1>1, <1>4, CallAt, PipelineCalls
  <2> QED  BY <1>4, <2>1, <2>2, <2>3, <2>4, <2>5
<1> QED  BY <1>1, <1>2, <1>3, <1>4

LEMMA PipelineAfter ==
  ASSUME IpcTypes, PipelineInv, NEW p \in Processes, Step(p)
  PROVE  PipelineInv'
<1> SUFFICES ASSUME Undisturbed', program' = "a2" PROVE PipelineInv'
  BY DEF PipelineInv
<1>1. /\ UNCHANGED <<run, program, killed, spoiled>> /\ program = "a2" /\ Undisturbed
      /\ p \in {"parent", "ls", "wc"} /\ status[p] = "running"
      /\ status \in [Processes -> {"running", "ended", "killed", "failed", "off"}]
      /\ pc \in [Processes -> Nat \ {0}] /\ {"parent", "ls", "wc"} \subseteq Processes
      /\ data \in [Channels \cup Paths -> Seq(Messages)] /\ "down" \in Channels
      /\ got \in [Processes -> Seq(Messages)]
  BY CallAt, StillUndisturbed, PipelineCalls DEF IpcTypes, Located, MailTypes, Processes, Channels
<1> DEFINE L == pc["ls"]
           W == pc["wc"]
           there == Len(got["wc"])
           under == Len(data["down"])
<1>2. /\ there + under = Lines(L)
      /\ status["ls"] = "running" => W <= 4 /\ KeepsEnd("ls", "w", 3)
      /\ status["ls"] # "running" => L > 5
      /\ status["wc"] # "running" => W > 4
      /\ W <= 4 => KeepsEnd("wc", "r", 2)
      /\ W > 4 => data["down"] = <<>>
  BY <1>1 DEF PipelineInv
<1>3. L \in Nat \ {0} /\ W \in Nat \ {0} /\ there \in Nat /\ under \in Nat
  BY <1>1
<1>4. \A q \in Processes \ {p} : \A dir, last : KeepsEnd(q, dir, last) /\ pc'[q] = pc[q] => KeepsEnd(q, dir, last)'
  <2>1. "backlog" \notin Processes
    BY DEF Processes
  <2>2. \A q \in Processes \ {p} : \A dir, d : <<q, "down", dir, d>> \in ends => <<q, "down", dir, d>> \in ends'
    BY <2>1, OthersEnds
  <2> QED  BY <2>2 DEF KeepsEnd
<1>5. CASE p = "parent"
  <2>1. CloseEnds(p) \/ WaitForChild(p) \/ Exit(p)
    BY <1>1, <1>5, PipelineDoes
  <2>2. UNCHANGED <<got, data>> /\ L' = L /\ W' = W /\ status'["ls"] = status["ls"] /\ status'["wc"] = status["wc"]
    BY <1>1, <1>5, <2>1 DEF CloseEnds, WaitForChild, Exit, Leave, Return, kernel
  <2>3. (KeepsEnd("ls", "w", 3) => KeepsEnd("ls", "w", 3)') /\ (KeepsEnd("wc", "r", 2) => KeepsEnd("wc", "r", 2)')
    BY <1>1, <1>4, <1>5, <2>2
  <2> QED  BY <1>2, <2>2, <2>3 DEF PipelineInv
<1>6. CASE p = "ls"
  <2>1. W <= 4 /\ KeepsEnd("ls", "w", 3) /\ KeepsEnd("wc", "r", 2)
    BY <1>1, <1>2, <1>6
  <2>2. CASE L \in {1, 2, 3}
    <3>1. (Duplicate(p) /\ Arg(p) = DownW) \/ CloseEnds(p)
      BY <1>1, <1>6, <2>2, PipelineDoes
    <3>2. UNCHANGED <<got, data, status>> /\ L' = L + 1 /\ W' = W
      BY <1>1, <1>3, <1>6, <3>1 DEF Duplicate, CloseEnds, Return
    <3>3. KeepsEnd("ls", "w", 3)'
      <4>1. CASE L = 1
        <5>1. Duplicate(p) /\ Arg(p) = DownW
          BY <1>1, <1>6, <4>1, PipelineDoes
        <5> QED  BY <1>6, <2>1, <3>2, <4>1, <5>1 DEF Duplicate, KeepsEnd, OnlyW, DownW
      <4>2. CASE L = 2
        <5>1. CloseEnds(p) /\ Arg(p) = OnlyR
          BY <1>1, <1>6, <4>2, PipelineDoes
        <5> QED  BY <1>6, <2>1, <3>2, <4>2, <5>1 DEF CloseEnds, KeepsEnd, OnlyR, DownR
      <4>3. CASE L = 3
        <5>1. CloseEnds(p) /\ Arg(p) = OnlyW
          BY <1>1, <1>6, <4>3, PipelineDoes
        <5> QED  BY <1>6, <2>1, <3>2, <4>3, <5>1 DEF CloseEnds, KeepsEnd, OnlyW, DownW
      <4> QED  BY <2>2, <4>1, <4>2, <4>3
    <3>4. KeepsEnd("wc", "r", 2)'
      BY <1>1, <1>4, <1>6, <2>1, <3>2
    <3>5. Lines(L') = Lines(L)
      BY <2>2, <3>2 DEF Lines
    <3> QED  BY <1>1, <1>2, <1>6, <2>1, <3>2, <3>3, <3>4, <3>5 DEF PipelineInv
  <2>3. CASE L \in {4, 5}
    <3>1. Write(p) /\ Arg(p) = "down"
      BY <1>1, <1>6, <2>3, PipelineDoes
    <3>2. Holders("down", "r") # {}
      <4>1. <<"wc", "down", "r", "fd">> \in ends \/ <<"wc", "down", "r", "std">> \in ends
        BY <1>3, <2>1 DEF KeepsEnd
      <4> QED  BY <4>1 DEF Holders
    <3>3. /\ UNCHANGED <<got, status, ends>> /\ L' = L + 1 /\ W' = W
          /\ data' = [data EXCEPT !["down"] = Append(@, Message(p))]
      BY <1>1, <1>3, <1>6, <3>1, <3>2 DEF Write, WriteTo, Return
    <3>4. Len(data'["down"]) = under + 1
      BY <1>1, <3>3
    <3>5. Lines(L') = Lines(L) + 1
      BY <2>3, <3>3 DEF Lines
    <3>6. KeepsEnd("ls", "w", 3)' /\ KeepsEnd("wc", "r", 2)'
      BY <2>1, <2>3, <3>3 DEF KeepsEnd
    <3>7. there' + under' = Lines(L')
      <4>1. there' = there /\ under' = under + 1 /\ Lines(L') = Lines(L) + 1 /\ Lines(L) \in Nat
        BY <3>3, <3>4, <3>5 DEF Lines
      <4> HIDE DEF there, under, L
      <4> QED  BY <1>2, <1>3, <4>1
    <3> QED  BY <1>1, <1>3, <1>6, <2>1, <3>3, <3>6, <3>7 DEF PipelineInv
  <2>4. CASE L > 5
    <3>1. Exit(p)
      BY <1>1, <1>6, <2>4, PipelineDoes
    <3>2. UNCHANGED <<got, data, pc>> /\ status'["ls"] = "ended" /\ status'["wc"] = status["wc"]
      BY <1>1, <1>6, <3>1 DEF Exit, Leave
    <3>3. KeepsEnd("wc", "r", 2)'
      BY <1>1, <1>4, <1>6, <2>1, <3>2
    <3> QED  BY <1>2, <2>1, <2>4, <3>2, <3>3 DEF PipelineInv
  <2> QED  BY <1>3, <2>2, <2>3, <2>4
<1>7. CASE p = "wc"
  <2>1. status["ls"] = "running" /\ L' = L => KeepsEnd("ls", "w", 3)'
    BY <1>1, <1>2, <1>4, <1>7
  <2>2. CASE W \in {1, 2, 3}
    <3>1. (Duplicate(p) /\ Arg(p) = DownR) \/ CloseEnds(p)
      BY <1>1, <1>7, <2>2, PipelineDoes
    <3>2. UNCHANGED <<got, data, status>> /\ W' = W + 1 /\ L' = L
      BY <1>1, <1>3, <1>7, <3>1 DEF Duplicate, CloseEnds, Return
    <3>3. KeepsEnd("wc", "r", 2)'
      <4>1. CASE W = 1
        <5>1. Duplicate(p) /\ Arg(p) = DownR
          BY <1>1, <1>7, <4>1, PipelineDoes
        <5> QED  BY <1>2, <1>7, <3>2, <4>1, <5>1 DEF Duplicate, KeepsEnd, OnlyR, DownR
      <4>2. CASE W = 2
        <5>1. CloseEnds(p) /\ Arg(p) = OnlyR
          BY <1>1, <1>7, <4>2, PipelineDoes
        <5> QED  BY <1>2, <1>7, <3>2, <4>2, <5>1 DEF CloseEnds, KeepsEnd, OnlyR, DownR
      <4>3. CASE W = 3
        <5>1. CloseEnds(p) /\ Arg(p) = OnlyW
          BY <1>1, <1>7, <4>3, PipelineDoes
        <5> QED  BY <1>2, <1>7, <3>2, <4>3, <5>1 DEF CloseEnds, KeepsEnd, OnlyW, DownW
      <4> QED  BY <2>2, <4>1, <4>2, <4>3
    <3>4. W' <= 4 /\ status'["wc"] = "running"
      BY <1>1, <1>7, <2>2, <3>2
    <3> QED  BY <1>1, <1>2, <2>1, <2>2, <3>2, <3>3, <3>4 DEF PipelineInv
  <2>3. CASE W = 4
    <3>1. ReadAll(p) /\ Arg(p) = "down"
      BY <1>1, <1>7, <2>3, PipelineDoes
    <3>2. CASE data["down"] = <<>>
      <4>1. UNCHANGED <<got, data, status, ends>> /\ W' = 5 /\ L' = L /\ Holders("down", "w") = {}
        BY <1>1, <1>7, <2>3, <3>1, <3>2 DEF ReadAll, ReadFrom, Return
      <4>2. status["ls"] # "running"
        <5>1. KeepsEnd("ls", "w", 3) => Holders("down", "w") # {}
          BY <1>3 DEF KeepsEnd, Holders
        <5> QED  BY <1>2, <4>1, <5>1
      <4> QED  BY <1>1, <1>2, <1>7, <3>2, <4>1, <4>2 DEF PipelineInv
    <3>3. CASE data["down"] # <<>>
      <4>1. /\ UNCHANGED <<pc, status, ends>> /\ Receive(p, Head(data["down"]))
            /\ data' = [data EXCEPT !["down"] = Tail(@)]
        BY <3>1, <3>3 DEF ReadAll, ReadFrom
      <4>2. Len(data'["down"]) = under - 1
        BY <1>1, <3>3, <4>1
      <4>3. Len(got'["wc"]) = there + 1
        BY <1>1, <1>7, <4>1 DEF Receive
      <4>4. there' + under' = Lines(L')
        <5>1. Lines(L') = Lines(L) /\ Lines(L) \in Nat
          BY <4>1 DEF Lines
        <5>2. there' = there + 1 /\ under' = under - 1
          BY <4>2, <4>3
        <5>3. there + under = Lines(L) /\ there \in Nat /\ under \in Nat
          BY <1>2, <1>3
        <5> HIDE DEF there, under, L
        <5> QED  BY <5>1, <5>2, <5>3
      <4>5. W' = 4 /\ L' = L /\ UNCHANGED status
        BY <2>3, <4>1
      <4>6. KeepsEnd("wc", "r", 2)'
        BY <1>2, <2>3, <4>1 DEF KeepsEnd
      <4>7. status["ls"] = "running" => KeepsEnd("ls", "w", 3)'
        BY <2>1, <4>5
      <4>8. status["wc"] = "running"
        BY <1>1, <1>7
      <4>9. W' <= 4 /\ ~(W' > 4) /\ (status'["ls"] # "running" => L' > 5)
        BY <1>2, <4>5
      <4> HIDE DEF L, W, there, under
      <4>10. /\ there' + under' = Lines(L')
             /\ status'["ls"] = "running" => W' <= 4 /\ KeepsEnd("ls", "w", 3)'
             /\ status'["ls"] # "running" => L' > 5
             /\ status'["wc"] # "running" => W' > 4
             /\ W' <= 4 => KeepsEnd("wc", "r", 2)'
             /\ W' > 4 => data'["down"] = <<>>
        BY <4>4, <4>5, <4>6, <4>7, <4>8, <4>9
      <4> QED  BY <4>10 DEF PipelineInv, L, W, there, under
    <3> QED  BY <3>2, <3>3
  <2>4. CASE W > 4
    <3>1. Exit(p)
      BY <1>1, <1>7, <2>4, PipelineDoes
    <3>2. UNCHANGED <<got, data, pc>> /\ status'["ls"] = status["ls"]
      BY <1>1, <1>7, <3>1 DEF Exit, Leave
    <3> QED  BY <1>1, <1>2, <1>3, <2>1, <2>4, <3>2 DEF PipelineInv
  <2> QED  BY <1>3, <2>2, <2>3, <2>4
<1> QED  BY <1>1, <1>5, <1>6, <1>7

-----------------------------------------------------------------------------
\* What lies in a channel: who has written it, and in answer to whom.
WrittenBy(s, q) == \A i \in 1 .. Len(s) : s[i].from = q
Answers(s, q, k) == \A i \in 1 .. Len(s) : s[i].from = q /\ s[i].re = k

LEMMA WritingStays ==
  ASSUME NEW S, NEW s \in Seq(S), NEW q
  PROVE  /\ WrittenBy(<<>>, q)
         /\ \A m : WrittenBy(s, q) /\ m.from = q => WrittenBy(Append(s, m), q)
         /\ s # <<>> /\ WrittenBy(s, q) => WrittenBy(Tail(s), q) /\ Head(s).from = q
  BY DEF WrittenBy

LEMMA AnswersStay ==
  ASSUME NEW S, NEW s \in Seq(S), NEW q, NEW k
  PROVE  /\ Answers(<<>>, q, k)
         /\ \A m : Answers(s, q, k) /\ m.from = q /\ m.re = k => Answers(Append(s, m), q, k)
         /\ s # <<>> /\ Answers(s, q, k) => Answers(Tail(s), q, k) /\ Head(s).from = q /\ Head(s).re = k
  BY DEF Answers

\* A channel after a write, and after a read.
LEMMA Written ==
  ASSUME IpcTypes, NEW c \in Channels \cup Paths, NEW m, data' = [data EXCEPT ![c] = Append(@, m)]
  PROVE  /\ data'[c] = Append(data[c], m) /\ data'[c] # <<>> /\ data[c] \in Seq(Messages)
         /\ \A d \in (Channels \cup Paths) \ {c} : data'[d] = data[d]
<1>1. data \in [Channels \cup Paths -> Seq(Messages)]
  BY DEF IpcTypes, MailTypes
<1>2. data[c] \in Seq(Messages) /\ data'[c] = Append(data[c], m)
  BY <1>1
<1>3. Append(data[c], m) # <<>>
  BY <1>2
<1> QED  BY <1>1, <1>2, <1>3

LEMMA ReadFirst ==
  ASSUME IpcTypes, MailInv, NEW c \in Channels \cup Paths, data[c] # <<>>,
         data' = [data EXCEPT ![c] = Tail(@)]
  PROVE  /\ data'[c] = Tail(data[c]) /\ data[c] \in Seq(Messages) /\ Head(data[c]).run = run
         /\ \A d \in (Channels \cup Paths) \ {c} : data'[d] = data[d]
<1>1. data \in [Channels \cup Paths -> Seq(Messages)]
  BY DEF IpcTypes, MailTypes
<1>2. data[c] \in Seq(Messages) /\ 1 \in 1 .. Len(data[c])
  BY <1>1
<1>3. data[c][1].run = run
  BY <1>2 DEF MailInv, OfRuns
<1> QED  BY <1>1, <1>2, <1>3

-----------------------------------------------------------------------------
\* task_a1, task_a3 and task_c1: down goes the parent's message, up the child's answer.
\* Where the parent writes, and from where on the ends are there.
PipeAt == [a1 |-> 3, a3 |-> 5, c1 |-> 2]
DownFrom == [a1 |-> 1, a3 |-> 2, c1 |-> 1]
UpFrom == [a1 |-> 1, a3 |-> 4, c1 |-> 1]
DownEnd == [parent |-> "w", child |-> "r"]
UpEnd == [parent |-> "r", child |-> "w"]
Both == {"parent", "child"}
Pipes == {"a1", "a3", "c1"}
LocalEnds(q, n) ==
  /\ DownFrom[program] <= pc[q] /\ pc[q] <= n + 1 => <<q, "down", DownEnd[q], "fd">> \in ends
  /\ UpFrom[program] <= pc[q] /\ pc[q] <= n + 1 => <<q, "up", UpEnd[q], "fd">> \in ends
OpenedLate(q) == program = "a3" => \A e \in ends : e[2] = "up" /\ e[3] = UpEnd[q] => pc[q] >= 4
PipeEnds(n) ==
  \A q \in Both :
    /\ LocalEnds(q, n) /\ OpenedLate(q)
    /\ status[q] # "running" => pc[q] > n + 1
    /\ \A r \in Both : pc[r] >= n => pc[q] >= UpFrom[program]
PipeMail(n) ==
  /\ pc["parent"] <= n => data["down"] = <<>> /\ pc["child"] <= n
  /\ WrittenBy(data["down"], "parent")
  /\ pc["child"] <= n + 1 => data["up"] = <<>> /\ pc["parent"] <= n + 1
  /\ pc["child"] = n + 1 => got["child"] # <<>> /\ Last(got["child"]).from = "parent"
  /\ pc["child"] > n + 1 /\ pc["parent"] <= n + 1 => data["up"] # <<>>
  /\ Answers(data["up"], "child", "parent")
  /\ pc["parent"] <= n + 1 => got["parent"] = <<>>
  /\ pc["parent"] > n + 1 => Answered("parent")
PipeInv ==
  Undisturbed /\ program \in Pipes => PipeEnds(PipeAt[program]) /\ PipeMail(PipeAt[program])

\* How a process of such a program goes on.
Prepares(p) ==
  \/ /\ program # "a3" /\ CloseEnds(p)
     /\ <<"down", DownEnd[p]>> \notin Arg(p) /\ <<"up", UpEnd[p]>> \notin Arg(p)
  \/ program = "a3" /\ pc[p] = 1 /\ OpenFifo(p) /\ Arg(p) = <<"down", DownEnd[p]>>
  \/ program = "a3" /\ pc[p] = 2 /\ OpenedFifo(p)
  \/ program = "a3" /\ pc[p] = 3 /\ OpenFifo(p) /\ Arg(p) = <<"up", UpEnd[p]>>
  \/ program = "a3" /\ pc[p] = 4 /\ OpenedFifo(p) /\ Arg(p) = <<"up", UpEnd[p]>>
PipeDoes(p, n) ==
  /\ p \in Both
  /\ pc[p] < n => Prepares(p)
  /\ pc[p] = n => IF p = "parent" THEN Write(p) /\ Arg(p) = "down" ELSE Read(p) /\ Arg(p) = "down"
  /\ pc[p] = n + 1 => IF p = "parent" THEN Read(p) /\ Arg(p) = "up" ELSE Write(p) /\ Arg(p) = "up"
  /\ pc[p] > n + 1 => CloseEnds(p) \/ WaitForChild(p) \/ Exit(p)

OnlyDownR == {DownR}
OnlyDownW == {DownW}
OnlyUpR == {UpR}
OnlyUpW == {UpW}
ChildsEnd == {DownR, UpW}
ParentsEnd == {DownW, UpR}
LEMMA EndSets ==
  /\ <<"down", "w">> \notin OnlyDownR /\ <<"up", "r">> \notin OnlyDownR
  /\ <<"down", "w">> \notin OnlyUpW /\ <<"up", "r">> \notin OnlyUpW
  /\ <<"down", "r">> \notin OnlyDownW /\ <<"up", "w">> \notin OnlyDownW
  /\ <<"down", "r">> \notin OnlyUpR /\ <<"up", "w">> \notin OnlyUpR
  /\ <<"down", "w">> \notin ChildsEnd /\ <<"up", "r">> \notin ChildsEnd
  /\ <<"down", "r">> \notin ParentsEnd /\ <<"up", "w">> \notin ParentsEnd
  BY DEF OnlyDownR, OnlyDownW, OnlyUpR, OnlyUpW, ChildsEnd, ParentsEnd, DownR, DownW, UpR, UpW

LEMMA TwoPipesCalls ==
  ASSUME program = "a1"
  PROVE  /\ DOMAIN Programs[program] = Both
         /\ Len(Script("parent")) = 7 /\ Len(Script("child")) = 6
         /\ Script("parent")[1] = <<"close", OnlyDownR>> /\ Script("parent")[2] = <<"close", OnlyUpW>>
         /\ Script("parent")[3] = <<"write", "down">> /\ Script("parent")[4] = <<"read", "up">>
         /\ Script("parent")[5] = <<"close", OnlyDownW>> /\ Script("parent")[6] = <<"close", OnlyUpR>>
         /\ Script("parent")[7] = <<"wait", "child">>
         /\ Script("child")[1] = <<"close", OnlyDownW>> /\ Script("child")[2] = <<"close", OnlyUpR>>
         /\ Script("child")[3] = <<"read", "down">> /\ Script("child")[4] = <<"write", "up">>
         /\ Script("child")[5] = <<"close", OnlyDownR>> /\ Script("child")[6] = <<"close", OnlyUpW>>
<1>1. Programs[program] = BidirectionalPipe
  BY ProgramsAre
<1> USE DEF OnlyDownR, OnlyDownW, OnlyUpR, OnlyUpW
<1>2. /\ Len(Script("parent")) = 7
      /\ Script("parent")[1] = <<"close", OnlyDownR>> /\ Script("parent")[2] = <<"close", OnlyUpW>>
      /\ Script("parent")[3] = <<"write", "down">> /\ Script("parent")[4] = <<"read", "up">>
      /\ Script("parent")[5] = <<"close", OnlyDownW>> /\ Script("parent")[6] = <<"close", OnlyUpR>>
      /\ Script("parent")[7] = <<"wait", "child">>
  <2>1. BidirectionalPipe["parent"] =
          << <<"close", OnlyDownR>>, <<"close", OnlyUpW>>, <<"write", "down">>, <<"read", "up">>,
             <<"close", OnlyDownW>>, <<"close", OnlyUpR>>, <<"wait", "child">> >>
    BY Zenon DEF BidirectionalPipe
  <2>2. Script("parent") = BidirectionalPipe["parent"]
    BY <1>1 DEF Script
  <2> HIDE DEF OnlyDownR, OnlyDownW, OnlyUpR, OnlyUpW
  <2> QED  BY <2>1, <2>2
<1>3. /\ Len(Script("child")) = 6
      /\ Script("child")[1] = <<"close", OnlyDownW>> /\ Script("child")[2] = <<"close", OnlyUpR>>
      /\ Script("child")[3] = <<"read", "down">> /\ Script("child")[4] = <<"write", "up">>
      /\ Script("child")[5] = <<"close", OnlyDownR>> /\ Script("child")[6] = <<"close", OnlyUpW>>
  <2>1. BidirectionalPipe["child"] =
          << <<"close", OnlyDownW>>, <<"close", OnlyUpR>>, <<"read", "down">>, <<"write", "up">>,
             <<"close", OnlyDownR>>, <<"close", OnlyUpW>> >>
    BY Zenon DEF BidirectionalPipe
  <2>2. Script("child") = BidirectionalPipe["child"]
    BY <1>1 DEF Script
  <2> HIDE DEF OnlyDownR, OnlyDownW, OnlyUpR, OnlyUpW
  <2> QED  BY <2>1, <2>2
<1> QED  BY <1>1, <1>2, <1>3 DEF BidirectionalPipe, Both

LEMMA FifosCalls ==
  ASSUME program = "a3"
  PROVE  /\ DOMAIN Programs[program] = Both
         /\ Len(Script("parent")) = 8 /\ Len(Script("child")) = 8
         /\ Script("parent")[1] = <<"open", DownW>> /\ Script("parent")[2] = <<"opened", DownW>>
         /\ Script("parent")[3] = <<"open", UpR>> /\ Script("parent")[4] = <<"opened", UpR>>
         /\ Script("parent")[5] = <<"write", "down">> /\ Script("parent")[6] = <<"read", "up">>
         /\ Script("parent")[7] = <<"close", OnlyDownW>> /\ Script("parent")[8] = <<"close", OnlyUpR>>
         /\ Script("child")[1] = <<"open", DownR>> /\ Script("child")[2] = <<"opened", DownR>>
         /\ Script("child")[3] = <<"open", UpW>> /\ Script("child")[4] = <<"opened", UpW>>
         /\ Script("child")[5] = <<"read", "down">> /\ Script("child")[6] = <<"write", "up">>
         /\ Script("child")[7] = <<"close", OnlyDownR>> /\ Script("child")[8] = <<"close", OnlyUpW>>
<1>1. Programs[program] = TwoFifos
  BY ProgramsAre
<1> USE DEF OnlyDownR, OnlyDownW, OnlyUpR, OnlyUpW
<1>2. /\ Len(Script("parent")) = 8
      /\ Script("parent")[1] = <<"open", DownW>> /\ Script("parent")[2] = <<"opened", DownW>>
      /\ Script("parent")[3] = <<"open", UpR>> /\ Script("parent")[4] = <<"opened", UpR>>
      /\ Script("parent")[5] = <<"write", "down">> /\ Script("parent")[6] = <<"read", "up">>
      /\ Script("parent")[7] = <<"close", OnlyDownW>> /\ Script("parent")[8] = <<"close", OnlyUpR>>
  BY <1>1 DEF Script, TwoFifos
<1>3. /\ Len(Script("child")) = 8
      /\ Script("child")[1] = <<"open", DownR>> /\ Script("child")[2] = <<"opened", DownR>>
      /\ Script("child")[3] = <<"open", UpW>> /\ Script("child")[4] = <<"opened", UpW>>
      /\ Script("child")[5] = <<"read", "down">> /\ Script("child")[6] = <<"write", "up">>
      /\ Script("child")[7] = <<"close", OnlyDownR>> /\ Script("child")[8] = <<"close", OnlyUpW>>
  BY <1>1 DEF Script, TwoFifos
<1> QED  BY <1>1, <1>2, <1>3 DEF TwoFifos, Both

LEMMA PairCalls ==
  ASSUME program = "c1"
  PROVE  /\ DOMAIN Programs[program] = Both
         /\ Len(Script("parent")) = 5 /\ Len(Script("child")) = 4
         /\ Script("parent")[1] = <<"close", ChildsEnd>> /\ Script("parent")[2] = <<"write", "down">>
         /\ Script("parent")[3] = <<"read", "up">> /\ Script("parent")[4] = <<"close", ParentsEnd>>
         /\ Script("parent")[5] = <<"wait", "child">>
         /\ Script("child")[1] = <<"close", ParentsEnd>> /\ Script("child")[2] = <<"read", "down">>
         /\ Script("child")[3] = <<"write", "up">> /\ Script("child")[4] = <<"close", ChildsEnd>>
<1>1. Programs[program] = SocketPair
  BY ProgramsAre
<1> USE DEF ChildsEnd, ParentsEnd
<1>2. /\ Len(Script("parent")) = 5
      /\ Script("parent")[1] = <<"close", ChildsEnd>> /\ Script("parent")[2] = <<"write", "down">>
      /\ Script("parent")[3] = <<"read", "up">> /\ Script("parent")[4] = <<"close", ParentsEnd>>
      /\ Script("parent")[5] = <<"wait", "child">>
  BY <1>1 DEF Script, SocketPair
<1>3. /\ Len(Script("child")) = 4
      /\ Script("child")[1] = <<"close", ParentsEnd>> /\ Script("child")[2] = <<"read", "down">>
      /\ Script("child")[3] = <<"write", "up">> /\ Script("child")[4] = <<"close", ChildsEnd>>
  BY <1>1 DEF Script, SocketPair
<1> QED  BY <1>1, <1>2, <1>3 DEF SocketPair, Both

LEMMA PipeSteps ==
  ASSUME IpcTypes, program \in Pipes, NEW p \in Processes, Step(p)
  PROVE  PipeDoes(p, PipeAt[program])
<1>1. CASE program = "a1"
  <2>1. p \in Both /\ pc[p] \in Nat \ {0} /\ PipeAt[program] = 3
    BY <1>1, CallAt, TwoPipesCalls DEF PipeAt
  <2>2. CASE p = "parent"
    <3>1. pc[p] = 1 => CloseEnds(p) /\ Arg(p) = OnlyDownR
      <4>1. Script(p)[1] = <<"close", OnlyDownR>> /\ 1 <= Len(Script(p))
        BY <1>1, <2>2, TwoPipesCalls
      <4> QED  BY <4>1, CallAt DEF Performs
    <3>2. pc[p] = 2 => CloseEnds(p) /\ Arg(p) = OnlyUpW
      <4>1. Script(p)[2] = <<"close", OnlyUpW>> /\ 2 <= Len(Script(p))
        BY <1>1, <2>2, TwoPipesCalls
      <4> QED  BY <4>1, CallAt DEF Performs
    <3>3. pc[p] = 3 => Write(p) /\ Arg(p) = "down"
      <4>1. Script(p)[3] = <<"write", "down">> /\ 3 <= Len(Script(p))
        BY <1>1, <2>2, TwoPipesCalls
      <4> QED  BY <4>1, CallAt DEF Performs
    <3>4. pc[p] = 4 => Read(p) /\ Arg(p) = "up"
      <4>1. Script(p)[4] = <<"read", "up">> /\ 4 <= Len(Script(p))
        BY <1>1, <2>2, TwoPipesCalls
      <4> QED  BY <4>1, CallAt DEF Performs
    <3>5. pc[p] = 5 => CloseEnds(p)
      <4>1. Script(p)[5] = <<"close", OnlyDownW>> /\ 5 <= Len(Script(p))
        BY <1>1, <2>2, TwoPipesCalls
      <4> QED  BY <4>1, CallAt DEF Performs
    <3>6. pc[p] = 6 => CloseEnds(p)
      <4>1. Script(p)[6] = <<"close", OnlyUpR>> /\ 6 <= Len(Script(p))
        BY <1>1, <2>2, TwoPipesCalls
      <4> QED  BY <4>1, CallAt DEF Performs
    <3>7. pc[p] = 7 => WaitForChild(p)
      <4>1. Script(p)[7] = <<"wait", "child">> /\ 7 <= Len(Script(p))
        BY <1>1, <2>2, TwoPipesCalls
      <4> QED  BY <4>1, CallAt DEF Performs
    <3>8. pc[p] > 7 => Exit(p)
      BY <1>1, <2>1, <2>2, CallAt, TwoPipesCalls
    <3>9. pc[p] < 3 => Prepares(p)
      BY <1>1, <2>1, <2>2, <3>1, <3>2, EndSets DEF Prepares, DownEnd, UpEnd
    <3>10. pc[p] > 4 => CloseEnds(p) \/ WaitForChild(p) \/ Exit(p)
      BY <2>1, <3>5, <3>6, <3>7, <3>8
    <3> QED  BY <2>1, <2>2, <3>3, <3>4, <3>9, <3>10 DEF PipeDoes
  <2>3. CASE p = "child"
    <3>1. pc[p] = 1 => CloseEnds(p) /\ Arg(p) = OnlyDownW
      <4>1. Script(p)[1] = <<"close", OnlyDownW>> /\ 1 <= Len(Script(p))
        BY <1>1, <2>3, TwoPipesCalls
      <4> QED  BY <4>1, CallAt DEF Performs
    <3>2. pc[p] = 2 => CloseEnds(p) /\ Arg(p) = OnlyUpR
      <4>1. Script(p)[2] = <<"close", OnlyUpR>> /\ 2 <= Len(Script(p))
        BY <1>1, <2>3, TwoPipesCalls
      <4> QED  BY <4>1, CallAt DEF Performs
    <3>3. pc[p] = 3 => Read(p) /\ Arg(p) = "down"
      <4>1. Script(p)[3] = <<"read", "down">> /\ 3 <= Len(Script(p))
        BY <1>1, <2>3, TwoPipesCalls
      <4> QED  BY <4>1, CallAt DEF Performs
    <3>4. pc[p] = 4 => Write(p) /\ Arg(p) = "up"
      <4>1. Script(p)[4] = <<"write", "up">> /\ 4 <= Len(Script(p))
        BY <1>1, <2>3, TwoPipesCalls
      <4> QED  BY <4>1, CallAt DEF Performs
    <3>5. pc[p] = 5 => CloseEnds(p)
      <4>1. Script(p)[5] = <<"close", OnlyDownR>> /\ 5 <= Len(Script(p))
        BY <1>1, <2>3, TwoPipesCalls
      <4> QED  BY <4>1, CallAt DEF Performs
    <3>6. pc[p] = 6 => CloseEnds(p)
      <4>1. Script(p)[6] = <<"close", OnlyUpW>> /\ 6 <= Len(Script(p))
        BY <1>1, <2>3, TwoPipesCalls
      <4> QED  BY <4>1, CallAt DEF Performs
    <3>7. pc[p] > 6 => Exit(p)
      BY <1>1, <2>1, <2>3, CallAt, TwoPipesCalls
    <3>8. pc[p] < 3 => Prepares(p)
      BY <1>1, <2>1, <2>3, <3>1, <3>2, EndSets DEF Prepares, DownEnd, UpEnd
    <3>9. pc[p] > 4 => CloseEnds(p) \/ WaitForChild(p) \/ Exit(p)
      BY <2>1, <3>5, <3>6, <3>7
    <3> QED  BY <2>1, <2>3, <3>3, <3>4, <3>8, <3>9 DEF PipeDoes
  <2> QED  BY <2>1, <2>2, <2>3 DEF Both
<1>2. CASE program = "a3"
  <2>1. p \in Both /\ pc[p] \in Nat \ {0} /\ PipeAt[program] = 5
    BY <1>2, CallAt, FifosCalls DEF PipeAt
  <2>2. CASE p = "parent"
    <3>1. pc[p] = 1 => OpenFifo(p) /\ Arg(p) = DownW
      <4>1. Script(p)[1] = <<"open", DownW>> /\ 1 <= Len(Script(p))
        BY <1>2, <2>2, FifosCalls
      <4> QED  BY <4>1, CallAt DEF Performs
    <3>2. pc[p] = 2 => OpenedFifo(p)
      <4>1. Script(p)[2] = <<"opened", DownW>> /\ 2 <= Len(Script(p))
        BY <1>2, <2>2, FifosCalls
      <4> QED  BY <4>1, CallAt DEF Performs
    <3>3. pc[p] = 3 => OpenFifo(p) /\ Arg(p) = UpR
      <4>1. Script(p)[3] = <<"open", UpR>> /\ 3 <= Len(Script(p))
        BY <1>2, <2>2, FifosCalls
      <4> QED  BY <4>1, CallAt DEF Performs
    <3>4. pc[p] = 4 => OpenedFifo(p) /\ Arg(p) = UpR
      <4>1. Script(p)[4] = <<"opened", UpR>> /\ 4 <= Len(Script(p))
        BY <1>2, <2>2, FifosCalls
      <4> QED  BY <4>1, CallAt DEF Performs
    <3>5. pc[p] = 5 => Write(p) /\ Arg(p) = "down"
      <4>1. Script(p)[5] = <<"write", "down">> /\ 5 <= Len(Script(p))
        BY <1>2, <2>2, FifosCalls
      <4> QED  BY <4>1, CallAt DEF Performs
    <3>6. pc[p] = 6 => Read(p) /\ Arg(p) = "up"
      <4>1. Script(p)[6] = <<"read", "up">> /\ 6 <= Len(Script(p))
        BY <1>2, <2>2, FifosCalls
      <4> QED  BY <4>1, CallAt DEF Performs
    <3>7. pc[p] = 7 => CloseEnds(p)
      <4>1. Script(p)[7] = <<"close", OnlyDownW>> /\ 7 <= Len(Script(p))
        BY <1>2, <2>2, FifosCalls
      <4> QED  BY <4>1, CallAt DEF Performs
    <3>8. pc[p] = 8 => CloseEnds(p)
      <4>1. Script(p)[8] = <<"close", OnlyUpR>> /\ 8 <= Len(Script(p))
        BY <1>2, <2>2, FifosCalls
      <4> QED  BY <4>1, CallAt DEF Performs
    <3>9. pc[p] > 8 => Exit(p)
      BY <1>2, <2>1, <2>2, CallAt, FifosCalls
    <3>10. pc[p] < 5 => Prepares(p)
      BY <1>2, <2>1, <2>2, <3>1, <3>2, <3>3, <3>4 DEF Prepares, DownEnd, UpEnd, DownW, UpR
    <3>11. pc[p] > 6 => CloseEnds(p) \/ WaitForChild(p) \/ Exit(p)
      BY <2>1, <3>7, <3>8, <3>9
    <3> QED  BY <2>1, <2>2, <3>5, <3>6, <3>10, <3>11 DEF PipeDoes
  <2>3. CASE p = "child"
    <3>1. pc[p] = 1 => OpenFifo(p) /\ Arg(p) = DownR
      <4>1. Script(p)[1] = <<"open", DownR>> /\ 1 <= Len(Script(p))
        BY <1>2, <2>3, FifosCalls
      <4> QED  BY <4>1, CallAt DEF Performs
    <3>2. pc[p] = 2 => OpenedFifo(p)
      <4>1. Script(p)[2] = <<"opened", DownR>> /\ 2 <= Len(Script(p))
        BY <1>2, <2>3, FifosCalls
      <4> QED  BY <4>1, CallAt DEF Performs
    <3>3. pc[p] = 3 => OpenFifo(p) /\ Arg(p) = UpW
      <4>1. Script(p)[3] = <<"open", UpW>> /\ 3 <= Len(Script(p))
        BY <1>2, <2>3, FifosCalls
      <4> QED  BY <4>1, CallAt DEF Performs
    <3>4. pc[p] = 4 => OpenedFifo(p) /\ Arg(p) = UpW
      <4>1. Script(p)[4] = <<"opened", UpW>> /\ 4 <= Len(Script(p))
        BY <1>2, <2>3, FifosCalls
      <4> QED  BY <4>1, CallAt DEF Performs
    <3>5. pc[p] = 5 => Read(p) /\ Arg(p) = "down"
      <4>1. Script(p)[5] = <<"read", "down">> /\ 5 <= Len(Script(p))
        BY <1>2, <2>3, FifosCalls
      <4> QED  BY <4>1, CallAt DEF Performs
    <3>6. pc[p] = 6 => Write(p) /\ Arg(p) = "up"
      <4>1. Script(p)[6] = <<"write", "up">> /\ 6 <= Len(Script(p))
        BY <1>2, <2>3, FifosCalls
      <4> QED  BY <4>1, CallAt DEF Performs
    <3>7. pc[p] = 7 => CloseEnds(p)
      <4>1. Script(p)[7] = <<"close", OnlyDownR>> /\ 7 <= Len(Script(p))
        BY <1>2, <2>3, FifosCalls
      <4> QED  BY <4>1, CallAt DEF Performs
    <3>8. pc[p] = 8 => CloseEnds(p)
      <4>1. Script(p)[8] = <<"close", OnlyUpW>> /\ 8 <= Len(Script(p))
        BY <1>2, <2>3, FifosCalls
      <4> QED  BY <4>1, CallAt DEF Performs
    <3>9. pc[p] > 8 => Exit(p)
      BY <1>2, <2>1, <2>3, CallAt, FifosCalls
    <3>10. pc[p] < 5 => Prepares(p)
      BY <1>2, <2>1, <2>3, <3>1, <3>2, <3>3, <3>4 DEF Prepares, DownEnd, UpEnd, DownR, UpW
    <3>11. pc[p] > 6 => CloseEnds(p) \/ WaitForChild(p) \/ Exit(p)
      BY <2>1, <3>7, <3>8, <3>9
    <3> QED  BY <2>1, <2>3, <3>5, <3>6, <3>10, <3>11 DEF PipeDoes
  <2> QED  BY <2>1, <2>2, <2>3 DEF Both
<1>3. CASE program = "c1"
  <2>1. p \in Both /\ pc[p] \in Nat \ {0} /\ PipeAt[program] = 2
    BY <1>3, CallAt, PairCalls DEF PipeAt
  <2>2. CASE p = "parent"
    <3>1. pc[p] = 1 => CloseEnds(p) /\ Arg(p) = ChildsEnd
      <4>1. Script(p)[1] = <<"close", ChildsEnd>> /\ 1 <= Len(Script(p))
        BY <1>3, <2>2, PairCalls
      <4> QED  BY <4>1, CallAt DEF Performs
    <3>2. pc[p] = 2 => Write(p) /\ Arg(p) = "down"
      <4>1. Script(p)[2] = <<"write", "down">> /\ 2 <= Len(Script(p))
        BY <1>3, <2>2, PairCalls
      <4> QED  BY <4>1, CallAt DEF Performs
    <3>3. pc[p] = 3 => Read(p) /\ Arg(p) = "up"
      <4>1. Script(p)[3] = <<"read", "up">> /\ 3 <= Len(Script(p))
        BY <1>3, <2>2, PairCalls
      <4> QED  BY <4>1, CallAt DEF Performs
    <3>4. pc[p] = 4 => CloseEnds(p)
      <4>1. Script(p)[4] = <<"close", ParentsEnd>> /\ 4 <= Len(Script(p))
        BY <1>3, <2>2, PairCalls
      <4> QED  BY <4>1, CallAt DEF Performs
    <3>5. pc[p] = 5 => WaitForChild(p)
      <4>1. Script(p)[5] = <<"wait", "child">> /\ 5 <= Len(Script(p))
        BY <1>3, <2>2, PairCalls
      <4> QED  BY <4>1, CallAt DEF Performs
    <3>6. pc[p] > 5 => Exit(p)
      BY <1>3, <2>1, <2>2, CallAt, PairCalls
    <3>7. pc[p] < 2 => Prepares(p)
      BY <1>3, <2>1, <2>2, <3>1, EndSets DEF Prepares, DownEnd, UpEnd
    <3>8. pc[p] > 3 => CloseEnds(p) \/ WaitForChild(p) \/ Exit(p)
      BY <2>1, <3>4, <3>5, <3>6
    <3> QED  BY <2>1, <2>2, <3>2, <3>3, <3>7, <3>8 DEF PipeDoes
  <2>3. CASE p = "child"
    <3>1. pc[p] = 1 => CloseEnds(p) /\ Arg(p) = ParentsEnd
      <4>1. Script(p)[1] = <<"close", ParentsEnd>> /\ 1 <= Len(Script(p))
        BY <1>3, <2>3, PairCalls
      <4> QED  BY <4>1, CallAt DEF Performs
    <3>2. pc[p] = 2 => Read(p) /\ Arg(p) = "down"
      <4>1. Script(p)[2] = <<"read", "down">> /\ 2 <= Len(Script(p))
        BY <1>3, <2>3, PairCalls
      <4> QED  BY <4>1, CallAt DEF Performs
    <3>3. pc[p] = 3 => Write(p) /\ Arg(p) = "up"
      <4>1. Script(p)[3] = <<"write", "up">> /\ 3 <= Len(Script(p))
        BY <1>3, <2>3, PairCalls
      <4> QED  BY <4>1, CallAt DEF Performs
    <3>4. pc[p] = 4 => CloseEnds(p)
      <4>1. Script(p)[4] = <<"close", ChildsEnd>> /\ 4 <= Len(Script(p))
        BY <1>3, <2>3, PairCalls
      <4> QED  BY <4>1, CallAt DEF Performs
    <3>5. pc[p] > 4 => Exit(p)
      BY <1>3, <2>1, <2>3, CallAt, PairCalls
    <3>6. pc[p] < 2 => Prepares(p)
      BY <1>3, <2>1, <2>3, <3>1, EndSets DEF Prepares, DownEnd, UpEnd
    <3>7. pc[p] > 3 => CloseEnds(p) \/ WaitForChild(p) \/ Exit(p)
      BY <2>1, <3>4, <3>5
    <3> QED  BY <2>1, <2>3, <3>2, <3>3, <3>6, <3>7 DEF PipeDoes
  <2> QED  BY <2>1, <2>2, <2>3 DEF Both
<1> QED  BY <1>1, <1>2, <1>3 DEF Pipes

\* The ends that the two processes need stay open until both messages are read.
LEMMA PipeEndsAfter ==
  ASSUME IpcTypes, program \in Pipes, NEW n, n = PipeAt[program], PipeEnds(n), NEW p \in Processes, Step(p),
         pc[p] \in {n, n + 1} => UNCHANGED <<ends, status>>
  PROVE  PipeEnds(n)'
<1>1. /\ PipeDoes(p, n) /\ p \in Both /\ program' = program /\ Both \subseteq Processes /\ "backlog" \notin Processes
      /\ status \in [Processes -> {"running", "ended", "killed", "failed", "off"}]
      /\ pc \in [Processes -> Nat \ {0}] /\ status[p] = "running"
  BY CallAt, PipeSteps DEF IpcTypes, Located, Processes, PipeDoes, Both
<1> DEFINE low == DownFrom[program]
           up == UpFrom[program]
<1>2. /\ low \in Nat /\ up \in Nat /\ low <= up /\ up <= n /\ n \in Nat
      /\ program # "a3" => low = 1 /\ up = 1
      /\ program = "a3" => low = 2 /\ up = 4 /\ n = 5
  BY DEF Pipes, PipeAt, DownFrom, UpFrom
<1>3. /\ pc'[p] \in {pc[p], pc[p] + 1} /\ \A q \in Processes \ {p} : pc'[q] = pc[q] /\ status'[q] = status[q]
      /\ pc[p] < n => pc'[p] = pc[p] + 1 /\ status' = status
      /\ pc[p] > n + 1 => \A e \in ends' : e \in ends
  <2>1. CASE pc[p] < n
    <3>1. Prepares(p)
      BY <1>1, <2>1 DEF PipeDoes
    <3>2. CloseEnds(p) \/ OpenFifo(p) \/ OpenedFifo(p)
      BY <3>1 DEF Prepares
    <3> QED  BY <1>1, <1>2, <2>1, <3>2 DEF CloseEnds, OpenFifo, OpenedFifo, Return
  <2>2. CASE pc[p] \in {n, n + 1}
    <3>1. Read(p) \/ Write(p)
      BY <1>1, <1>2, <2>2 DEF PipeDoes
    <3>2. pc' = pc \/ pc' = [pc EXCEPT ![p] = @ + 1]
      BY <3>1 DEF Read, Write, WriteTo, Return
    <3> QED  BY <1>1, <1>2, <2>2, <3>2
  <2>3. CASE pc[p] > n + 1
    <3>1. CloseEnds(p) \/ WaitForChild(p) \/ Exit(p)
      BY <1>1, <2>3 DEF PipeDoes
    <3>2. /\ pc' = pc \/ pc' = [pc EXCEPT ![p] = @ + 1]
          /\ status' = status \/ status' = [status EXCEPT ![p] = "ended"]
          /\ \A e \in ends' : e \in ends
      BY <3>1 DEF CloseEnds, WaitForChild, Exit, Leave, Without, Return, kernel
    <3> QED  BY <1>1, <1>2, <2>3, <3>2
  <2> QED  BY <1>1, <1>2, <2>1, <2>2, <2>3
<1>4. \A q \in Both : /\ LocalEnds(q, n) /\ OpenedLate(q) /\ (status[q] # "running" => pc[q] > n + 1)
                      /\ \A r \in Both : pc[r] >= n => pc[q] >= up
                      /\ pc[q] \in Nat \ {0} /\ pc'[q] \in Nat /\ pc'[q] >= pc[q]
  BY <1>1, <1>3 DEF PipeEnds
<1>5. ASSUME NEW q \in Both, q # p PROVE LocalEnds(q, n)'
  <2>1. \A c, dir : <<q, c, dir, "fd">> \in ends => <<q, c, dir, "fd">> \in ends'
    BY <1>1, <1>5, OthersEnds
  <2> QED  BY <1>1, <1>3, <1>4, <1>5, <2>1 DEF LocalEnds
<1>6. LocalEnds(p, n)'
  <2>1. CASE pc[p] < n /\ program # "a3"
    <3>1. /\ CloseEnds(p)
          /\ <<"down", DownEnd[p]>> \notin Arg(p) /\ <<"up", UpEnd[p]>> \notin Arg(p)
      BY <1>1, <2>1 DEF PipeDoes, Prepares
    <3>2. <<p, "down", DownEnd[p], "fd">> \in ends /\ <<p, "up", UpEnd[p], "fd">> \in ends
      BY <1>1, <1>2, <1>4, <2>1 DEF LocalEnds
    <3>3. <<p, "down", DownEnd[p], "fd">> \in ends' /\ <<p, "up", UpEnd[p], "fd">> \in ends'
      BY <3>1, <3>2 DEF CloseEnds
    <3> QED  BY <3>3 DEF LocalEnds
  <2>2. CASE pc[p] < n /\ program = "a3"
    <3>1. Prepares(p) /\ pc'[p] = pc[p] + 1 /\ LocalEnds(p, n) /\ pc[p] \in {1, 2, 3, 4}
      BY <1>1, <1>2, <1>3, <1>4, <2>2 DEF PipeDoes
    <3>2. /\ pc[p] = 1 => ends' = ends \cup {<<p, "down", DownEnd[p], "fd">>}
          /\ pc[p] = 3 => ends' = ends \cup {<<p, "up", UpEnd[p], "fd">>}
          /\ pc[p] \in {2, 4} => ends' = ends
      BY <2>2, <3>1 DEF Prepares, OpenFifo, OpenedFifo, kernel
    <3>3. \A e \in ends : e \in ends'
      BY <3>1, <3>2
    <3>4. pc[p] >= 2 => <<p, "down", DownEnd[p], "fd">> \in ends
      BY <1>2, <2>2, <3>1 DEF LocalEnds
    <3>5. pc[p] >= 4 => <<p, "up", UpEnd[p], "fd">> \in ends
      BY <1>2, <2>2, <3>1 DEF LocalEnds
    <3>6. <<p, "down", DownEnd[p], "fd">> \in ends'
      BY <3>1, <3>2, <3>3, <3>4
    <3>7. pc[p] >= 3 => <<p, "up", UpEnd[p], "fd">> \in ends'
      BY <3>1, <3>2, <3>3, <3>5
    <3> QED  BY <1>1, <1>2, <2>2, <3>1, <3>6, <3>7 DEF LocalEnds
  <2>3. CASE pc[p] \in {n, n + 1}
    BY <1>1, <1>2, <1>3, <1>4, <2>3 DEF LocalEnds
  <2>4. CASE pc[p] > n + 1
    BY <1>1, <1>2, <1>4, <2>4 DEF LocalEnds
  <2> QED  BY <1>1, <1>2, <2>1, <2>2, <2>3, <2>4
<1>7. ASSUME NEW q \in Both PROVE OpenedLate(q)'
  <2> SUFFICES ASSUME program = "a3", NEW e \in ends', e[2] = "up", e[3] = UpEnd[q] PROVE pc'[q] >= 4
    BY <1>1 DEF OpenedLate
  <2>1. CASE e \in ends
    BY <1>4, <2>1 DEF OpenedLate
  <2>2. CASE e \notin ends
    <3>1. pc[p] < n
      BY <1>1, <1>2, <1>3, <2>2
    <3>2. Prepares(p)
      BY <1>1, <3>1 DEF PipeDoes
    <3>3. pc[p] = 3 /\ e = <<p, "up", UpEnd[p], "fd">>
      BY <2>2, <3>2 DEF Prepares, OpenFifo, OpenedFifo, kernel
    <3>4. p = q
      BY <1>1, <1>7, <3>3 DEF UpEnd, Both
    <3> QED  BY <1>3, <3>1, <3>3, <3>4
  <2> QED  BY <2>1, <2>2
<1>8. ASSUME NEW q \in Both, status'[q] # "running" PROVE pc'[q] > n + 1
  <2>1. CASE status[q] # "running"
    BY <1>1, <1>2, <1>4, <2>1
  <2>2. CASE status[q] = "running"
    <3>1. p = q /\ status' # status
      BY <1>1, <1>3, <1>8, <2>2
    <3>2. pc[p] > n + 1
      BY <1>1, <1>2, <1>3, <3>1
    <3> QED  BY <1>1, <1>2, <1>4, <3>1, <3>2
  <2> QED  BY <2>1, <2>2
<1>9. ASSUME NEW q \in Both, NEW r \in Both, pc'[r] >= n PROVE pc'[q] >= up
  <2>1. CASE pc[r] >= n
    BY <1>2, <1>4, <2>1
  <2>2. CASE pc[r] < n /\ program # "a3"
    BY <1>2, <1>4, <2>2
  <2>3. CASE pc[r] < n /\ program = "a3"
    <3>1. r = p /\ pc[p] = 4 /\ pc'[p] = 5
      BY <1>1, <1>2, <1>3, <1>4, <1>9, <2>3
    <3>2. OpenedFifo(p) /\ Arg(p) = <<"up", UpEnd[p]>>
      BY <1>1, <1>2, <2>3, <3>1 DEF PipeDoes, Prepares
    <3>3. CASE q = p
      BY <1>2, <2>3, <3>1, <3>3
    <3>4. CASE q # p
      <4>1. PICK e \in ends : e[2] = "up" /\ e[3] = (IF UpEnd[p] = "r" THEN "w" ELSE "r")
        BY <3>2 DEF OpenedFifo, Holders
      <4>2. e[3] = UpEnd[q]
        BY <1>1, <1>9, <3>4, <4>1 DEF UpEnd, Both
      <4>3. pc[q] >= 4
        BY <1>4, <2>3, <4>1, <4>2 DEF OpenedLate
      <4> QED  BY <1>2, <1>4, <2>3, <4>3
    <3> QED  BY <3>3, <3>4
  <2> QED  BY <1>2, <1>4, <2>1, <2>2, <2>3
<1> QED  BY <1>1, <1>5, <1>6, <1>7, <1>8, <1>9 DEF PipeEnds

LEMMA PipeAfter ==
  ASSUME IpcTypes, MailInv, PipeInv, NEW p \in Processes, Step(p)
  PROVE  PipeInv'
<1> SUFFICES ASSUME Undisturbed', program' \in Pipes PROVE PipeInv'
  BY DEF PipeInv
<1> DEFINE n == PipeAt[program]
           P == pc["parent"]
           C == pc["child"]
<1>1. /\ UNCHANGED <<run, program>> /\ program \in Pipes /\ p \in Both /\ PipeDoes(p, n) /\ PipeEnds(n) /\ PipeMail(n)
      /\ pc \in [Processes -> Nat \ {0}] /\ Both \subseteq Processes /\ {"down", "up"} \subseteq Channels \cup Paths
      /\ "child" \in Both /\ "parent" \in Both /\ n \in Nat
  <2>1. UNCHANGED <<run, program>> /\ program \in Pipes /\ Undisturbed
    BY CallAt, StillUndisturbed
  <2>2. PipeDoes(p, n) /\ PipeEnds(n) /\ PipeMail(n)
    BY <2>1, PipeSteps DEF PipeInv
  <2>3. n \in Nat
    BY <2>1 DEF Pipes, PipeAt
  <2> QED  BY <2>1, <2>2, <2>3 DEF IpcTypes, Located, Processes, Both, Channels, PipeDoes
<1>2. n' = n
  BY <1>1
<1> HIDE DEF n
<1>3. SUFFICES /\ pc[p] \in {n, n + 1} => UNCHANGED <<ends, status>>
               /\ PipeMail(n)'
  <2>1. ASSUME pc[p] \in {n, n + 1} => UNCHANGED <<ends, status>>, PipeMail(n)' PROVE PipeInv'
    <3>1. PipeEnds(n)'
      <4> DEFINE at == PipeAt[program]
      <4>1. at = n
        BY DEF n
      <4> QED  BY <1>1, <2>1, PipeEndsAfter DEF n
    <3>2. PipeAt[program]' = n
      BY <1>1 DEF n
    <3> QED  BY <1>2, <2>1, <3>1, <3>2 DEF PipeInv
  <2> QED  BY <2>1
<1>4. P \in Nat \ {0} /\ C \in Nat \ {0}
  BY <1>1
<1>5. /\ P <= n => data["down"] = <<>> /\ C <= n
      /\ WrittenBy(data["down"], "parent")
      /\ C <= n + 1 => data["up"] = <<>> /\ P <= n + 1
      /\ C = n + 1 => got["child"] # <<>> /\ Last(got["child"]).from = "parent"
      /\ C > n + 1 /\ P <= n + 1 => data["up"] # <<>>
      /\ Answers(data["up"], "child", "parent")
      /\ P <= n + 1 => got["parent"] = <<>>
      /\ P > n + 1 => Answered("parent")
  BY <1>1 DEF PipeMail
\* The ends that the other one still holds.
<1>6. /\ C <= n + 1 /\ P >= n => Holders("down", "r") # {} /\ Holders("up", "w") # {}
      /\ P <= n + 1 /\ C >= n => Holders("down", "w") # {} /\ Holders("up", "r") # {}
  <2>1. /\ DownFrom[program] <= UpFrom[program] /\ UpFrom[program] \in Nat /\ DownFrom[program] \in Nat
    BY <1>1 DEF Pipes, DownFrom, UpFrom
  <2>2. ASSUME NEW q \in Both, NEW r \in Both, pc[q] <= n + 1, pc[r] >= n
        PROVE  <<q, "down", DownEnd[q], "fd">> \in ends /\ <<q, "up", UpEnd[q], "fd">> \in ends
    <3>1. LocalEnds(q, n) /\ pc[q] >= UpFrom[program] /\ pc[q] \in Nat
      BY <1>1, <2>2 DEF PipeEnds
    <3> QED  BY <2>1, <2>2, <3>1 DEF LocalEnds
  <2>3. DownEnd["parent"] = "w" /\ DownEnd["child"] = "r" /\ UpEnd["parent"] = "r" /\ UpEnd["child"] = "w"
    BY DEF DownEnd, UpEnd
  <2>4. C <= n + 1 /\ P >= n => <<"child", "down", "r", "fd">> \in ends /\ <<"child", "up", "w", "fd">> \in ends
    BY <1>1, <2>2, <2>3
  <2>5. P <= n + 1 /\ C >= n => <<"parent", "down", "w", "fd">> \in ends /\ <<"parent", "up", "r", "fd">> \in ends
    BY <1>1, <2>2, <2>3
  <2> QED  BY <2>4, <2>5 DEF Holders
<1>7. CASE pc[p] < n \/ pc[p] > n + 1
  <2>1. /\ UNCHANGED <<got, data>>
        /\ \/ pc' = pc
           \/ pc' = [pc EXCEPT ![p] = @ + 1]
    <3>1. CloseEnds(p) \/ OpenFifo(p) \/ OpenedFifo(p) \/ WaitForChild(p) \/ Exit(p)
      BY <1>1, <1>7 DEF PipeDoes, Prepares
    <3> QED  BY <3>1 DEF CloseEnds, OpenFifo, OpenedFifo, WaitForChild, Exit, Return, kernel
  <2>2. /\ \A q \in Both : pc'[q] <= n <=> pc[q] <= n
        /\ \A q \in Both : pc'[q] <= n + 1 <=> pc[q] <= n + 1
        /\ \A q \in Both : pc'[q] \in Nat
    BY <1>1, <1>7, <2>1
  <2>3. C' = n + 1 => C = n + 1
    BY <1>1, <1>4, <1>7, <2>1
  <2>4. P' > n + 1 => P > n + 1
    BY <1>1, <1>4, <2>2
  <2>5. C' > n + 1 => C > n + 1
    BY <1>1, <1>4, <2>2
  <2>6. P > n + 1 => Answered("parent")'
    BY <1>1, <1>5, <2>1 DEF Answered, AnswerTo
  <2>7. PipeMail(n)'
    BY <1>1, <1>2, <1>5, <2>1, <2>2, <2>3, <2>4, <2>5, <2>6 DEF PipeMail
  <2>8. ~(pc[p] \in {n, n + 1})
    BY <1>1, <1>7
  <2> QED  BY <2>7, <2>8
<1>8. CASE p = "parent" /\ pc[p] = n
  <2>1. Write(p) /\ Arg(p) = "down"
    BY <1>1, <1>8 DEF PipeDoes
  <2>2. Holders("down", "r") # {} /\ C <= n
    BY <1>1, <1>4, <1>5, <1>6, <1>8
  <2>3. /\ UNCHANGED <<ends, status, got>> /\ P' = n + 1 /\ C' = C
        /\ data' = [data EXCEPT !["down"] = Append(@, Message(p))]
    BY <1>1, <1>8, <2>1, <2>2 DEF Write, WriteTo, Return
  <2>4. WrittenBy(data'["down"], "parent") /\ data'["up"] = data["up"]
    <3>1. data'["down"] = Append(data["down"], Message(p)) /\ data["down"] \in Seq(Messages) /\ data'["up"] = data["up"]
      BY <1>1, <2>3, Written
    <3>2. Message(p).from = "parent"
      BY <1>8, MessageSays
    <3> QED  BY <1>5, <3>1, <3>2, WritingStays
  <2>5. ~(P' <= n) /\ P' <= n + 1 /\ C' <= n + 1 /\ P <= n + 1 /\ C # n + 1
    BY <1>1, <1>4, <1>8, <2>2, <2>3
  <2>6. PipeMail(n)'
    BY <1>1, <1>2, <1>4, <1>5, <2>2, <2>3, <2>4, <2>5 DEF PipeMail
  <2> QED  BY <2>3, <2>6
<1>9. CASE p = "child" /\ pc[p] = n
  <2>1. Read(p) /\ Arg(p) = "down"
    BY <1>1, <1>9 DEF PipeDoes
  <2>2. P <= n + 1 /\ Holders("down", "w") # {} /\ data["up"] = <<>> /\ got["parent"] = <<>>
    BY <1>1, <1>4, <1>5, <1>6, <1>9
  <2>3. /\ UNCHANGED <<ends, status>> /\ C' = n + 1 /\ P' = P /\ data["down"] # <<>>
        /\ Receive(p, Head(data["down"])) /\ data' = [data EXCEPT !["down"] = Tail(@)]
    BY <1>1, <1>9, <2>1, <2>2 DEF Read, ReadFrom, Return
  <2>4. /\ WrittenBy(data'["down"], "parent") /\ data'["up"] = data["up"] /\ Head(data["down"]).from = "parent"
    <3>1. /\ data'["down"] = Tail(data["down"]) /\ data["down"] \in Seq(Messages) /\ data'["up"] = data["up"]
      BY <1>1, <2>3, ReadFirst
    <3> QED  BY <1>5, <2>3, <3>1, WritingStays
  <2>5. got'["parent"] = <<>> /\ got'["child"] # <<>> /\ Last(got'["child"]).from = "parent"
    BY <1>1, <1>9, <2>2, <2>3, <2>4, Received
  <2>6. ~(P' <= n) /\ ~(P' > n + 1) /\ ~(C' > n + 1)
    BY <1>1, <1>4, <1>5, <1>9, <2>2, <2>3
  <2>7. PipeMail(n)'
    BY <1>1, <1>2, <1>4, <1>5, <2>2, <2>3, <2>4, <2>5, <2>6 DEF PipeMail
  <2> QED  BY <2>3, <2>7
<1>10. CASE p = "parent" /\ pc[p] = n + 1
  <2>1. Read(p) /\ Arg(p) = "up"
    BY <1>1, <1>10 DEF PipeDoes
  <2>2. data["up"] # <<>> \/ Holders("up", "w") = {}
    BY <2>1 DEF Read, ReadFrom
  <2>3. data["up"] # <<>>
    BY <1>1, <1>4, <1>5, <1>6, <1>10, <2>2
  <2>4. /\ UNCHANGED <<ends, status>> /\ P' = n + 2 /\ C' = C
        /\ Receive(p, Head(data["up"])) /\ data' = [data EXCEPT !["up"] = Tail(@)]
    BY <1>1, <1>10, <2>1, <2>3 DEF Read, ReadFrom, Return
  <2>5. C > n + 1 /\ got["parent"] = <<>>
    BY <1>1, <1>4, <1>5, <1>10, <2>3
  <2>6. /\ Answers(data'["up"], "child", "parent") /\ data'["down"] = data["down"]
        /\ Head(data["up"]).from = "child" /\ Head(data["up"]).re = "parent" /\ Head(data["up"]).run = run
    <3>1. /\ data'["up"] = Tail(data["up"]) /\ data["up"] \in Seq(Messages) /\ data'["down"] = data["down"]
          /\ Head(data["up"]).run = run
      BY <1>1, <2>3, <2>4, ReadFirst
    <3> QED  BY <1>5, <2>3, <3>1, AnswersStay
  <2>7. Len(got'["parent"]) = 1 /\ got'["parent"][1] = Head(data["up"])
    BY <1>1, <1>10, <2>4, <2>5, Received
  <2>8. Answered("parent")'
    BY <1>1, <2>6, <2>7 DEF Answered, AnswerTo
  <2>9. ~(P' <= n) /\ ~(P' <= n + 1) /\ ~(C' <= n + 1) /\ C' # n + 1
    BY <1>1, <1>4, <2>4, <2>5
  <2>10. PipeMail(n)'
    BY <1>1, <1>2, <1>5, <2>4, <2>6, <2>8, <2>9 DEF PipeMail
  <2> QED  BY <2>4, <2>10
<1>11. CASE p = "child" /\ pc[p] = n + 1
  <2>1. Write(p) /\ Arg(p) = "up"
    BY <1>1, <1>11 DEF PipeDoes
  <2>2. P <= n + 1 /\ Holders("up", "r") # {} /\ got["parent"] = <<>> /\ P > n
    BY <1>1, <1>4, <1>5, <1>6, <1>11
  <2>3. /\ UNCHANGED <<ends, status, got>> /\ C' = n + 2 /\ P' = P
        /\ data' = [data EXCEPT !["up"] = Append(@, Message(p))]
    BY <1>1, <1>11, <2>1, <2>2 DEF Write, WriteTo, Return
  <2>4. Answers(data'["up"], "child", "parent") /\ data'["down"] = data["down"] /\ data'["up"] # <<>>
    <3>1. /\ data'["up"] = Append(data["up"], Message(p)) /\ data["up"] \in Seq(Messages)
          /\ data'["down"] = data["down"] /\ data'["up"] # <<>>
      BY <1>1, <2>3, Written
    <3>2. Message(p).from = "child" /\ Message(p).re = "parent"
      BY <1>5, <1>11, MessageSays
    <3> QED  BY <1>5, <3>1, <3>2, AnswersStay
  <2>5. ~(P' <= n) /\ ~(C' <= n + 1) /\ C' # n + 1 /\ ~(P' > n + 1)
    BY <1>1, <1>4, <2>2, <2>3
  <2>6. PipeMail(n)'
    BY <1>1, <1>2, <1>5, <2>2, <2>3, <2>4, <2>5 DEF PipeMail
  <2> QED  BY <2>3, <2>6
<1>12. pc[p] < n \/ pc[p] > n + 1 \/ pc[p] = n \/ pc[p] = n + 1
  BY <1>1
<1> QED  BY <1>1, <1>7, <1>8, <1>9, <1>10, <1>11, <1>12 DEF Both

-----------------------------------------------------------------------------
\* task_c2: the client whom the server has accepted waits for the answer, and finds it.
ClientAt(k) ==
  /\ WrittenBy(data[Up[k]], k)
  /\ pc[k] <= 2 => data[Up[k]] = <<>>
  /\ pc[k] <= 3 => got[k] = <<>>
  /\ status[k] = "running" /\ pc[k] \in {2, 3} => <<k, Up[k], "w", "fd">> \in ends
AnswerComes(k) ==
  /\ pc[k] >= 3
  /\ pc[k] = 3 => data[Down[k]] # <<>> /\ Answers(data[Down[k]], "server", k) /\ status[k] = "running"
  /\ pc[k] > 3 => Answered(k)
SocketInv ==
  Undisturbed /\ program = "c2" =>
    /\ \A k \in Clients : ClientAt(k)
    /\ pc["server"] <= 4 => peer = Nobody
    /\ pc["server"] = 6 => got["server"] # <<>> /\ Last(got["server"]).from = peer /\ pc[peer] = 3
    /\ pc["server"] > 6 => AnswerComes(peer)

LEMMA SocketCalls ==
  ASSUME program = "c2"
  PROVE  /\ DOMAIN Programs[program] = {"server"} \cup Clients /\ Len(Script("server")) = 9
         /\ Script("server")[1][1] = "unlink" /\ Script("server")[2][1] = "bind"
         /\ Script("server")[3][1] = "listen" /\ Script("server")[4][1] = "accept"
         /\ Script("server")[5][1] = "readPeer" /\ Script("server")[6][1] = "writePeer"
         /\ Script("server")[7][1] = "closePeer" /\ Script("server")[8][1] = "closeListener"
         /\ Script("server")[9][1] = "unlink"
         /\ \A k \in Clients : /\ Len(Script(k)) = 4 /\ Script(k)[1][1] = "connect"
                               /\ Script(k)[2] = <<"write", Up[k]>> /\ Script(k)[3] = <<"read", Down[k]>>
                               /\ Script(k)[4][1] = "close"
<1>1. Programs[program] = StreamSockets
  BY ProgramsAre
<1>2. \A k \in Clients : StreamSockets[k][4][1] = "close"
  BY DEF Clients, StreamSockets, StreamClient
<1>3. DOMAIN StreamSockets = {"server"} \cup Clients
  BY DEF StreamSockets, Clients
<1>4. \A k \in Clients : /\ Len(Script(k)) = 4 /\ Script(k)[1][1] = "connect"
                         /\ Script(k)[2] = <<"write", Up[k]>> /\ Script(k)[3] = <<"read", Down[k]>>
                         /\ Script(k)[4][1] = "close"
  BY <1>1, <1>2, StreamClientCalls DEF Script
<1>5. /\ Len(Script("server")) = 9
      /\ Script("server")[1][1] = "unlink" /\ Script("server")[2][1] = "bind"
      /\ Script("server")[3][1] = "listen" /\ Script("server")[4][1] = "accept"
      /\ Script("server")[5][1] = "readPeer" /\ Script("server")[6][1] = "writePeer"
      /\ Script("server")[7][1] = "closePeer" /\ Script("server")[8][1] = "closeListener"
      /\ Script("server")[9][1] = "unlink"
  BY <1>1, StreamCalls DEF Script
<1> QED  BY <1>1, <1>3, <1>4, <1>5

LEMMA SocketSteps ==
  ASSUME IpcTypes, program = "c2", NEW p \in Processes, Step(p)
  PROVE  /\ p \in {"server"} \cup Clients
         /\ p \in Clients =>
              /\ pc[p] = 1 => Connect(p)
              /\ pc[p] = 2 => Write(p) /\ Arg(p) = Up[p]
              /\ pc[p] = 3 => Read(p) /\ Arg(p) = Down[p]
              /\ pc[p] > 3 => CloseEnds(p) \/ Exit(p)
         /\ p = "server" =>
              /\ pc[p] <= 3 => Unlink(p) \/ Bind(p) \/ Listen(p)
              /\ pc[p] = 4 => Accept(p)
              /\ pc[p] = 5 => ReadPeer(p)
              /\ pc[p] = 6 => WritePeer(p)
              /\ pc[p] > 6 => ClosePeer(p) \/ CloseListener(p) \/ Unlink(p) \/ Exit(p)
<1>1. p \in {"server"} \cup Clients /\ pc[p] \in Nat \ {0}
  BY CallAt, SocketCalls
<1>2. ASSUME NEW i, pc[p] = i, i <= Len(Script(p)), NEW op, Script(p)[i][1] = op PROVE Performs(p, op)
  <2>1. Len(Script(p)) \in Nat
    BY CallAt
  <2>2. ~(pc[p] > Len(Script(p)))
    BY <1>1, <1>2, <2>1
  <2> QED  BY <1>2, <2>2, StepPerforms
<1>3. CASE p \in Clients
  <2>1. Len(Script(p)) = 4 /\ Script(p)[1][1] = "connect" /\ Script(p)[4][1] = "close"
    BY <1>3, SocketCalls
  <2>2. Script(p)[2] = <<"write", Up[p]>> /\ Script(p)[3] = <<"read", Down[p]>>
    BY <1>3, SocketCalls
  <2>3. pc[p] = 1 => Connect(p)
    BY <1>2, <2>1 DEF Performs
  <2>4. pc[p] = 2 => Write(p) /\ Arg(p) = Up[p]
    <3>1. 2 <= Len(Script(p)) /\ Script(p)[2] = <<"write", Up[p]>>
      BY <2>1, <2>2
    <3> QED  BY <3>1, CallAt DEF Performs
  <2>5. pc[p] = 3 => Read(p) /\ Arg(p) = Down[p]
    BY <2>1, <2>2, CallAt DEF Performs
  <2>6. pc[p] = 4 => CloseEnds(p)
    BY <1>2, <2>1 DEF Performs
  <2>7. pc[p] > 4 => Exit(p)
    BY <2>1, CallAt
  <2>8. p # "server"
    BY <1>3 DEF Clients
  <2> QED  BY <1>1, <1>3, <2>3, <2>4, <2>5, <2>6, <2>7, <2>8
<1>4. CASE p = "server"
  <2>1. /\ Len(Script(p)) = 9 /\ Script(p)[1][1] = "unlink" /\ Script(p)[2][1] = "bind"
        /\ Script(p)[3][1] = "listen" /\ Script(p)[4][1] = "accept"
    BY <1>4, SocketCalls
  <2>2. /\ Script(p)[5][1] = "readPeer" /\ Script(p)[6][1] = "writePeer" /\ Script(p)[7][1] = "closePeer"
        /\ Script(p)[8][1] = "closeListener" /\ Script(p)[9][1] = "unlink"
    BY <1>4, SocketCalls
  <2>3. /\ pc[p] = 1 => Unlink(p)
        /\ pc[p] = 2 => Bind(p)
        /\ pc[p] = 3 => Listen(p)
        /\ pc[p] = 4 => Accept(p)
    BY <1>2, <2>1 DEF Performs
  <2>4. /\ pc[p] = 5 => ReadPeer(p)
        /\ pc[p] = 6 => WritePeer(p)
        /\ pc[p] = 7 => ClosePeer(p)
        /\ pc[p] = 8 => CloseListener(p)
        /\ pc[p] = 9 => Unlink(p)
    BY <1>2, <2>1, <2>2 DEF Performs
  <2>5. pc[p] > 9 => Exit(p)
    BY <2>1, CallAt
  <2>6. p \notin Clients
    BY <1>4 DEF Clients
  <2> QED  BY <1>1, <1>4, <2>3, <2>4, <2>5, <2>6
<1> QED  BY <1>1, <1>3, <1>4

\* What belongs to a client that does not move.
LEMMA ClientStays ==
  ASSUME NEW k \in Clients, ClientAt(k), NEW p \in Processes, Step(p), k # p,
         pc'[k] = pc[k], status'[k] = status[k], got'[k] = got[k],
         WrittenBy(data'[Up[k]], k), data[Up[k]] = <<>> => data'[Up[k]] = <<>>
  PROVE  ClientAt(k)'
<1>1. <<k, Up[k], "w", "fd">> \in ends => <<k, Up[k], "w", "fd">> \in ends'
  <2>1. k # "backlog"
    BY DEF Clients
  <2> QED  BY <2>1, OthersEnds
<1> QED  BY <1>1 DEF ClientAt

LEMMA SocketAfter ==
  ASSUME IpcTypes, StreamInv, BindInv, MailInv, SocketInv, NEW p \in Processes, Step(p)
  PROVE  SocketInv'
<1> SUFFICES ASSUME Undisturbed', program' = "c2" PROVE SocketInv'
  BY DEF SocketInv
<1> DEFINE S == pc["server"]
<1>1. /\ UNCHANGED <<run, program>> /\ program = "c2" /\ ~killed /\ p \in {"server"} \cup Clients /\ status[p] = "running"
      /\ pc \in [Processes -> Nat \ {0}] /\ "server" \in Processes /\ Clients \subseteq Processes
      /\ status \in [Processes -> {"running", "ended", "killed", "failed", "off"}]
      /\ data \in [Channels \cup Paths -> Seq(Messages)] /\ "server" \notin Clients /\ Nobody \notin Clients
      /\ got \in [Processes -> Seq(Messages)]
      /\ peer \in Clients \cup {Nobody} /\ (S > 4 => peer \in Clients)
  <2>1. UNCHANGED <<run, program>> /\ program = "c2" /\ ~killed /\ status[p] = "running"
    BY CallAt, StillUndisturbed DEF Undisturbed
  <2>2. p \in {"server"} \cup Clients
    BY <2>1, SocketSteps
  <2> QED  BY <2>1, <2>2 DEF IpcTypes, Located, MailTypes, PeerKnown, Processes, Clients, Nobody
<1>2. /\ \A k \in Clients : ClientAt(k)
      /\ S <= 4 => peer = Nobody
      /\ S = 6 => got["server"] # <<>> /\ Last(got["server"]).from = peer /\ pc[peer] = 3
      /\ S > 6 => AnswerComes(peer)
  BY <1>1, StillUndisturbed DEF SocketInv
<1>3. /\ S <= 6 => NothingDown
      /\ S \in {5, 6} => Served(peer)
      /\ pc'["server"] \in {5, 6} => Served(peer)'
  BY <1>1, ServedAfter DEF StreamInv
<1>4. /\ \A k \in Clients : /\ Up[k] \in Channels \cup Paths /\ Down[k] \in Channels \cup Paths
                            /\ Down[k] \in {"down", "down2"}
      /\ \A k, l \in Clients : Up[k] # Down[l] /\ (k # l => Up[k] # Up[l] /\ Down[k] # Down[l])
  BY DEF Up, Down, Clients, Channels
<1>5. S \in Nat \ {0} /\ \A k \in Clients : pc[k] \in Nat \ {0}
  BY <1>1
<1>6. SUFFICES /\ \A k \in Clients : ClientAt(k)'
               /\ S' <= 4 => peer' = Nobody
               /\ S' = 6 => got'["server"] # <<>> /\ Last(got'["server"]).from = peer' /\ pc'[peer'] = 3
               /\ S' > 6 => AnswerComes(peer)'
  BY DEF SocketInv
<1>7. CASE p \in Clients
  <2>1. S' = S /\ peer' = peer /\ \A k \in Clients \ {p} : pc'[k] = pc[k] /\ status'[k] = status[k]
    <3>1. peer' = peer
      BY <1>1, <1>7, PeerStays
    <3> QED  BY <1>1, <1>7, <3>1, PlaceAfter
  <2>2. CASE pc[p] = 1
    <3>1. Connect(p)
      BY <1>1, <1>7, <2>2, SocketSteps
    <3>2. /\ UNCHANGED <<got, data>>
          /\ \/ pc'[p] = 2 /\ <<p, Up[p], "w", "fd">> \in ends'
             \/ status'[p] = "ended" /\ pc' = pc
      BY <1>1, <1>7, <2>2, <3>1 DEF Connect, Leave, Return
    <3>3. ClientAt(p)'
      BY <1>1, <1>2, <1>7, <2>2, <3>2 DEF ClientAt
    <3>4. \A k \in Clients \ {p} : ClientAt(k)'
      BY <1>1, <1>2, <1>7, <2>1, <3>2, ClientStays DEF ClientAt
    <3>5. peer # p \/ ~(S > 5)
      BY <1>2, <1>5, <2>2 DEF AnswerComes
    <3>6. S' > 6 => AnswerComes(peer)'
      BY <1>1, <1>2, <2>1, <3>2, <3>5 DEF AnswerComes, Answered, AnswerTo
    <3>7. S = 6 => pc'[peer] = 3
      BY <1>1, <1>2, <2>1, <3>5
    <3> QED  BY <1>2, <2>1, <3>2, <3>3, <3>4, <3>6, <3>7
  <2>3. CASE pc[p] = 2
    <3>1. Write(p) /\ Arg(p) = Up[p]
      BY <1>1, <1>7, <2>3, SocketSteps
    <3>2. /\ UNCHANGED got
          /\ \/ data' = [data EXCEPT ![Up[p]] = Append(@, Message(p))] /\ pc'[p] = 3 /\ UNCHANGED ends
             \/ data' = data /\ status'[p] = "killed" /\ pc' = pc
      BY <1>1, <1>7, <2>3, <3>1 DEF Write, WriteTo, Leave, Return
    <3>3. data' = data \/ /\ data'[Up[p]] = Append(data[Up[p]], Message(p)) /\ data[Up[p]] \in Seq(Messages)
                          /\ \A d \in (Channels \cup Paths) \ {Up[p]} : data'[d] = data[d]
      BY <1>4, <1>7, <3>2, Written
    <3>4. WrittenBy(data'[Up[p]], p)
      <4>1. Message(p).from = p
        BY MessageSays
      <4>2. WrittenBy(data[Up[p]], p)
        BY <1>2, <1>7 DEF ClientAt
      <4>3. CASE data' = data
        BY <4>2, <4>3
      <4>4. CASE data'[Up[p]] = Append(data[Up[p]], Message(p)) /\ data[Up[p]] \in Seq(Messages)
        BY <4>1, <4>2, <4>4, WritingStays
      <4> QED  BY <3>3, <4>3, <4>4
    <3>5. ClientAt(p)'
      BY <1>1, <1>2, <1>7, <2>3, <3>2, <3>4 DEF ClientAt
    <3>6. \A k \in Clients \ {p} : data'[Up[k]] = data[Up[k]] /\ data'[Down[k]] = data[Down[k]]
      BY <1>4, <1>7, <3>3
    <3>7. \A k \in Clients \ {p} : ClientAt(k)'
      BY <1>1, <1>2, <1>7, <2>1, <3>2, <3>6, ClientStays DEF ClientAt
    <3>8. peer # p \/ ~(S > 5)
      BY <1>2, <1>5, <2>3 DEF AnswerComes
    <3>9. S' > 6 => AnswerComes(peer)'
      <4>1. S > 6 => peer \in Clients \ {p}
        BY <1>1, <1>5, <3>8
      <4>2. S > 6 => /\ pc'[peer] = pc[peer] /\ status'[peer] = status[peer] /\ peer' = peer
                     /\ data'[Down[peer]] = data[Down[peer]]
        BY <2>1, <3>6, <4>1
      <4> QED  BY <1>1, <1>2, <2>1, <3>2, <4>2 DEF AnswerComes, Answered, AnswerTo
    <3>10. S = 6 => pc'[peer] = 3
      BY <1>1, <1>2, <2>1, <3>8
    <3> QED  BY <1>2, <2>1, <3>2, <3>5, <3>7, <3>9, <3>10
  <2>4. CASE pc[p] = 3
    <3>1. Read(p) /\ Arg(p) = Down[p]
      BY <1>1, <1>7, <2>4, SocketSteps
    <3>2. UNCHANGED <<status, ends>> /\ pc'[p] = 4 /\ (data[Down[p]] # <<>> \/ Holders(Down[p], "w") = {})
      BY <1>1, <1>7, <2>4, <3>1 DEF Read, ReadFrom, Return
    <3>3. CASE data[Down[p]] = <<>>
      <4>1. UNCHANGED <<got, data>>
        BY <3>1, <3>3 DEF Read, ReadFrom
      <4>2. ClientAt(p)'
        <5>1. WrittenBy(data[Up[p]], p)
          <6>1. ClientAt(p)
            BY <1>2, <1>7
          <6> QED  BY <6>1 DEF ClientAt
        <5>2. WrittenBy(data'[Up[p]], p)
          BY <1>7, <5>1, <4>1
        <5>3. ~(pc'[p] <= 3) /\ ~(pc'[p] <= 2) /\ ~(pc'[p] \in {2, 3})
          BY <3>2
        <5> QED  BY <5>2, <5>3 DEF ClientAt
      <4>3. \A k \in Clients \ {p} : ClientAt(k)'
        BY <1>1, <1>2, <1>7, <2>1, <4>1, ClientStays DEF ClientAt
      <4>4. p = peer => ~(S \in {5, 6}) /\ ~(S > 6)
        <5>1. p = peer /\ S \in {5, 6} => Holders(Down[p], "w") # {}
          BY <1>3, <1>7 DEF Served, ServerEnds, Holders
        <5>2. p = peer /\ S > 6 => data[Down[p]] # <<>>
          BY <1>2, <2>4 DEF AnswerComes
        <5> QED  BY <3>2, <3>3, <5>1, <5>2
      <4>5. S' > 6 => AnswerComes(peer)'
        BY <1>1, <1>2, <2>1, <4>1, <4>4 DEF AnswerComes, Answered, AnswerTo
      <4>6. S = 6 => pc'[peer] = 3
        BY <1>1, <1>2, <2>1, <4>4
      <4> QED  BY <1>2, <2>1, <4>1, <4>2, <4>3, <4>5, <4>6
    <3>4. CASE data[Down[p]] # <<>>
      <4>1. Receive(p, Head(data[Down[p]])) /\ data' = [data EXCEPT ![Down[p]] = Tail(@)]
        BY <3>1, <3>4 DEF Read, ReadFrom
      <4>2. /\ data[Down[p]] \in Seq(Messages) /\ Head(data[Down[p]]).run = run
            /\ \A d \in (Channels \cup Paths) \ {Down[p]} : data'[d] = data[d]
        BY <1>4, <1>7, <3>4, <4>1, ReadFirst
      <4>3. /\ \A k \in Clients : data'[Up[k]] = data[Up[k]]
            /\ \A k \in Clients \ {p} : data'[Down[k]] = data[Down[k]]
        BY <1>4, <1>7, <4>2
      <4>4. /\ \A q \in Processes \ {p} : got'[q] = got[q]
            /\ Len(got'[p]) = 1 /\ got'[p][1] = Head(data[Down[p]])
        <5>1. got[p] = <<>>
          <6>1. ClientAt(p)
            BY <1>2, <1>7
          <6> QED  BY <2>4, <6>1 DEF ClientAt
        <5> QED  BY <4>1, <5>1, Received
      <4>5. ClientAt(p)'
        <5>1. WrittenBy(data[Up[p]], p)
          <6>1. ClientAt(p)
            BY <1>2, <1>7
          <6> QED  BY <6>1 DEF ClientAt
        <5>2. WrittenBy(data'[Up[p]], p)
          BY <1>7, <5>1, <4>3
        <5>3. ~(pc'[p] <= 3) /\ ~(pc'[p] <= 2) /\ ~(pc'[p] \in {2, 3})
          BY <3>2
        <5> QED  BY <5>2, <5>3 DEF ClientAt
      <4>6. \A k \in Clients \ {p} : ClientAt(k)'
        BY <1>1, <1>2, <1>7, <2>1, <4>3, <4>4, ClientStays DEF ClientAt
      <4>7. S > 6
        <5>1. ~(S <= 6)
          BY <1>3, <1>4, <1>7, <3>4 DEF NothingDown
        <5> QED  BY <1>5, <5>1
      <4>8. ASSUME peer # p PROVE AnswerComes(peer)'
        BY <1>1, <1>2, <2>1, <4>3, <4>4, <4>7, <4>8 DEF AnswerComes, Answered, AnswerTo
      <4>9. ASSUME peer = p PROVE AnswerComes(peer)'
        <5>1. Head(data[Down[p]]).from = "server" /\ Head(data[Down[p]]).re = p
          <6>1. Answers(data[Down[p]], "server", p)
            BY <1>2, <2>4, <4>7, <4>9 DEF AnswerComes
          <6> QED  BY <3>4, <4>2, <6>1, AnswersStay
        <5>2. Answered(p)'
          BY <1>1, <4>2, <4>4, <5>1 DEF Answered, AnswerTo
        <5> QED  BY <2>1, <3>2, <4>9, <5>2 DEF AnswerComes, Answered, AnswerTo
      <4> QED  BY <1>5, <2>1, <4>5, <4>6, <4>7, <4>8, <4>9
    <3> QED  BY <3>3, <3>4
  <2>5. CASE pc[p] > 3
    <3>1. CloseEnds(p) \/ Exit(p)
      BY <1>1, <1>7, <2>5, SocketSteps
    <3>2. /\ UNCHANGED <<got, data>> /\ pc'[p] > 3 /\ pc'[p] \in Nat
      BY <1>1, <1>7, <2>5, <3>1 DEF CloseEnds, Exit, Leave, Return
    <3>3. ClientAt(p)'
      BY <1>2, <1>7, <2>5, <3>2 DEF ClientAt
    <3>4. \A k \in Clients \ {p} : ClientAt(k)'
      BY <1>1, <1>2, <1>7, <2>1, <3>2, ClientStays DEF ClientAt
    <3>5. S' > 6 => AnswerComes(peer)'
      <4>1. CASE peer = p
        BY <1>1, <1>2, <1>5, <1>7, <2>1, <2>5, <3>2, <4>1 DEF AnswerComes, Answered, AnswerTo
      <4>2. CASE peer # p
        BY <1>1, <1>2, <1>5, <2>1, <3>2, <4>2 DEF AnswerComes, Answered, AnswerTo
      <4> QED  BY <4>1, <4>2
    <3>6. S = 6 => pc'[peer] = 3
      BY <1>1, <1>2, <1>7, <2>1, <2>5
    <3> QED  BY <1>2, <2>1, <3>2, <3>3, <3>4, <3>5, <3>6
  <2> QED  BY <1>5, <1>7, <2>2, <2>3, <2>4, <2>5
<1>8. CASE p = "server"
  <2>1. \A k \in Clients : pc'[k] = pc[k] /\ status'[k] = status[k] /\ k # p
    BY <1>1, <1>8, PlaceAfter
  <2>2. CASE S <= 3 \/ S > 6
    <3>1. Unlink(p) \/ Bind(p) \/ Listen(p) \/ ClosePeer(p) \/ CloseListener(p) \/ Exit(p)
      BY <1>1, <1>8, <2>2, SocketSteps
    <3>2. UNCHANGED <<got, data, peer>>
      BY <3>1 DEF Unlink, Bind, Listen, ClosePeer, CloseListener, Exit
    <3>3. \A k \in Clients : ClientAt(k)'
      BY <1>2, <1>8, <2>1, <3>2, ClientStays DEF ClientAt
    <3>4. S' \in Nat /\ (S <= 3 => S' <= 4) /\ (S > 6 => S' > 6)
      BY <1>1, <1>5, ServerPlace
    <3>5. S > 6 => AnswerComes(peer)'
      BY <1>1, <1>2, <1>5, <2>1, <3>2 DEF AnswerComes, Answered, AnswerTo
    <3> QED  BY <1>2, <1>5, <2>2, <3>2, <3>3, <3>4, <3>5
  <2>3. CASE S = 4
    <3>1. Accept(p)
      BY <1>1, <1>8, <2>3, SocketSteps
    <3>2. UNCHANGED <<got, data>> /\ S' = 5
      BY <1>1, <1>8, <2>3, <3>1 DEF Accept, Return
    <3>3. \A k \in Clients : ClientAt(k)'
      BY <1>2, <1>8, <2>1, <3>2, ClientStays DEF ClientAt
    <3> QED  BY <3>2, <3>3
  <2>4. CASE S = 5
    <3>1. ReadPeer(p)
      BY <1>1, <1>8, <2>4, SocketSteps
    <3>2. Served(peer) /\ peer \in Clients
      BY <1>1, <1>3, <2>4
    <3>3. Holders(Up[peer], "w") # {}
      <4>1. <<peer, Up[peer], "w", "fd">> \in ends
        BY <1>2, <3>2 DEF Served, Waiting, ClientAt
      <4> QED  BY <4>1 DEF Holders
    <3>4. /\ UNCHANGED <<status, ends, peer>> /\ S' = 6 /\ data[Up[peer]] # <<>>
          /\ Receive(p, Head(data[Up[peer]])) /\ data' = [data EXCEPT ![Up[peer]] = Tail(@)]
      BY <1>1, <1>8, <2>4, <3>1, <3>3 DEF ReadPeer, ReadFrom, Return
    <3>5. /\ data[Up[peer]] \in Seq(Messages) /\ data'[Up[peer]] = Tail(data[Up[peer]])
          /\ \A d \in (Channels \cup Paths) \ {Up[peer]} : data'[d] = data[d]
      BY <1>4, <3>2, <3>4, ReadFirst
    <3>6. WrittenBy(data'[Up[peer]], peer) /\ Head(data[Up[peer]]).from = peer
      <4>1. WrittenBy(data[Up[peer]], peer)
        BY <1>2, <3>2 DEF ClientAt
      <4> QED  BY <3>4, <3>5, <4>1, WritingStays
    <3>7. /\ \A q \in Processes \ {p} : got'[q] = got[q]
          /\ got'["server"] # <<>> /\ Last(got'["server"]).from = peer
      BY <1>8, <3>4, <3>6, Received
    <3>8. \A k \in Clients \ {peer} : data'[Up[k]] = data[Up[k]]
      BY <1>4, <3>2, <3>5
    <3>9. pc[peer] = 3
      <4>1. pc[peer] \in {2, 3} /\ ~(pc[peer] <= 2)
        BY <1>2, <3>2, <3>4 DEF Served, Waiting, ClientAt
      <4> QED  BY <4>1
    <3>10. \A k \in Clients \ {peer} : ClientAt(k)'
      BY <1>1, <1>2, <1>8, <2>1, <3>7, <3>8, ClientStays DEF ClientAt
    <3>11. ClientAt(peer)'
      BY <1>1, <1>2, <1>8, <2>1, <3>2, <3>4, <3>6, <3>7, ClientStays
    <3> QED  BY <2>1, <3>2, <3>4, <3>7, <3>9, <3>10, <3>11
  <2>5. CASE S = 6
    <3>1. WritePeer(p)
      BY <1>1, <1>8, <2>5, SocketSteps
    <3>2. Served(peer) /\ peer \in Clients /\ Holders(Down[peer], "r") # {}
      BY <1>1, <1>3, <2>5 DEF Served, Waiting, Holders
    <3>3. /\ UNCHANGED <<status, ends, peer, got>> /\ S' = 7
          /\ data' = [data EXCEPT ![Down[peer]] = Append(@, Message(p))]
      BY <1>1, <1>8, <2>5, <3>1, <3>2 DEF WritePeer, WriteTo, Return
    <3>4. /\ data'[Down[peer]] = Append(data[Down[peer]], Message(p)) /\ data[Down[peer]] \in Seq(Messages)
          /\ data'[Down[peer]] # <<>> /\ \A k \in Clients : data'[Up[k]] = data[Up[k]]
      <4>1. Down[peer] \in Channels \cup Paths /\ \A k \in Clients : Up[k] \in (Channels \cup Paths) \ {Down[peer]}
        BY <1>4, <3>2
      <4> QED  BY <3>3, <4>1, Written
    <3>5. Answers(data'[Down[peer]], "server", peer)
      <4>1. data[Down[peer]] = <<>>
        BY <1>3, <1>4, <2>5, <3>2 DEF NothingDown
      <4>2. Message(p).from = "server" /\ Message(p).re = peer
        BY <1>2, <1>8, <2>5, MessageSays
      <4>3. Answers(data[Down[peer]], "server", peer)
        BY <4>1 DEF Answers
      <4> QED  BY <3>4, <4>2, <4>3, AnswersStay
    <3>6. AnswerComes(peer)'
      BY <1>2, <2>1, <2>5, <3>2, <3>3, <3>4, <3>5 DEF AnswerComes, Served, Waiting
    <3>7. \A k \in Clients : ClientAt(k)'
      BY <1>2, <1>8, <2>1, <3>3, <3>4, ClientStays DEF ClientAt
    <3> QED  BY <3>3, <3>6, <3>7
  <2> QED  BY <1>5, <2>2, <2>3, <2>4, <2>5
<1> QED  BY <1>1, <1>7, <1>8

-----------------------------------------------------------------------------
\* The datagram server of c3: what comes to a client's path are answers to it.
ClientGets(k) ==
  /\ Answers(data[PathOf[k]], "server", k)
  /\ pc[k] <= 4 => got[k] = <<>>
  /\ pc[k] > 4 => Answered(k)
  /\ status[k] # "running" => pc[k] = 3 \/ pc[k] > 5
DatagramInv ==
  Undisturbed /\ program = "c3" =>
    /\ \A k \in Clients : ClientGets(k)
    /\ pc["server"] = 4 => got["server"] # <<>> /\ Last(got["server"]).from = peer

LEMMA DatagramClientCalls ==
  \A k \in Clients :
    /\ Len(Datagrams[k]) = 5 /\ Datagrams[k][1] = <<"unlink", PathOf[k]>> /\ Datagrams[k][2] = <<"bind", PathOf[k]>>
    /\ Datagrams[k][3] = <<"sendTo", "path">> /\ Datagrams[k][4] = <<"receive", PathOf[k]>>
    /\ Datagrams[k][5] = <<"unlink", PathOf[k]>>
  BY DEF Datagrams, DatagramClient, Clients, PathOf

LEMMA DatagramSteps ==
  ASSUME IpcTypes, program = "c3", NEW p \in Processes, Step(p)
  PROVE  /\ p \in {"server"} \cup Clients
         /\ p \in Clients =>
              /\ pc[p] = 1 => Unlink(p)
              /\ pc[p] = 2 => Bind(p)
              /\ pc[p] = 3 => SendTo(p) /\ Arg(p) = "path"
              /\ pc[p] = 4 => ReceiveFrom(p) /\ Arg(p) = PathOf[p]
              /\ pc[p] = 5 => Unlink(p)
              /\ pc[p] > 5 => Exit(p)
         /\ p = "server" =>
              /\ pc[p] <= 2 => Unlink(p) \/ Bind(p)
              /\ pc[p] = 3 => ReceiveFrom(p) /\ Arg(p) = "path"
              /\ pc[p] = 4 => Reply(p)
              /\ pc[p] > 4 => (Again(p) /\ Arg(p) = 3) \/ Exit(p)
<1>1. Programs[program] = Datagrams /\ \A q : Script(q) = Datagrams[q]
  BY ProgramsAre DEF Script
<1>2. p \in {"server"} \cup Clients /\ pc[p] \in Nat \ {0}
  BY <1>1, CallAt DEF Datagrams, Clients
<1>3. CASE p \in Clients
  <2>1. /\ Len(Script(p)) = 5 /\ Script(p)[1] = <<"unlink", PathOf[p]>> /\ Script(p)[2] = <<"bind", PathOf[p]>>
        /\ Script(p)[3] = <<"sendTo", "path">> /\ Script(p)[4] = <<"receive", PathOf[p]>>
        /\ Script(p)[5] = <<"unlink", PathOf[p]>>
    BY <1>1, <1>3, DatagramClientCalls
  <2>2. (pc[p] = 1 => Unlink(p)) /\ (pc[p] = 5 => Unlink(p))
    <3>1. 5 <= Len(Script(p)) /\ Script(p)[1] = <<"unlink", PathOf[p]>> /\ Script(p)[5] = <<"unlink", PathOf[p]>>
      BY <2>1
    <3>2. 1 <= Len(Script(p))
      BY <2>1
    <3> QED  BY <3>1, <3>2, CallAt DEF Performs
  <2>3. pc[p] = 2 => Bind(p)
    <3>1. 2 <= Len(Script(p)) /\ Script(p)[2] = <<"bind", PathOf[p]>>
      BY <2>1
    <3> QED  BY <3>1, CallAt DEF Performs
  <2>4. pc[p] = 3 => SendTo(p) /\ Arg(p) = "path"
    <3>1. 3 <= Len(Script(p)) /\ Script(p)[3] = <<"sendTo", "path">>
      BY <2>1
    <3> QED  BY <3>1, CallAt DEF Performs
  <2>5. pc[p] = 4 => ReceiveFrom(p) /\ Arg(p) = PathOf[p]
    <3>1. 4 <= Len(Script(p)) /\ Script(p)[4] = <<"receive", PathOf[p]>>
      BY <2>1
    <3> QED  BY <3>1, CallAt DEF Performs
  <2>6. pc[p] > 5 => Exit(p)
    BY <2>1, CallAt
  <2>7. p # "server"
    BY <1>3 DEF Clients
  <2> QED  BY <1>2, <1>3, <2>2, <2>3, <2>4, <2>5, <2>6, <2>7
<1>4. CASE p = "server"
  <2>1. /\ Len(Script(p)) = 5
        /\ Script(p)[1] = <<"unlink", "path">> /\ Script(p)[2] = <<"bind", "path">>
        /\ Script(p)[3] = <<"receive", "path">> /\ Script(p)[4][1] = "reply"
        /\ Script(p)[5] = <<"again", 3>>
    BY <1>1, <1>4, DatagramCalls
  <2>2. (pc[p] = 1 => Unlink(p)) /\ (pc[p] = 2 => Bind(p))
    <3>1. pc[p] = 1 => Performs(p, "unlink")
      <4>1. pc[p] = 1 => pc[p] <= Len(Script(p)) /\ Script(p)[pc[p]] = <<"unlink", "path">>
        BY <2>1
      <4> QED  BY <4>1, CallAt
    <3>2. pc[p] = 2 => Performs(p, "bind")
      <4>1. pc[p] = 2 => pc[p] <= Len(Script(p)) /\ Script(p)[pc[p]] = <<"bind", "path">>
        BY <2>1
      <4> QED  BY <4>1, CallAt
    <3> QED  BY <3>1, <3>2 DEF Performs
  <2>3. pc[p] = 3 => ReceiveFrom(p) /\ Arg(p) = "path"
    <3>1. 3 <= Len(Script(p)) /\ Script(p)[3] = <<"receive", "path">>
      BY <2>1
    <3> QED  BY <3>1, CallAt DEF Performs
  <2>4. pc[p] = 4 => Reply(p)
    <3>1. pc[p] = 4 => Performs(p, "reply")
      <4>1. pc[p] = 4 => pc[p] <= Len(Script(p)) /\ Script(p)[pc[p]][1] = "reply"
        BY <2>1
      <4>2. pc[p] = 4 => ~(pc[p] > Len(Script(p)))
        BY <2>1
      <4> QED  BY <4>1, <4>2, StepPerforms
    <3> QED  BY <3>1 DEF Performs
  <2>5. pc[p] = 5 => Again(p) /\ Arg(p) = 3
    <3>1. 5 <= Len(Script(p)) /\ Script(p)[5] = <<"again", 3>>
      BY <2>1
    <3> QED  BY <3>1, CallAt DEF Performs
  <2>6. pc[p] > 5 => Exit(p)
    BY <2>1, CallAt
  <2>7. p \notin Clients
    BY <1>4 DEF Clients
  <2> QED  BY <1>2, <1>4, <2>2, <2>3, <2>4, <2>5, <2>6, <2>7
<1> QED  BY <1>2, <1>3, <1>4

\* What belongs to a client that does not move.
LEMMA RecipientStays ==
  ASSUME NEW k \in Clients, ClientGets(k), UNCHANGED run, UNCHANGED program,
         pc'[k] = pc[k], status'[k] = status[k], got'[k] = got[k],
         Answers(data'[PathOf[k]], "server", k)
  PROVE  ClientGets(k)'
  BY DEF ClientGets, Answered, AnswerTo

LEMMA DatagramAfter ==
  ASSUME IpcTypes, BindInv, MailInv, DatagramInv, NEW p \in Processes, Step(p)
  PROVE  DatagramInv'
<1> SUFFICES ASSUME Undisturbed', program' = "c3" PROVE DatagramInv'
  BY DEF DatagramInv
<1> DEFINE S == pc["server"]
<1>1. /\ UNCHANGED <<run, program>> /\ program = "c3" /\ p \in {"server"} \cup Clients /\ status[p] = "running"
      /\ pc \in [Processes -> Nat \ {0}] /\ "server" \in Processes /\ Clients \subseteq Processes
      /\ status \in [Processes -> {"running", "ended", "killed", "failed", "off"}]
      /\ data \in [Channels \cup Paths -> Seq(Messages)] /\ "server" \notin Clients
      /\ got \in [Processes -> Seq(Messages)] /\ FromClients(data["path"])
      /\ (S > 3 => peer \in Clients)
  <2>1. UNCHANGED <<run, program>> /\ program = "c3" /\ status[p] = "running"
    BY CallAt
  <2>2. p \in {"server"} \cup Clients
    BY <2>1, DatagramSteps
  <2> QED  BY <2>1, <2>2 DEF IpcTypes, Located, MailTypes, PeerKnown, Processes, Clients
<1>2. /\ \A k \in Clients : ClientGets(k)
      /\ S = 4 => got["server"] # <<>> /\ Last(got["server"]).from = peer
  BY <1>1, StillUndisturbed DEF DatagramInv
<1>3. /\ \A k \in Clients : PathOf[k] \in Channels \cup Paths /\ PathOf[k] # "path"
      /\ \A k, l \in Clients : k # l => PathOf[k] # PathOf[l]
      /\ "path" \in Channels \cup Paths
  BY DEF PathOf, Clients, Channels, Paths
<1>4. S \in Nat \ {0} /\ \A k \in Clients : pc[k] \in Nat \ {0}
  BY <1>1
<1>5. SUFFICES /\ \A k \in Clients : ClientGets(k)'
               /\ S' = 4 => got'["server"] # <<>> /\ Last(got'["server"]).from = peer'
  BY DEF DatagramInv
<1>6. \A k \in Clients \ {p} : pc'[k] = pc[k] /\ status'[k] = status[k]
  BY <1>1, PlaceAfter
<1>7. ASSUME UNCHANGED data, NEW k \in Clients \ {p}, got'[k] = got[k] PROVE ClientGets(k)'
  <2>1. Answers(data'[PathOf[k]], "server", k)
    BY <1>2, <1>7 DEF ClientGets
  <2> QED  BY <1>1, <1>2, <1>6, <1>7, <2>1, RecipientStays
<1>8. CASE p \in Clients
  <2>1. S' = S /\ peer' = peer /\ ClientGets(p) /\ p # "server"
    BY <1>1, <1>2, <1>8, PlaceAfter, PeerStays
  <2>2. CASE pc[p] # 4
    <3>1. \/ Unlink(p) \/ Bind(p) \/ Exit(p)
          \/ pc[p] = 3 /\ SendTo(p) /\ Arg(p) = "path"
      BY <1>1, <1>4, <1>8, <2>2, DatagramSteps
    <3>2. UNCHANGED got
      BY <3>1 DEF Unlink, Bind, Exit, SendTo
    <3>3. \A k \in Clients : data'[PathOf[k]] = data[PathOf[k]]
      <4>1. CASE UNCHANGED data
        BY <4>1
      <4>2. CASE data' = [data EXCEPT !["path"] = Append(@, Message(p))]
        BY <1>3, <4>2, Written
      <4> QED  BY <3>1, <4>1, <4>2 DEF Unlink, Bind, Exit, SendTo
    <3>4. \A k \in Clients \ {p} : ClientGets(k)'
      <4> TAKE k \in Clients \ {p}
      <4>1. Answers(data'[PathOf[k]], "server", k)
        BY <1>2, <3>3 DEF ClientGets
      <4> QED  BY <1>1, <1>2, <1>6, <3>2, <4>1, RecipientStays
    <3>5. /\ pc'[p] \in Nat /\ (pc[p] <= 4 => pc'[p] <= 4) /\ (pc[p] > 4 => pc'[p] > 4)
          /\ status'[p] # "running" => pc'[p] = 3 \/ pc'[p] > 5
      <4>1. CASE pc[p] = 1 \/ pc[p] = 5
        <5>1. Unlink(p)
          BY <1>1, <1>8, <4>1, DatagramSteps
        <5> QED  BY <1>1, <1>8, <4>1, <5>1 DEF Unlink, Return
      <4>2. CASE pc[p] = 2
        <5>1. Bind(p) /\ status'[p] # "failed"
          BY <1>1, <1>8, <4>2, DatagramSteps, NobodyFails
        <5> QED  BY <1>1, <1>8, <4>2, <5>1 DEF Bind, Return, Leave
      <4>3. CASE pc[p] = 3
        <5>1. SendTo(p)
          BY <1>1, <1>8, <4>3, DatagramSteps
        <5> QED  BY <1>1, <1>8, <4>3, <5>1 DEF SendTo, Return, Leave
      <4>4. CASE pc[p] > 5
        <5>1. Exit(p)
          BY <1>1, <1>8, <4>4, DatagramSteps
        <5> QED  BY <1>1, <1>4, <1>8, <4>4, <5>1 DEF Exit, Leave
      <4> QED  BY <1>4, <1>8, <2>2, <4>1, <4>2, <4>3, <4>4
    <3>6. ClientGets(p)'
      <4>1. Answers(data'[PathOf[p]], "server", p)
        BY <1>8, <2>1, <3>3 DEF ClientGets
      <4>2. pc'[p] <= 4 => got'[p] = <<>>
        <5>1. pc'[p] <= 4 => pc[p] <= 4
          BY <1>4, <1>8, <3>5
        <5> QED  BY <2>1, <3>2, <5>1 DEF ClientGets
      <4>3. pc'[p] > 4 => Answered(p)'
        <5>1. pc'[p] > 4 => pc[p] > 4
          BY <1>4, <1>8, <3>5
        <5> QED  BY <1>1, <2>1, <3>2, <5>1 DEF ClientGets, Answered, AnswerTo
      <4> QED  BY <3>5, <4>1, <4>2, <4>3 DEF ClientGets
    <3> QED  BY <1>2, <2>1, <3>2, <3>4, <3>6
  <2>3. CASE pc[p] = 4
    <3>1. ReceiveFrom(p) /\ Arg(p) = PathOf[p]
      BY <1>1, <1>8, <2>3, DatagramSteps
    <3>2. /\ data[PathOf[p]] # <<>> /\ Receive(p, Head(data[PathOf[p]])) /\ UNCHANGED status
          /\ data' = [data EXCEPT ![PathOf[p]] = Tail(@)] /\ pc'[p] = 5
      BY <1>1, <1>8, <2>3, <3>1 DEF ReceiveFrom, Return
    <3>3. /\ data'[PathOf[p]] = Tail(data[PathOf[p]]) /\ data[PathOf[p]] \in Seq(Messages)
          /\ Head(data[PathOf[p]]).run = run
          /\ \A d \in (Channels \cup Paths) \ {PathOf[p]} : data'[d] = data[d]
      BY <1>3, <1>8, <3>2, ReadFirst
    <3>4. /\ Answers(data'[PathOf[p]], "server", p)
          /\ Head(data[PathOf[p]]).from = "server" /\ Head(data[PathOf[p]]).re = p
      <4>1. Answers(data[PathOf[p]], "server", p)
        BY <2>1 DEF ClientGets
      <4> QED  BY <3>2, <3>3, <4>1, AnswersStay
    <3>5. /\ \A q \in Processes \ {p} : got'[q] = got[q]
          /\ Len(got'[p]) = 1 /\ got'[p][1] = Head(data[PathOf[p]])
      <4>1. got[p] = <<>>
        BY <2>1, <2>3 DEF ClientGets
      <4> QED  BY <3>2, <4>1, Received
    <3>6. Answered(p)'
      BY <1>1, <3>3, <3>4, <3>5 DEF Answered, AnswerTo
    <3>7. ClientGets(p)'
      <4>1. ~(pc'[p] <= 4) /\ status'[p] = "running"
        BY <1>1, <3>2
      <4> QED  BY <3>4, <3>6, <4>1 DEF ClientGets
    <3>8. \A k \in Clients \ {p} : ClientGets(k)'
      <4> TAKE k \in Clients \ {p}
      <4>1. data'[PathOf[k]] = data[PathOf[k]] /\ got'[k] = got[k]
        BY <1>1, <1>3, <1>8, <3>3, <3>5
      <4>2. Answers(data'[PathOf[k]], "server", k)
        BY <1>2, <4>1 DEF ClientGets
      <4> QED  BY <1>1, <1>2, <1>6, <4>1, <4>2, RecipientStays
    <3> QED  BY <1>1, <1>2, <2>1, <3>5, <3>7, <3>8
  <2> QED  BY <2>2, <2>3
<1>9. CASE p = "server"
  <2>1. p \notin Clients
    BY <1>1, <1>9
  <2>2. CASE S <= 2
    <3>1. Unlink(p) \/ Bind(p)
      BY <1>1, <1>9, <2>2, DatagramSteps
    <3>2. UNCHANGED <<got, data>> /\ S' # 4
      BY <1>1, <1>4, <1>9, <2>2, <3>1 DEF Unlink, Bind, Return, Leave
    <3> QED  BY <1>7, <2>1, <3>2
  <2>3. CASE S = 3
    <3>1. ReceiveFrom(p) /\ Arg(p) = "path"
      BY <1>1, <1>9, <2>3, DatagramSteps
    <3>2. /\ data["path"] # <<>> /\ Receive(p, Head(data["path"])) /\ UNCHANGED status
          /\ data' = [data EXCEPT !["path"] = Tail(@)] /\ peer' = Head(data["path"]).from
      BY <1>9, <3>1 DEF ReceiveFrom, Sender
    <3>3. \A d \in (Channels \cup Paths) \ {"path"} : data'[d] = data[d]
      BY <1>3, <3>2, ReadFirst
    <3>4. /\ \A q \in Processes \ {p} : got'[q] = got[q]
          /\ got'["server"] # <<>> /\ Last(got'["server"]).from = peer'
      BY <1>9, <3>2, Received
    <3>5. \A k \in Clients : ClientGets(k)'
      <4> TAKE k \in Clients
      <4>1. data'[PathOf[k]] = data[PathOf[k]] /\ got'[k] = got[k] /\ k \in Clients \ {p}
        BY <1>1, <1>3, <2>1, <3>3, <3>4
      <4>2. Answers(data'[PathOf[k]], "server", k)
        BY <1>2, <4>1 DEF ClientGets
      <4> QED  BY <1>1, <1>2, <1>6, <4>1, <4>2, RecipientStays
    <3> QED  BY <3>4, <3>5
  <2>4. CASE S = 4
    <3>1. Reply(p)
      BY <1>1, <1>9, <2>4, DatagramSteps
    <3>2. /\ UNCHANGED got /\ S' = 5
          /\ UNCHANGED data \/ data' = [data EXCEPT ![PathOf[peer]] = Append(@, Message(p))]
      BY <1>1, <1>9, <2>4, <3>1 DEF Reply, Return
    <3>3. peer \in Clients /\ Message(p).from = "server" /\ Message(p).re = peer
      BY <1>1, <1>2, <1>9, <2>4, MessageSays
    <3>4. ASSUME data' = [data EXCEPT ![PathOf[peer]] = Append(@, Message(p))], NEW k \in Clients
          PROVE  Answers(data'[PathOf[k]], "server", k)
      <4>1. /\ data'[PathOf[peer]] = Append(data[PathOf[peer]], Message(p)) /\ data[PathOf[peer]] \in Seq(Messages)
            /\ \A d \in (Channels \cup Paths) \ {PathOf[peer]} : data'[d] = data[d]
        BY <1>3, <3>3, <3>4, Written
      <4>2. Answers(data[PathOf[k]], "server", k)
        BY <1>2 DEF ClientGets
      <4>3. CASE k = peer
        <5>1. Answers(Append(data[PathOf[peer]], Message(p)), "server", peer)
          BY <3>3, <4>1, <4>2, <4>3, AnswersStay
        <5> QED  BY <4>1, <4>3, <5>1
      <4>4. CASE k # peer
        <5>1. data'[PathOf[k]] = data[PathOf[k]]
          BY <1>3, <3>3, <4>1, <4>4
        <5> QED  BY <4>2, <5>1
      <4> QED  BY <4>3, <4>4
    <3>5. \A k \in Clients : ClientGets(k)'
      <4> TAKE k \in Clients
      <4>1. CASE UNCHANGED data
        BY <1>7, <2>1, <3>2, <4>1
      <4>2. CASE data' = [data EXCEPT ![PathOf[peer]] = Append(@, Message(p))]
        <5>1. Answers(data'[PathOf[k]], "server", k) /\ got'[k] = got[k] /\ k \in Clients \ {p}
          BY <2>1, <3>2, <3>4, <4>2
        <5> QED  BY <1>1, <1>2, <1>6, <5>1, RecipientStays
      <4> QED  BY <3>2, <4>1, <4>2
    <3> QED  BY <3>2, <3>5
  <2>5. CASE S > 4
    <3>1. (Again(p) /\ Arg(p) = 3) \/ Exit(p)
      BY <1>1, <1>9, <2>5, DatagramSteps
    <3>2. UNCHANGED <<got, data>>
      BY <3>1 DEF Again, Exit, kernel
    <3>3. S' # 4
      <4>1. CASE Again(p) /\ Arg(p) = 3
        BY <1>1, <1>9, <4>1 DEF Again
      <4>2. CASE Exit(p)
        BY <1>4, <2>5, <4>2 DEF Exit
      <4> QED  BY <3>1, <4>1, <4>2
    <3> QED  BY <1>7, <2>1, <3>2, <3>3
  <2> QED  BY <1>4, <2>2, <2>3, <2>4, <2>5
<1> QED  BY <1>1, <1>8, <1>9

-----------------------------------------------------------------------------
\* All programs together.
AnswerInv == MemoryInv /\ QueueInv /\ PipelineInv /\ PipeInv /\ SocketInv /\ DatagramInv

LEMMA AnswersAtFirst == IpcTypes /\ Begun => AnswerInv
<1> SUFFICES ASSUME IpcTypes, Begun PROVE AnswerInv
  OBVIOUS
<1>1. /\ program \in Chosen /\ \A p \in Processes : pc[p] = 1 /\ got[p] = <<>>
      /\ \A c \in Channels \cup Paths : data[c] = <<>>
      /\ ends = Inherited(program) /\ peer = Nobody
      /\ ~spoiled => queue = <<>>
  BY DEF Begun
<1>2. \A p \in Processes : p \in DOMAIN Programs[program] => status[p] = "running"
  <2>1. status = Started(program)
    BY DEF Begun
  <2> QED  BY <1>1, <2>1, FreshStart
<1>3. /\ {"parent", "child", "ls", "wc", "server"} \cup Clients \subseteq Processes
      /\ {"down", "up", "down2", "up2"} \subseteq Channels \cup Paths
  BY DEF Processes, Clients, Channels
<1>4. MemoryInv
  <2>1. program = "b1" => status["child"] = "running"
    BY <1>2, <1>3, ProgramsAre, GoodMemory
  <2> QED  BY <1>1, <1>3, <2>1 DEF MemoryInv
<1>5. QueueInv
  <2>1. ~spoiled => Addressed(queue, program) /\ NoAnswers(queue)
    BY <1>1 DEF Addressed, NoAnswers
  <2> QED  BY <1>1, <1>3, <2>1 DEF QueueInv, Undisturbed
<1>6. PipelineInv
  <2>1. program = "a2" => status["ls"] = "running" /\ status["wc"] = "running"
    BY <1>2, <1>3, PipelineCalls
  <2>2. program = "a2" => <<"ls", "down", "w", "fd">> \in ends /\ <<"wc", "down", "r", "fd">> \in ends
    <3>1. program = "a2" => ends = {"parent", "ls", "wc"} \X {"down"} \X {"r", "w"} \X {"fd"}
      BY <1>1, PipelineCalls DEF Inherited
    <3> QED  BY <3>1
  <2>3. Len(got["wc"]) = 0 /\ Len(data["down"]) = 0 /\ Lines(pc["ls"]) = 0
    BY <1>1, <1>3 DEF Lines
  <2>4. pc["ls"] = 1 /\ pc["wc"] = 1
    BY <1>1, <1>3
  <2>5. program = "a2" => KeepsEnd("ls", "w", 3) /\ KeepsEnd("wc", "r", 2)
    BY <2>2, <2>4 DEF KeepsEnd
  <2> QED  BY <2>1, <2>3, <2>4, <2>5 DEF PipelineInv
<1>7. PipeInv
  <2> SUFFICES ASSUME program \in Pipes PROVE PipeEnds(PipeAt[program]) /\ PipeMail(PipeAt[program])
    BY DEF PipeInv
  <2> DEFINE n == PipeAt[program]
  <2>1. n \in Nat /\ n >= 2 /\ UpFrom[program] \in Nat /\ DownFrom[program] \in Nat
        /\ (program \in {"a1", "c1"} => UpFrom[program] = 1 /\ DownFrom[program] = 1)
        /\ (program = "a3" => UpFrom[program] = 4 /\ DownFrom[program] = 2)
    BY DEF Pipes, PipeAt, UpFrom, DownFrom
  <2>2. \A q \in Both : pc[q] = 1 /\ got[q] = <<>> /\ status[q] = "running"
    <3>1. Both \subseteq DOMAIN Programs[program]
      BY ProgramsAre, GoodPipes, GoodFifos, GoodPair DEF Pipes, Both
    <3> QED  BY <1>1, <1>2, <1>3, <3>1 DEF Both
  <2>3. program \in {"a1", "c1"} => \A q \in Both : <<q, "down", DownEnd[q], "fd">> \in ends /\ <<q, "up", UpEnd[q], "fd">> \in ends
    <3>1. program \in {"a1", "c1"} => ends = Both \X {"down", "up"} \X {"r", "w"} \X {"fd"}
      BY <1>1, ProgramsAre, GoodPipes, GoodPair DEF Inherited, Both
    <3>2. \A q \in Both : DownEnd[q] \in {"r", "w"} /\ UpEnd[q] \in {"r", "w"}
      BY DEF Both, DownEnd, UpEnd
    <3> QED  BY <3>1, <3>2
  <2>4. program = "a3" => ends = {}
    BY <1>1 DEF Inherited
  <2>5. \A q \in Both : LocalEnds(q, n) /\ OpenedLate(q)
    <3> TAKE q \in Both
    <3>1. LocalEnds(q, n)
      BY <2>1, <2>2, <2>3 DEF LocalEnds, Pipes
    <3>2. OpenedLate(q)
      BY <2>4 DEF OpenedLate
    <3> QED  BY <3>1, <3>2
  <2> HIDE DEF n
  <2>6. PipeEnds(n)
    <3>1. \A r \in Both : ~(pc[r] >= n)
      BY <2>1, <2>2
    <3> QED  BY <2>2, <2>5, <3>1 DEF PipeEnds
  <2>7. PipeMail(n)
    <3>1. /\ pc["parent"] = 1 /\ pc["child"] = 1 /\ got["parent"] = <<>>
          /\ data["down"] = <<>> /\ data["up"] = <<>>
      BY <1>1, <1>3
    <3>2. WrittenBy(<<>>, "parent") /\ Answers(<<>>, "child", "parent")
      BY DEF WrittenBy, Answers
    <3>3. /\ 1 <= n /\ 1 <= n + 1 /\ ~(1 > n + 1) /\ 1 # n + 1
      BY <2>1
    <3> QED  BY <3>1, <3>2, <3>3 DEF PipeMail
  <2> QED  BY <2>6, <2>7 DEF n
<1>8. SocketInv
  <2>1. \A k \in Clients : pc[k] = 1 /\ got[k] = <<>> /\ data[Up[k]] = <<>>
    BY <1>1, <1>3 DEF Clients, Up
  <2>2. \A k \in Clients : ClientAt(k)
    BY <2>1 DEF ClientAt, WrittenBy
  <2>3. pc["server"] = 1
    BY <1>1, <1>3
  <2> QED  BY <1>1, <2>2, <2>3 DEF SocketInv
<1>9. DatagramInv
  <2>1. \A k \in Clients : pc[k] = 1 /\ got[k] = <<>> /\ data[PathOf[k]] = <<>>
    BY <1>1, <1>3 DEF Clients, PathOf, Paths
  <2>2. program = "c3" => \A k \in Clients : status[k] = "running"
    <3>1. program = "c3" => Clients \subseteq DOMAIN Programs[program]
      BY ProgramsAre, GoodDatagrams DEF Clients
    <3> QED  BY <1>2, <1>3, <3>1
  <2>3. program = "c3" => \A k \in Clients : ClientGets(k)
    BY <2>1, <2>2 DEF ClientGets, Answers
  <2>4. pc["server"] = 1
    BY <1>1, <1>3
  <2> QED  BY <2>3, <2>4 DEF DatagramInv
<1> QED  BY <1>4, <1>5, <1>6, <1>7, <1>8, <1>9 DEF AnswerInv

LEMMA AnswerAfter == ASSUME IpcTypes, LeftInv, AnswerInv, [Next]_vars PROVE AnswerInv'
<1>1. ASSUME NEW p \in Processes, Step(p) PROVE AnswerInv'
  <2>1. MemoryInv' /\ QueueInv' /\ PipelineInv' /\ PipeInv'
    BY <1>1, MemoryAfter, QueueAfter, PipelineAfter, PipeAfter DEF LeftInv, AnswerInv
  <2>2. SocketInv' /\ DatagramInv'
    BY <1>1, SocketAfter, DatagramAfter DEF LeftInv, AnswerInv
  <2> QED  BY <2>1, <2>2 DEF AnswerInv
<1>2. ASSUME NEW p \in Processes, Kill(p) PROVE AnswerInv'
  <2>1. ~Undisturbed'
    BY <1>2 DEF Kill, Undisturbed
  <2> QED  BY <2>1 DEF AnswerInv, MemoryInv, QueueInv, PipelineInv, PipeInv, SocketInv, DatagramInv
<1>3. CASE NextRun
  <2>1. spoiled' = (spoiled \/ killed \/ \E p \in Processes : status[p] = "running")
    BY <1>3 DEF NextRun
  <2>2. ~spoiled' => queue = <<>> /\ memory = Nothing /\ files = {}
    BY <2>1, ItCleansUp DEF LeftInv, CleansUp
  <2>3. IpcTypes' /\ Begun'
    BY <1>3, <2>2, TypesAfter DEF NextRun, Begun
  <2> QED  BY <2>3, AnswersAtFirst, PTL
<1>4. CASE UNCHANGED vars
  <2>1. /\ UNCHANGED <<run, program, pc, status, got, ends, data, files, queue>>
        /\ UNCHANGED <<memory, peer, early, killed, spoiled>>
    BY <1>4 DEF vars, process, kernel, ghosts
  <2>2. Undisturbed' => Undisturbed
    BY <2>1 DEF Undisturbed
  <2>3. \A q : Answered(q) => Answered(q)'
    BY <2>1 DEF Answered, AnswerTo
  <2>4. MemoryInv'
    BY <2>1, <2>2, <2>3 DEF AnswerInv, MemoryInv
  <2>5. QueueInv'
    BY <2>1, <2>2, <2>3 DEF AnswerInv, QueueInv
  <2>6. PipelineInv'
    BY <2>1, <2>2 DEF AnswerInv, PipelineInv, KeepsEnd
  <2>7. PipeInv'
    <3>1. ASSUME NEW n, PipeEnds(n) PROVE PipeEnds(n)'
      BY <2>1, <3>1 DEF PipeEnds, LocalEnds, OpenedLate
    <3>2. ASSUME NEW n, PipeMail(n) PROVE PipeMail(n)'
      BY <2>1, <2>3, <3>2 DEF PipeMail
    <3> QED  BY <2>1, <2>2, <3>1, <3>2 DEF AnswerInv, PipeInv
  <2>8. SocketInv'
    <3>1. \A k : ClientAt(k) => ClientAt(k)'
      BY <2>1 DEF ClientAt
    <3>2. AnswerComes(peer) => AnswerComes(peer)'
      BY <2>1, <2>3 DEF AnswerComes, Answered, AnswerTo
    <3> QED  BY <2>1, <2>2, <3>1, <3>2 DEF AnswerInv, SocketInv
  <2>9. DatagramInv'
    <3>1. \A k : ClientGets(k) => ClientGets(k)'
      BY <2>1, <2>3 DEF ClientGets
    <3> QED  BY <2>1, <2>2, <3>1 DEF AnswerInv, DatagramInv
  <2> QED  BY <2>4, <2>5, <2>6, <2>7, <2>8, <2>9 DEF AnswerInv
<1> QED  BY <1>1, <1>2, <1>3, <1>4 DEF Next

\* Whatever the programs chosen, and however often they are started: when nobody was
\* killed or interrupted and no sleep was too short, whoever has asked and ended has
\* got one answer, of its own run and to its own question; and wc has got both lines.
THEOREM EveryAskerIsAnswered == Spec => []EveryoneIsAnswered
<1>1. IpcTypes /\ LeftInv /\ AnswerInv => EveryoneIsAnswered
  <2> SUFFICES ASSUME IpcTypes, LeftInv, AnswerInv, Undisturbed, NEW p \in Processes, status[p] = "ended"
               PROVE  (Asks(p) => Answered(p)) /\ (p = "wc" => Len(got[p]) = 2)
    BY DEF EveryoneIsAnswered, Answered
  <2>1. /\ pc \in [Processes -> Nat \ {0}] /\ program \in DOMAIN Programs /\ p \in DOMAIN Programs[program]
        /\ peer \in Clients \cup {Nobody} /\ Nobody \notin Processes /\ Clients \subseteq Processes
        /\ {"server", "ls", "wc", "parent"} \subseteq Processes
    BY DEF IpcTypes, Located, PeerKnown, Processes, Clients, Nobody
  <2>2. pc[p] \in Nat /\ pc["server"] \in Nat /\ pc["ls"] \in Nat /\ pc["wc"] \in Nat
    BY <2>1
  <2>3. CASE program \in {"a1", "a3", "c1"} /\ p = "parent"
    <3> DEFINE n == PipeAt[program]
    <3>1. PipeEnds(n) /\ PipeMail(n)
      BY <2>3 DEF AnswerInv, PipeInv, Pipes
    <3> HIDE DEF n
    <3>2. pc[p] > n + 1
      BY <2>3, <3>1 DEF PipeEnds, Both
    <3>3. Answered(p)
      BY <2>3, <3>1, <3>2 DEF PipeMail
    <3> QED  BY <2>3, <3>3
  <2>4. CASE program \in {"b1", "d1", "d2"} /\ p = "parent"
    <3>1. pc[p] > Removes[program]
      BY <2>4 DEF LeftInv, ObjectInv, Undisturbed
    <3>2. Removes[program] >= 4 /\ Removes[program] \in Nat
      BY <2>4 DEF Removes
    <3>3. pc["parent"] > 3
      BY <2>2, <2>4, <3>1, <3>2
    <3>4. Answered(p)
      BY <2>4, <3>3 DEF AnswerInv, MemoryInv, QueueInv
    <3> QED  BY <2>4, <3>4
  <2>5. CASE program = "c2" /\ p = peer
    <3>1. ~(pc["server"] <= 4)
      BY <2>1, <2>5 DEF AnswerInv, SocketInv
    <3>2. pc["server"] \notin {5, 6}
      BY <2>5 DEF LeftInv, StreamInv, Served, Waiting, Undisturbed
    <3>3. AnswerComes(p)
      <4>1. pc["server"] > 6
        BY <2>2, <3>1, <3>2
      <4> QED  BY <2>5, <4>1 DEF AnswerInv, SocketInv
    <3>4. pc[p] > 3
      BY <2>2, <3>3 DEF AnswerComes
    <3>5. Answered(p) /\ p # "wc"
      BY <2>1, <2>5, <3>3, <3>4 DEF AnswerComes, Clients, Nobody
    <3> QED  BY <3>5
  <2>6. CASE program = "c3" /\ p \in Clients
    <3>1. ClientGets(p)
      BY <2>6 DEF AnswerInv, DatagramInv
    <3>2. pc[p] = 3 \/ Answered(p)
      BY <2>2, <3>1 DEF ClientGets
    <3> QED  BY <2>2, <2>6, <3>2 DEF Asks, Clients
  <2>7. CASE p = "wc"
    <3>1. program = "a2"
      BY <2>1, <2>7, ProgramsAre, GoodPipes, GoodFifos, GoodMemory, GoodPair, GoodStreams, GoodDatagrams,
         GoodQueue, GoodReceive
    <3>2. pc["wc"] > 4 /\ data["down"] = <<>>
      BY <2>7, <3>1 DEF AnswerInv, PipelineInv
    <3>3. pc["ls"] > 5
      BY <2>2, <3>1, <3>2 DEF AnswerInv, PipelineInv
    <3>4. Len(got["wc"]) + 0 = 2
      <4>1. Len(got["wc"]) + Len(data["down"]) = Lines(pc["ls"])
        BY <3>1 DEF AnswerInv, PipelineInv
      <4>2. Lines(pc["ls"]) = 2
        BY <2>2, <3>3 DEF Lines
      <4>3. Len(data["down"]) = 0
        BY <3>2
      <4> QED  BY <4>1, <4>2, <4>3
    <3>5. Len(got["wc"]) \in Nat
      BY <2>1 DEF IpcTypes, MailTypes
    <3> QED  BY <2>7, <3>1, <3>4, <3>5 DEF Asks
  <2> QED  BY <2>3, <2>4, <2>5, <2>6, <2>7 DEF Asks
<1>2. Init => IpcTypes /\ LeftInv /\ AnswerInv
  <2>1. Init => Begun
    BY DEF Init, Begun
  <2> QED  BY <2>1, TypesAtFirst, LeftAtFirst, AnswersAtFirst
<1> QED  BY <1>1, <1>2, TypesAfter, LeftAfter, AnswerAfter, PTL DEF Spec
=============================================================================
