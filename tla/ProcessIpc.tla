----------------------------- MODULE ProcessIpc -----------------------------
(***************************************************************************)
(* The programs of Lab 9, started one after the other on one machine.  The *)
(* calls are those of the kernel: pipes, FIFOs, sockets, shared memory and *)
(* message queues, with what survives the processes that made it.  Any     *)
(* process may be killed, and a program that hangs is interrupted before   *)
(* the next one is started.                                                *)
(***************************************************************************)
EXTENDS Naturals, Sequences, SequencesExt, FiniteSetsExt, IpcPrograms

CONSTANTS
  Chosen,   \* the programs to start
  MaxRuns   \* bound of the model: how many programs are started

ASSUME IpcAssumption == Chosen \subseteq DOMAIN Programs /\ MaxRuns \in Nat \ {0}

Processes == {"parent", "child", "ls", "wc", "server", "k1", "k2"}
Clients == {"k1", "k2"}
Channels == {"down", "up", "down2", "up2"}
Paths == {"path", "path1", "path2"}

VARIABLES
  run, program,  \* how many programs were started, and which is running
  pc, status,    \* the processes: the next call, and "running", "ended", "killed" or "off"
  ends,          \* what the processes hold open: process, channel, direction, descriptor
  data,          \* what was written into the channels and sockets and not yet read
  files,         \* the paths that exist
  queue,         \* the message queue
  memory,        \* the shared memory: the last message in it
  got,           \* what each process has received
  peer,          \* client_fd and client_addr of a server
  early,         \* ghost: a sleep ended before what it was to wait for
  killed,        \* ghost: a process of this run was killed
  spoiled        \* ghost: an earlier run was killed or interrupted

process == <<pc, status, got, peer>>
kernel == <<ends, data, files, queue, memory>>
ghosts == <<early, killed, spoiled>>
vars == <<run, program, process, kernel, ghosts>>

Nobody == "nobody"
Nothing == [run |-> 0, from |-> Nobody, re |-> Nobody]

\* Who inherits which ends of the channels.
Inherited(prog) ==
  LET channels == IF prog \in {"a1", "c1"} THEN {"down", "up"}
                  ELSE IF prog = "a2" THEN {"down"} ELSE {}
  IN (DOMAIN Programs[prog]) \X channels \X {"r", "w"} \X {"fd"}

Started(prog) == [p \in Processes |-> IF p \in DOMAIN Programs[prog] THEN "running" ELSE "off"]

Init ==
  /\ run = 1 /\ program \in Chosen
  /\ pc = [p \in Processes |-> 1] /\ status = Started(program)
  /\ ends = Inherited(program)
  /\ data = [c \in Channels \cup Paths |-> <<>>]
  /\ files = {} /\ queue = <<>> /\ memory = Nothing
  /\ got = [p \in Processes |-> <<>>] /\ peer = Nobody
  /\ early = FALSE /\ killed = FALSE /\ spoiled = FALSE

-----------------------------------------------------------------------------
\* p is at a call of the operation, with this argument.
Script(p) == Programs[program][p]
At(p, op) == status[p] = "running" /\ pc[p] <= Len(Script(p)) /\ Script(p)[pc[p]][1] = op
Arg(p) == Script(p)[pc[p]][2]

Return(p) == pc' = [pc EXCEPT ![p] = @ + 1]
Receive(p, m) == got' = [got EXCEPT ![p] = Append(@, m)]

Holders(c, dir) == {e \in ends : e[2] = c /\ e[3] = dir}

\* What p sends: an answer, if it has received something.
Message(p) ==
  [run |-> run, from |-> p, re |-> IF got[p] = <<>> THEN Nobody ELSE Last(got[p]).from]

\* What is left open when some processes are gone; connections nobody has accepted go
\* with the server.
Without(gone) ==
  {e \in ends : e[1] \notin gone /\ ("server" \in gone => e[1] # "backlog")}
Leave(p, how) ==
  /\ status' = [status EXCEPT ![p] = how]
  /\ ends' = Without({p})

-----------------------------------------------------------------------------
\* Pipes, FIFOs and connected sockets.
CloseEnds(p) ==
  /\ At(p, "close") /\ Return(p)
  /\ ends' = {e \in ends : ~(e[1] = p /\ <<e[2], e[3]>> \in Arg(p) /\ e[4] = "fd")}
  /\ UNCHANGED <<status, got, peer, data, files, queue, memory, early>>

Duplicate(p) ==
  /\ At(p, "dup") /\ Return(p)
  /\ ends' = ends \cup {<<p, Arg(p)[1], Arg(p)[2], "std">>}
  /\ UNCHANGED <<status, got, peer, data, files, queue, memory, early>>

\* A FIFO: the end is there at once, the call returns when the other end is too.
OpenFifo(p) ==
  /\ At(p, "open") /\ Return(p)
  /\ ends' = ends \cup {<<p, Arg(p)[1], Arg(p)[2], "fd">>}
  /\ UNCHANGED <<status, got, peer, data, files, queue, memory, early>>
OpenedFifo(p) ==
  /\ At(p, "opened") /\ Return(p)
  /\ Holders(Arg(p)[1], IF Arg(p)[2] = "r" THEN "w" ELSE "r") # {}
  /\ UNCHANGED <<status, got, peer, kernel, early>>

\* Without a reader the signal SIGPIPE ends the writer.
WriteTo(p, c) ==
  IF Holders(c, "r") = {}
    THEN Leave(p, "killed") /\ UNCHANGED <<pc, data>>
    ELSE /\ data' = [data EXCEPT ![c] = Append(@, Message(p))]
         /\ Return(p) /\ UNCHANGED <<status, ends>>
Write(p) ==
  /\ At(p, "write") /\ WriteTo(p, Arg(p))
  /\ UNCHANGED <<got, peer, files, queue, memory, early>>

\* Blocks while there is nothing to read and somebody who could write it; then the
\* end of the file is not received as a message.
ReadFrom(p, c) ==
  /\ data[c] # <<>> \/ Holders(c, "w") = {}
  /\ IF data[c] = <<>> THEN UNCHANGED <<got, data>>
     ELSE Receive(p, Head(data[c])) /\ data' = [data EXCEPT ![c] = Tail(@)]
Read(p) ==
  /\ At(p, "read") /\ ReadFrom(p, Arg(p)) /\ Return(p)
  /\ UNCHANGED <<status, peer, ends, files, queue, memory, early>>

\* wc reads to the end of the file.
ReadAll(p) ==
  /\ At(p, "readAll") /\ ReadFrom(p, Arg(p))
  /\ IF data[Arg(p)] = <<>> THEN Return(p) ELSE UNCHANGED pc
  /\ UNCHANGED <<status, peer, ends, files, queue, memory, early>>

WaitForChild(p) ==
  /\ At(p, "wait") /\ status[Arg(p)] # "running" /\ Return(p)
  /\ UNCHANGED <<status, got, peer, kernel, early>>

\* However long p sleeps, the parent may or may not be past the step.
Sleep(p) ==
  /\ At(p, "sleep") /\ Return(p)
  /\ early' = (early \/ (status["parent"] = "running" /\ pc["parent"] <= Arg(p)))
  /\ UNCHANGED <<status, got, peer, kernel>>

-----------------------------------------------------------------------------
\* Shared memory.  strcpy and strcat only overlap when the child was early; they are
\* atomic here, and nothing is claimed of that case.
StoreMemory(p) ==
  /\ At(p, "store") /\ memory' = Message(p) /\ Return(p)
  /\ UNCHANGED <<status, got, peer, ends, data, files, queue, early>>
AppendMemory(p) ==
  /\ At(p, "append") /\ memory' = [Message(p) EXCEPT !.re = memory.from] /\ Return(p)
  /\ UNCHANGED <<status, got, peer, ends, data, files, queue, early>>
FetchMemory(p) ==
  /\ At(p, "fetch") /\ Receive(p, memory) /\ Return(p)
  /\ UNCHANGED <<status, peer, kernel, early>>

\* IPC_RMID.
RemoveObject(p) ==
  /\ At(p, "remove") /\ Return(p)
  /\ IF Arg(p) = "shm" THEN memory' = Nothing /\ UNCHANGED queue
                       ELSE queue' = <<>> /\ UNCHANGED memory
  /\ UNCHANGED <<status, got, peer, ends, data, files, early>>

\* The message queue: of the messages of a type the first.
OfType(t) == {i \in DOMAIN queue : queue[i].type = t}
TakeMessage(p, t) ==
  LET i == Min(OfType(t)) IN Receive(p, queue[i].message) /\ queue' = RemoveAt(queue, i)
SendMessage(p) ==
  /\ At(p, "msgsnd") /\ Return(p)
  /\ queue' = Append(queue, [type |-> Arg(p), message |-> Message(p)])
  /\ UNCHANGED <<status, got, peer, ends, data, files, memory, early>>
ReceiveMessage(p) ==
  /\ At(p, "msgrcv") /\ OfType(Arg(p)) # {} /\ TakeMessage(p, Arg(p)) /\ Return(p)
  /\ UNCHANGED <<status, peer, ends, data, files, memory, early>>
TryReceiveMessage(p) ==
  /\ At(p, "tryMsgrcv") /\ Return(p)
  /\ IF OfType(Arg(p)) = {} THEN UNCHANGED <<got, queue>> ELSE TakeMessage(p, Arg(p))
  /\ UNCHANGED <<status, peer, ends, data, files, memory, early>>

-----------------------------------------------------------------------------
\* Named sockets.  A path that exists cannot be bound: perror and exit.
Unlink(p) ==
  /\ At(p, "unlink") /\ files' = files \ {Arg(p)} /\ Return(p)
  /\ UNCHANGED <<status, got, peer, ends, data, queue, memory, early>>
Bind(p) ==
  /\ At(p, "bind")
  /\ IF Arg(p) \in files
       THEN Leave(p, "failed") /\ UNCHANGED <<pc, files>>
       ELSE /\ files' = files \cup {Arg(p)}
            /\ ends' = ends \cup {<<p, Arg(p), "bound", "fd">>}
            /\ Return(p) /\ UNCHANGED status
  /\ UNCHANGED <<got, peer, data, queue, memory, early>>
Bound(path) == path \in files /\ Holders(path, "bound") # {}

Listen(p) ==
  /\ At(p, "listen") /\ Return(p)
  /\ ends' = ends \cup {<<p, Arg(p), "listen", "fd">>}
  /\ UNCHANGED <<status, got, peer, data, files, queue, memory, early>>

\* A connection is complete before it is accepted.
Up == [k1 |-> "up", k2 |-> "up2"]
Down == [k1 |-> "down", k2 |-> "down2"]
ServerEnds(k, holder) == {<<holder, Up[k], "r", "fd">>, <<holder, Down[k], "w", "fd">>}
Connect(p) ==
  /\ At(p, "connect")
  /\ IF Bound("path") /\ Holders("path", "listen") # {}
       THEN /\ ends' = ends \cup ServerEnds(p, "backlog")
                            \cup {<<p, Up[p], "w", "fd">>, <<p, Down[p], "r", "fd">>}
            /\ Return(p) /\ UNCHANGED status
       ELSE Leave(p, "ended") /\ UNCHANGED pc
  /\ UNCHANGED <<got, peer, data, files, queue, memory, early>>
Accept(p) ==
  /\ At(p, "accept") /\ Return(p)
  /\ \E k \in Clients :
       /\ ServerEnds(k, "backlog") \subseteq ends
       /\ ends' = (ends \ ServerEnds(k, "backlog")) \cup ServerEnds(k, p)
       /\ peer' = k
  /\ UNCHANGED <<status, got, data, files, queue, memory, early>>
ReadPeer(p) ==
  /\ At(p, "readPeer") /\ ReadFrom(p, Up[peer]) /\ Return(p)
  /\ UNCHANGED <<status, peer, ends, files, queue, memory, early>>
WritePeer(p) ==
  /\ At(p, "writePeer") /\ WriteTo(p, Down[peer])
  /\ UNCHANGED <<got, peer, files, queue, memory, early>>
ClosePeer(p) ==
  /\ At(p, "closePeer") /\ ends' = ends \ ServerEnds(peer, p) /\ Return(p)
  /\ UNCHANGED <<status, got, peer, data, files, queue, memory, early>>
CloseListener(p) ==
  /\ At(p, "closeListener") /\ Return(p)
  /\ ends' = {e \in ends : e[1] # "backlog" /\ ~(e[1] = p /\ e[2] = "path")}
  /\ UNCHANGED <<status, got, peer, data, files, queue, memory, early>>

\* Datagrams: to a path that nobody has bound nothing can be sent, and the client exits;
\* the server only reports it.  recvfrom fills in the address of the sender.
SendTo(p) ==
  /\ At(p, "sendTo")
  /\ IF Bound(Arg(p))
       THEN /\ data' = [data EXCEPT ![Arg(p)] = Append(@, Message(p))]
            /\ Return(p) /\ UNCHANGED <<status, ends>>
       ELSE Leave(p, "ended") /\ UNCHANGED <<pc, data>>
  /\ UNCHANGED <<got, peer, files, queue, memory, early>>
Sender(m) == m.from
ReceiveFrom(p) ==
  /\ At(p, "receive") /\ data[Arg(p)] # <<>> /\ Return(p)
  /\ Receive(p, Head(data[Arg(p)]))
  /\ data' = [data EXCEPT ![Arg(p)] = Tail(@)]
  /\ peer' = IF p = "server" THEN Sender(Head(data[Arg(p)])) ELSE peer
  /\ UNCHANGED <<status, ends, files, queue, memory, early>>

\* The reply goes to the address of the last datagram, if it is still there.
PathOf == [k1 |-> "path1", k2 |-> "path2"]
Reply(p) ==
  /\ At(p, "reply") /\ Return(p)
  /\ data' = IF Bound(PathOf[peer]) THEN [data EXCEPT ![PathOf[peer]] = Append(@, Message(p))]
             ELSE data
  /\ UNCHANGED <<status, got, peer, ends, files, queue, memory, early>>
Again(p) ==
  /\ At(p, "again") /\ pc' = [pc EXCEPT ![p] = Arg(p)]
  /\ UNCHANGED <<status, got, peer, kernel, early>>

-----------------------------------------------------------------------------
Exit(p) ==
  /\ status[p] = "running" /\ pc[p] > Len(Script(p))
  /\ Leave(p, "ended")
  /\ UNCHANGED <<pc, got, peer, data, files, queue, memory, early>>

Step(p) ==
  /\ \/ CloseEnds(p) \/ Duplicate(p) \/ OpenFifo(p) \/ OpenedFifo(p) \/ Write(p) \/ Read(p)
     \/ ReadAll(p) \/ WaitForChild(p) \/ Sleep(p)
     \/ StoreMemory(p) \/ AppendMemory(p) \/ FetchMemory(p) \/ RemoveObject(p)
     \/ SendMessage(p) \/ ReceiveMessage(p) \/ TryReceiveMessage(p)
     \/ Unlink(p) \/ Bind(p) \/ Listen(p) \/ Connect(p) \/ Accept(p) \/ ReadPeer(p)
     \/ WritePeer(p) \/ ClosePeer(p) \/ CloseListener(p)
     \/ SendTo(p) \/ ReceiveFrom(p) \/ Reply(p) \/ Again(p) \/ Exit(p)
  /\ UNCHANGED <<run, program, killed, spoiled>>

\* A fault: one process of the run is killed.
Kill(p) ==
  /\ ~killed /\ status[p] = "running"
  /\ Leave(p, "killed")
  /\ killed' = TRUE
  /\ UNCHANGED <<run, program, pc, got, peer, data, files, queue, memory, early, spoiled>>

\* The next program is started; whatever is left of the last one is interrupted before.
\* Pipes go with their processes, the rest stays in the kernel or the file system.
NextRun ==
  /\ run < MaxRuns
  /\ run' = run + 1 /\ program' \in Chosen
  /\ pc' = [p \in Processes |-> 1] /\ status' = Started(program')
  /\ ends' = Inherited(program')
  /\ data' = [c \in Channels \cup Paths |-> <<>>]
  /\ got' = [p \in Processes |-> <<>>] /\ peer' = Nobody
  /\ early' = FALSE /\ killed' = FALSE
  /\ spoiled' = (spoiled \/ killed \/ \E p \in Processes : status[p] = "running")
  /\ UNCHANGED <<files, queue, memory>>

Next == (\E p \in Processes : Step(p) \/ Kill(p)) \/ NextRun

\* The scheduler runs every process whose call can return.
Spec == Init /\ [][Next]_vars /\ \A p \in Processes : WF_vars(Step(p))

-----------------------------------------------------------------------------
Messages == [run : 0 .. MaxRuns, from : Processes \cup {Nobody}, re : Processes \cup {Nobody}]
TypeOK ==
  /\ run \in 1 .. MaxRuns /\ program \in Chosen
  /\ status \in [Processes -> {"running", "ended", "killed", "failed", "off"}]
  /\ ends \subseteq (Processes \cup {"backlog"}) \X (Channels \cup Paths)
                      \X {"r", "w", "bound", "listen"} \X {"fd", "std"}
  /\ files \subseteq Paths
  /\ peer \in Clients \cup {Nobody}
  /\ \A p \in Processes : ToSet(got[p]) \subseteq Messages
  /\ memory \in Messages

Undisturbed == ~killed /\ ~early /\ ~spoiled

\* What a process waits for that ended: the answer to its own message.  A client the
\* stream server did not accept gets none.
Asks(p) ==
  \/ program \in {"a1", "a3", "b1", "c1", "d1", "d2"} /\ p = "parent"
  \/ program = "c2" /\ p = peer
  \/ program = "c3" /\ p \in Clients /\ pc[p] > 3
AnswerTo(p, m) == m.run = run /\ m.from \in {"child", "server"} /\ (program # "d2" => m.re = p)

\* When nobody was killed and no sleep was too short, whoever has asked and ended has
\* got one answer, of this run and to its own question; and wc has got every line.
EveryoneIsAnswered ==
  Undisturbed => \A p \in Processes : status[p] = "ended" =>
    /\ Asks(p) => Len(got[p]) = 1 /\ AnswerTo(p, got[p][1])
    /\ p = "wc" => Len(got[p]) = 2

\* No program receives what another one has left in the kernel, unless that one was
\* killed or interrupted: those that end by themselves clean up.
NoForeignMail ==
  ~spoiled => \A p \in Processes : \A m \in ToSet(got[p]) : m.run \in {0, run}

\* What ends undisturbed leaves nothing behind in the kernel or the file system.
CleansUp ==
  (~spoiled /\ ~killed /\ \A p \in Processes : status[p] # "running") =>
    queue = <<>> /\ memory = Nothing /\ files = {}

\* What the kernel keeps from one program to the next.
NothingIsLeftOver == TypeOK /\ NoForeignMail /\ CleansUp

\* The servers can be started again, also after one that was killed left its path.
BindNeverFails == \A p \in Processes : status[p] # "failed"

\* Who may wait for ever: whoever waits in open, in msgrcv or for a datagram of a
\* process that was killed; the parent of d2 when the early reply was taken by the
\* call that does not block; the datagram server; a server without a client.
MayHang(p) ==
  \/ program \in {"a3", "d1", "d2", "c3"} /\ killed
  \/ program = "d2" /\ early
  \/ program = "c3" /\ p = "server"
  \/ program = "c2" /\ p = "server" /\ At(p, "accept")
       /\ \A k \in Clients : status[k] # "running"

\* All others end, in every program, also when any process of it is killed: the ends
\* that nobody needs are closed, and so a reader sees the end of the file.
EveryoneEnds == <>[](\A p \in Processes : status[p] # "running" \/ MayHang(p))
=============================================================================
