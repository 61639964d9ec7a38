---------------------------- MODULE IpcPrograms -----------------------------
(***************************************************************************)
(* The programs of Lab 9, as the system calls their processes make after   *)
(* the last fork, in order.  Calls that cannot block and that nobody else  *)
(* notices are left out: printf, ftok, mkfifo, attaching and detaching     *)
(* memory.  An end of a channel is <<channel, direction>>.                 *)
(***************************************************************************)
LOCAL INSTANCE Sequences

\* Two pipes, or the two directions of a socketpair: down to the child and up.
DownR == <<"down", "r">>
DownW == <<"down", "w">>
UpR == <<"up", "r">>
UpW == <<"up", "w">>

\* task_a1: both processes inherit all four ends.
BidirectionalPipe ==
  [parent |-> << <<"close", {DownR}>>, <<"close", {UpW}>>, <<"write", "down">>,
                 <<"read", "up">>, <<"close", {DownW}>>, <<"close", {UpR}>>, <<"wait", "child">> >>,
   child  |-> << <<"close", {DownW}>>, <<"close", {UpR}>>, <<"read", "down">>,
                 <<"write", "up">>, <<"close", {DownR}>>, <<"close", {UpW}>> >>]

\* task_a2: ls | wc -l, with ls writing two lines.  In the mutant the parent keeps the
\* end for writing.
ShellPipelineParentKeeps == << <<"close", {DownR}>>, <<"wait", "ls">>, <<"wait", "wc">> >>
ShellPipelineParent ==
  << <<"close", {DownR}>>, <<"close", {DownW}>>, <<"wait", "ls">>, <<"wait", "wc">> >>
ShellPipeline ==
  [parent |-> ShellPipelineParent,
   ls     |-> << <<"dup", DownW>>, <<"close", {DownR}>>, <<"close", {DownW}>>,
                 <<"write", "down">>, <<"write", "down">> >>,
   wc     |-> << <<"dup", DownR>>, <<"close", {DownR}>>, <<"close", {DownW}>>,
                 <<"readAll", "down">> >>]

\* task_a3_p1 and task_a3_p2: fifo1 is down, fifo2 up.
TwoFifos ==
  [parent |-> << <<"open", DownW>>, <<"opened", DownW>>, <<"open", UpR>>, <<"opened", UpR>>,
                 <<"write", "down">>, <<"read", "up">>, <<"close", {DownW}>>, <<"close", {UpR}>> >>,
   child  |-> << <<"open", DownR>>, <<"opened", DownR>>, <<"open", UpW>>, <<"opened", UpW>>,
                 <<"read", "down">>, <<"write", "up">>, <<"close", {DownR}>>, <<"close", {UpW}>> >>]

\* task_b1: the child sleeps until the parent, as it hopes, is past step 1.  In the
\* mutant the parent reads before it has waited for the child.
SharedMemoryParentHurries ==
  << <<"store", "shm">>, <<"fetch", "shm">>, <<"wait", "child">>, <<"remove", "shm">> >>
SharedMemoryParent ==
  << <<"store", "shm">>, <<"wait", "child">>, <<"fetch", "shm">>, <<"remove", "shm">> >>
SharedMemory ==
  [parent |-> SharedMemoryParent,
   child  |-> << <<"sleep", 1>>, <<"fetch", "shm">>, <<"append", "shm">> >>]

\* task_c1: a socket is an end of both directions.
SocketPair ==
  [parent |-> << <<"close", {DownR, UpW}>>, <<"write", "down">>, <<"read", "up">>,
                 <<"close", {DownW, UpR}>>, <<"wait", "child">> >>,
   child  |-> << <<"close", {DownW, UpR}>>, <<"read", "down">>, <<"write", "up">>,
                 <<"close", {DownR, UpW}>> >>]

\* task_c2_server and two task_c2_client.  The mutant does not unlink what a server
\* that was killed has left behind.
StreamServerNoUnlink ==
  << <<"bind", "path">>, <<"listen", "path">>, <<"accept", "path">>, <<"readPeer", "peer">>,
     <<"writePeer", "peer">>, <<"closePeer", "peer">>, <<"closeListener", "path">>, <<"unlink", "path">> >>
StreamServer ==
  << <<"unlink", "path">>, <<"bind", "path">>, <<"listen", "path">>, <<"accept", "path">>,
     <<"readPeer", "peer">>, <<"writePeer", "peer">>, <<"closePeer", "peer">>, <<"closeListener", "path">>,
     <<"unlink", "path">> >>
StreamClient(up, down) ==
  << <<"connect", <<up, down>> >>, <<"write", up>>, <<"read", down>>,
     <<"close", {<<up, "w">>, <<down, "r">>}>> >>
StreamSockets ==
  [server |-> StreamServer,
   k1 |-> StreamClient("up", "down"), k2 |-> StreamClient("up2", "down2")]

\* task_c3_server, which never ends, and two task_c3_client, each with a path of its own.
DatagramClient(path) ==
  << <<"unlink", path>>, <<"bind", path>>, <<"sendTo", "path">>, <<"receive", path>>,
     <<"unlink", path>> >>
Datagrams ==
  [server |-> << <<"unlink", "path">>, <<"bind", "path">>, <<"receive", "path">>,
                 <<"reply", "peer">>, <<"again", 3>> >>,
   k1 |-> DatagramClient("path1"), k2 |-> DatagramClient("path2")]

\* task_d1.
MessageQueue ==
  [parent |-> << <<"msgsnd", 1>>, <<"wait", "child">>, <<"msgrcv", 2>>, <<"remove", "queue">> >>,
   child  |-> << <<"msgrcv", 1>>, <<"msgsnd", 2>> >>]

\* task_d2: the child hopes that the parent is past step 2.  The mutant leaves the
\* queue, with the message nobody receives.
NonBlockingReceiveParentLeaves ==
  << <<"msgsnd", 1>>, <<"tryMsgrcv", 2>>, <<"msgrcv", 2>>, <<"wait", "child">> >>
NonBlockingReceiveParent ==
  << <<"msgsnd", 1>>, <<"tryMsgrcv", 2>>, <<"msgrcv", 2>>, <<"wait", "child">>,
     <<"remove", "queue">> >>
NonBlockingReceive ==
  [parent |-> NonBlockingReceiveParent,
   child  |-> << <<"sleep", 2>>, <<"msgsnd", 2>> >>]

Programs ==
  [a1 |-> BidirectionalPipe, a2 |-> ShellPipeline, a3 |-> TwoFifos, b1 |-> SharedMemory,
   c1 |-> SocketPair, c2 |-> StreamSockets, c3 |-> Datagrams,
   d1 |-> MessageQueue, d2 |-> NonBlockingReceive]
=============================================================================
