---------------------------- MODULE Interconnect ----------------------------
(***************************************************************************)
(* The five interconnects: a thread per sender calls sendMessage, which    *)
(* returns when the message is in a queue of its destination; any thread   *)
(* may call receiveMessage.  A step of a sender ends where it gives up a   *)
(* mutex or writes an atomic another thread reads.  Latencies are returned *)
(* to the caller and change nothing; they are left out, like the messages  *)
(* themselves except for their source and number.                          *)
(***************************************************************************)
EXTENDS Integers, Sequences, SequencesExt, FiniteSetsExt

CONSTANTS
  NumNodes,    \* numProcessors
  Width,       \* meshWidth and the width of the torus
  Topologies,  \* the interconnects to choose from
  Senders,     \* the processors that send
  Dests,       \* the destinations they send to; NumNodes is nobody's id
  Threshold,   \* the congestion level above which a router is congested, 10
  MaxSends,    \* bound of the model: the messages of all senders
  MaxConflicts \* bound of the model: the counted conflicts up to which threads wake up for nothing

\* The routes of a mesh whose last row is not full leave the mesh (README).
ASSUME InterconnectAssumption ==
  /\ NumNodes \in Nat \ {0} /\ Width \in Nat \ {0} /\ NumNodes % Width = 0
  /\ Topologies \subseteq {"Bus", "Crossbar", "Mesh", "Ring", "Torus"}
  /\ Senders \subseteq 0 .. NumNodes - 1 /\ Dests \subseteq 0 .. NumNodes
  /\ Threshold \in Nat /\ MaxSends \in Nat /\ MaxConflicts \in Nat

VARIABLES
  topology,     \* the interconnect
  pc, dest,     \* where each sender is, and whom it sends to
  at, hops,     \* mesh: the router a message has reached, and its hopCount
  number,       \* number[p][d]: how many messages p has sent, or is sending, to d
  busOccupied,  \* bus
  portOccupied, \* crossbar: the ports that are taken
  congestion,   \* mesh: congestionLevel of the routers
  queue,        \* queue[d]: what waits for d; every topology but the crossbar
  connections,  \* connections[s][d], crossbar
  totals,        \* the counters
  due           \* ghost: the messages and hops the counters have to show

threads == <<pc, dest, at, hops, number>>
networkVars == <<topology, pc, dest, at, hops, number, busOccupied, portOccupied, congestion,
          queue, connections, totals, due>>

Nodes == 0 .. NumNodes - 1
Height == NumNodes \div Width
NoStats == [messages |-> 0, hops |-> 0, conflicts |-> 0]

Places == {"idle", "arbitrate", "waiting", "woken", "hop", "deliver", "count", "release"}

NetworkInit ==
  /\ topology \in Topologies
  /\ pc = [p \in Senders |-> "idle"] /\ dest = [p \in Senders |-> p]
  /\ at = [p \in Senders |-> p] /\ hops = [p \in Senders |-> 0]
  /\ number = [p \in Senders |-> [d \in Dests |-> 0]]
  /\ busOccupied = FALSE
  /\ portOccupied = {}
  /\ congestion = [n \in Nodes |-> 0]
  /\ queue = [d \in Nodes |-> <<>>]
  /\ connections = [s \in Nodes |-> [d \in Nodes |-> <<>>]]
  /\ totals = NoStats
  /\ due = [messages |-> 0, hops |-> 0]

-----------------------------------------------------------------------------
\* calculateHops of ring and torus; the mutant only goes clockwise.
RingClockwise(s, d) == (d - s) % NumNodes
RingHops(s, d) ==
  LET clockwise == IF d >= s THEN d - s ELSE NumNodes - s + d
  IN IF s = d THEN 0 ELSE Min({clockwise, NumNodes - clockwise})

Apart(x, y) == Max({x - y, y - x})
Wrapped(x, y, size) == Min({Apart(x, y), size - Apart(x, y)})
TorusHops(s, d) ==
  Wrapped(s % Width, d % Width, Width) + Wrapped(s \div Width, d \div Width, Height)

\* The router after n on the route to d: first along the row, then the column.
NextRouter(n, d) ==
  IF n % Width # d % Width
    THEN IF n % Width < d % Width THEN n + 1 ELSE n - 1
    ELSE IF n < d THEN n + Width ELSE n - Width

\* The neighbours of a router, and from them the distance of every two: what the
\* formulas and the routes above have to agree with.
Neighbours(t, n) ==
  LET x == n % Width
      y == n \div Width
      Node(i, j) == ((j % Height) * Width) + (i % Width)
  IN CASE t = "Ring"  -> {(n + 1) % NumNodes, (n - 1) % NumNodes}
       [] t = "Torus" -> {Node(x + 1, y), Node(x - 1, y), Node(x, y + 1), Node(x, y - 1)}
       [] t = "Mesh"  -> {Node(q[1], q[2]) : q \in
                            {r \in (0 .. Width - 1) \X (0 .. Height - 1) :
                               Apart(r[1], x) + Apart(r[2], y) = 1}}
       [] OTHER       -> {}
Within(t, s) ==
  LET ball[k \in Nat] ==
        IF k = 0 THEN {s} ELSE ball[k - 1] \cup UNION {Neighbours(t, n) : n \in ball[k - 1]}
  IN ball
Distance ==
  [t \in {"Ring", "Torus", "Mesh"} |-> [s \in Nodes |-> [d \in Nodes |->
     Min({k \in 0 .. NumNodes : d \in Within(t, s)[k]})]]]

-----------------------------------------------------------------------------
\* Where the body of sendMessage starts, and what it adds to the counters in the
\* end: the crossbar refuses an unknown destination, the others count it.
FirstStep == CASE topology = "Bus"      -> "arbitrate"
               [] topology = "Crossbar" -> "arbitrate"
               [] topology = "Mesh"     -> "hop"
               [] OTHER                 -> "deliver"
FormulaHops(p, d) == CASE topology = "Ring"  -> RingHops(p, d)
                       [] topology = "Torus" -> TorusHops(p, d)
                       [] OTHER              -> 0
TrueHops(p, d) == IF d \in Nodes /\ topology \in DOMAIN Distance THEN Distance[topology][p][d]
                  ELSE FormulaHops(p, d)

Sent == MapThenSumSet(LAMBDA q : number[q[1]][q[2]], Senders \X Dests)

Go(p, place) == pc' = [pc EXCEPT ![p] = place]

Send(p, d) ==
  /\ pc[p] = "idle" /\ Sent < MaxSends
  /\ topology = "Mesh" => d \in Nodes
  /\ number' = [number EXCEPT ![p][d] = @ + 1]
  /\ IF topology = "Crossbar" /\ d \notin Nodes
       THEN UNCHANGED <<pc, dest, at, hops, due>>
       ELSE /\ Go(p, FirstStep)
            /\ dest' = [dest EXCEPT ![p] = d]
            /\ at' = [at EXCEPT ![p] = p]
            /\ hops' = [hops EXCEPT ![p] = FormulaHops(p, d)]
            /\ due' = [messages |-> due.messages + 1, hops |-> due.hops + TrueHops(p, d)]
  /\ UNCHANGED <<topology, busOccupied, portOccupied, congestion, queue, connections, totals>>

\* Bus: under busMutex_, take the bus or wait for it.  The mutant tests it once
\* and not again after a wake-up.
MayTakeOnce(p) == ~busOccupied \/ pc[p] = "woken"
MayTake(p) == ~busOccupied
TakeBus(p) ==
  /\ topology = "Bus" /\ pc[p] \in {"arbitrate", "woken"}
  /\ MayTake(p)
  /\ busOccupied' = TRUE
  /\ Go(p, "deliver")
  /\ UNCHANGED <<topology, dest, at, hops, number, portOccupied, congestion, queue,
                 connections, totals, due>>
WaitForBus(p) ==
  /\ topology = "Bus" /\ pc[p] \in {"arbitrate", "woken"}
  /\ ~MayTake(p)
  /\ Go(p, "waiting")
  /\ totals' = [totals EXCEPT !.conflicts = @ + 1]
  /\ UNCHANGED <<topology, dest, at, hops, number, busOccupied, portOccupied, congestion,
                 queue, connections, due>>
SpuriousWake(p) ==
  /\ pc[p] = "waiting" /\ totals.conflicts < MaxConflicts
  /\ Go(p, "woken")
  /\ UNCHANGED <<topology, dest, at, hops, number, busOccupied, portOccupied, congestion,
                 queue, connections, totals, due>>

\* Crossbar: take the port, or sleep for a while and go on without it.
TakePort(p) ==
  /\ topology = "Crossbar" /\ pc[p] = "arbitrate"
  /\ IF dest[p] \in portOccupied
       THEN totals' = [totals EXCEPT !.conflicts = @ + 1] /\ UNCHANGED portOccupied
       ELSE portOccupied' = portOccupied \cup {dest[p]} /\ UNCHANGED totals
  /\ Go(p, "deliver")
  /\ UNCHANGED <<topology, dest, at, hops, number, busOccupied, congestion, queue,
                 connections, due>>

\* Mesh: one hop.  The copy left in the input queue of the next router is read by
\* nobody, and left out.
Hop(p) ==
  /\ pc[p] = "hop" /\ at[p] # dest[p]
  /\ totals' = IF congestion[at[p]] > Threshold
                THEN [totals EXCEPT !.conflicts = @ + 1] ELSE totals
  /\ congestion' = [congestion EXCEPT ![at[p]] = @ + 1]
  /\ at' = [at EXCEPT ![p] = NextRouter(at[p], dest[p])]
  /\ hops' = [hops EXCEPT ![p] = @ + 1]
  /\ UNCHANGED <<topology, pc, dest, number, busOccupied, portOccupied, queue, connections, due>>
Arrived(p) == pc[p] = "deliver" \/ (pc[p] = "hop" /\ at[p] = dest[p])

\* The message goes into the queue of its destination, if there is such a one;
\* the mutant puts it in front.
Letter(p) == [source |-> p, number |-> number[p][dest[p]]]
EnqueuedInFront(q, m) == <<m>> \o q
Enqueued(q, m) == Append(q, m)
Deliver(p) ==
  /\ Arrived(p)
  /\ IF dest[p] \notin Nodes THEN UNCHANGED <<queue, connections>>
     ELSE IF topology = "Crossbar"
       THEN /\ connections' = [connections EXCEPT ![p][dest[p]] = Enqueued(@, Letter(p))]
            /\ UNCHANGED queue
       ELSE /\ queue' = [queue EXCEPT ![dest[p]] = Enqueued(@, Letter(p))]
            /\ UNCHANGED connections
  /\ Go(p, "count")
  /\ UNCHANGED <<topology, dest, at, hops, number, busOccupied, portOccupied, congestion, totals, due>>

\* The statistics, after the delivery.  Bus and crossbar then have to release what
\* they took.
CountSend(p) ==
  /\ pc[p] = "count"
  /\ totals' = [totals EXCEPT !.messages = @ + 1, !.hops = @ + hops[p]]
  /\ Go(p, IF topology \in {"Bus", "Crossbar"} THEN "release" ELSE "idle")
  /\ UNCHANGED <<topology, dest, at, hops, number, busOccupied, portOccupied, congestion, queue,
                 connections, due>>

\* notify_one, under the mutex: some waiter wakes up, if there is one.  The mutant
\* notifies nobody.
NotifiedNobody(p, w) == [pc EXCEPT ![p] = "idle"]
Notified(p, w) == [pc EXCEPT ![p] = "idle", ![w] = IF pc[w] = "waiting" THEN "woken" ELSE "idle"]
ReleaseBus(p) ==
  /\ topology = "Bus" /\ pc[p] = "release"
  /\ busOccupied' = FALSE
  /\ LET waiting == {w \in Senders : pc[w] = "waiting"} IN
     \E w \in IF waiting = {} THEN {p} ELSE waiting : pc' = Notified(p, w)
  /\ UNCHANGED <<topology, dest, at, hops, number, portOccupied, congestion, queue,
                 connections, totals, due>>

\* The port becomes free, whoever took it.
Released(p) == portOccupied \ {dest[p]}
ReleasePort(p) ==
  /\ topology = "Crossbar" /\ pc[p] = "release"
  /\ portOccupied' = Released(p)
  /\ Go(p, "idle")
  /\ UNCHANGED <<topology, dest, at, hops, number, busOccupied, congestion, queue,
                 connections, totals, due>>

-----------------------------------------------------------------------------
\* receiveMessage; the router of a mesh becomes less congested.
Relieved(c) == IF c > 0 THEN c - 1 ELSE c
Receive(d) ==
  /\ topology # "Crossbar" /\ queue[d] # <<>>
  /\ queue' = [queue EXCEPT ![d] = Tail(@)]
  /\ congestion' = IF topology = "Mesh" THEN [congestion EXCEPT ![d] = Relieved(@)]
                                         ELSE congestion
  /\ UNCHANGED <<topology, threads, busOccupied, portOccupied, connections, totals, due>>

\* The crossbar looks through its sources from the first one.
ReceiveFirst(d) ==
  /\ topology = "Crossbar" /\ \E s \in Nodes : connections[s][d] # <<>>
  /\ LET s == Min({r \in Nodes : connections[r][d] # <<>>}) IN
       connections' = [connections EXCEPT ![s][d] = Tail(@)]
  /\ UNCHANGED <<topology, threads, busOccupied, portOccupied, congestion, queue, totals, due>>

Quiet == \A p \in Senders : pc[p] = "idle"

\* resetStats, at any time and without a mutex: one store after the other.  What a
\* counter has shown is no longer due.
ResetTotals ==
  /\ \E c \in DOMAIN NoStats :
       /\ totals[c] # 0
       /\ totals' = [totals EXCEPT ![c] = 0]
       /\ due' = IF c \in DOMAIN due THEN [due EXCEPT ![c] = @ - totals[c]] ELSE due
  /\ UNCHANGED <<topology, threads, busOccupied, portOccupied, congestion, queue, connections>>

\* The senders have finished and everything is received.
Finished ==
  /\ Quiet /\ Sent = MaxSends
  /\ \A d \in Nodes : queue[d] = <<>> /\ \A s \in Nodes : connections[s][d] = <<>>
  /\ UNCHANGED networkVars

Continue(p) ==
  \/ TakeBus(p) \/ WaitForBus(p) \/ TakePort(p) \/ Hop(p) \/ Deliver(p) \/ CountSend(p)
  \/ ReleaseBus(p) \/ ReleasePort(p)

NetworkNext ==
  \/ \E p \in Senders : Continue(p) \/ SpuriousWake(p) \/ \E d \in Dests : Send(p, d)
  \/ \E d \in Nodes : Receive(d) \/ ReceiveFirst(d)
  \/ ResetTotals \/ Finished

NetworkSpec == NetworkInit /\ [][NetworkNext]_networkVars

\* A thread inside sendMessage goes on when it can; nothing makes one start.
FairSpec == NetworkSpec /\ \A p \in Senders : WF_networkVars(Continue(p))

-----------------------------------------------------------------------------
NetworkTypeOK ==
  /\ topology \in Topologies
  /\ pc \in [Senders -> Places]
  /\ dest \in [Senders -> 0 .. NumNodes] /\ at \in [Senders -> Nodes]
  /\ hops \in [Senders -> Nat] /\ number \in [Senders -> [Dests -> Nat]]
  /\ busOccupied \in BOOLEAN /\ portOccupied \subseteq Nodes
  /\ congestion \in [Nodes -> Nat]

\* One message at a time on the bus, and the flag is set exactly meanwhile.
OnBus == {p \in Senders : pc[p] \in {"deliver", "count", "release"}}
BusIsExclusive ==
  topology = "Bus" => /\ busOccupied <=> OnBus # {}
                      /\ \A p, q \in OnBus : p = q

\* Senders take ports without having waited for them and free ports others took;
\* still no port stays taken without somebody who is going to free it.
PortsComeFree ==
  \A d \in portOccupied : \E p \in Senders : dest[p] = d /\ pc[p] # "idle"

\* The links: who holds the bus or a port, and the congestion of the routers.
LinksAreSound == NetworkTypeOK /\ BusIsExclusive /\ PortsComeFree

\* Between sends the counters show every message sent since the last reset, and
\* the hops of the shortest path of each.
StatisticsAgree ==
  Quiet => totals.messages = due.messages /\ totals.hops = due.hops

\* Every sendMessage returns, also through the waits and wake-ups of the bus.
SendsReturn == \A p \in Senders : pc[p] # "idle" ~> pc[p] = "idle"

-----------------------------------------------------------------------------
\* The interconnects as mailboxes.  A letter is posted when it goes into a queue.
NumbersFrom(s, letters) ==
  LET upTo[i \in 0 .. Len(letters)] ==
        IF i = 0 THEN <<>>
        ELSE IF letters[i].source = s THEN Append(upTo[i - 1], letters[i].number)
        ELSE upTo[i - 1]
  IN upTo[Len(letters)]
Letters(s, d) == NumbersFrom(s, IF topology = "Crossbar" THEN connections[s][d] ELSE queue[d])
InFlight(s, d) == dest[s] = d /\ pc[s] \notin {"idle", "count", "release"}
Mail == INSTANCE Mailboxes WITH
          From   <- Senders,
          To     <- Dests \cap Nodes,
          box    <- [s \in Senders |-> [d \in Dests \cap Nodes |-> Letters(s, d)]],
          posted <- [s \in Senders |-> [d \in Dests \cap Nodes |->
                      IF InFlight(s, d) THEN number[s][d] - 1 ELSE number[s][d]]]

\* Whatever its topology and whoever sends at the same time, an interconnect loses
\* no message, delivers none twice and reorders none between two processors.
ImplementsMailboxes == Mail!BoxSpec
=============================================================================
