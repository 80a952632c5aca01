------------------------------ MODULE Service ------------------------------
(***************************************************************************)
(* The threads of the network service, src/src/service.cpp: an acceptor, a *)
(* pool of workers that take connections from a bounded queue, and the     *)
(* main thread of nofd, which waits for a request to stop and then is in   *)
(* Server::stop, which finds the connections through a registry.           *)
(* A step is what a thread does in one critical section or one system      *)
(* call.  Sockets are known by the handle number the operating system      *)
(* gives out: the lowest one that is free, given out again after it is     *)
(* closed.  What is said on a connection is in module Requests; here a     *)
(* worker gets what a client sent and answers it in one step, and a client *)
(* that hangs up does so when the worker gets to know.                     *)
(***************************************************************************)
EXTENDS Integers, Sequences, FiniteSets

CONSTANTS
  Workers,         \* worker threads
  Conns,           \* connections the clients may open, 1..n in the order they do
  Handles,         \* handle numbers, 1..n
  MaxConnections,  \* config.max_connections
  MaxQueue         \* config.max_queue_depth

ASSUME ServiceAssumption ==
  /\ IsFiniteSet(Conns) /\ IsFiniteSet(Handles)
  /\ Conns = 1..Cardinality(Conns) /\ Handles = 1..Cardinality(Handles)
  /\ Cardinality(Handles) >= Cardinality(Conns)
  /\ {MaxConnections, MaxQueue} \subseteq Nat \ {0}

VARIABLES
  stopping,  \* impl.stopping
  stopper,   \* the main thread: [pc, requested, handles]
  acceptor,  \* [pc, handle]
  worker,    \* [Workers -> [pc, handle, id]]
  queue,     \* impl.queue: handles of connections no worker has taken yet
  registry,  \* impl.connections: connection id -> handle
  nextId,    \* impl.next_connection_id
  handles,   \* the connection each handle stands for, or Free
  link       \* each connection: "new", in the "backlog", "open" or "gone"

lifecycle == <<stopping, stopper>>
svars == <<lifecycle, acceptor, worker, queue, registry, nextId, handles, link>>

Free == 0

LowestFree == CHOOSE h \in Handles : /\ handles[h] = Free
                                     /\ \A g \in Handles : g < h => handles[g] # Free

Idle == [pc |-> "idle", handle |-> 0, id |-> 0]
AtTop == [pc |-> "top", handle |-> 0]

\* close(2): the number is free, whatever it stood for, and the connection is over.
CloseAll(closed) ==
  /\ handles' = [h \in Handles |-> IF h \in closed THEN Free ELSE handles[h]]
  /\ link' = [c \in Conns |-> IF \E h \in closed : handles[h] = c THEN "gone"
                              ELSE link[c]]

\* Server::start.
Init ==
  /\ stopping = FALSE
  /\ stopper = [pc |-> "check", requested |-> FALSE, handles |-> {}]
  /\ acceptor = AtTop
  /\ worker = [w \in Workers |-> Idle]
  /\ queue = <<>> /\ registry = [i \in {} |-> 0] /\ nextId = 0
  /\ handles = [h \in Handles |-> Free]
  /\ link = [c \in Conns |-> "new"]

-----------------------------------------------------------------------------
(* The wait of the main thread in nofd.cpp *)

\* The main thread has not called stop yet: it looks at g_stop_requested, has seen
\* that it is not set, or waits.
BeforeStop == {"check", "blocking", "waiting"}

\* request_stop sets g_stop_requested and notifies, without g_stop_mutex: a main
\* thread that is not in its wait yet does not hear of it.
StopRequested == [stopper EXCEPT !.requested = TRUE,
                                 !.pc = IF @ = "waiting" THEN "check" ELSE @]

\* SIGINT.
Signal ==
  /\ stopper' = StopRequested
  /\ UNCHANGED <<stopping, acceptor, worker, queue, registry, nextId, handles, link>>

MainWaits ==
  /\ \/ /\ stopper.pc = "check" /\ ~stopper.requested
        /\ stopper' = [stopper EXCEPT !.pc = "blocking"]
     \/ stopper.pc = "blocking" /\ stopper' = [stopper EXCEPT !.pc = "waiting"]
  /\ UNCHANGED <<stopping, acceptor, worker, queue, registry, nextId, handles, link>>

\* A condition variable may wake a thread for no reason.
MainWakes ==
  /\ stopper.pc = "waiting"
  /\ stopper' = [stopper EXCEPT !.pc = "check"]
  /\ UNCHANGED <<stopping, acceptor, worker, queue, registry, nextId, handles, link>>

-----------------------------------------------------------------------------
(* The clients *)

Connect(c) ==
  /\ link[c] = "new"
  /\ \A d \in Conns : d < c => link[d] # "new"
  /\ link' = [link EXCEPT ![c] = "backlog"]
  /\ UNCHANGED <<lifecycle, acceptor, worker, queue, registry, nextId, handles>>

-----------------------------------------------------------------------------
(* accept_loop *)

\* The acceptor looks at `stopping' before it waits in wait_readable, which
\* returns for the datagram of stop or for a connection, and again after it.
AcceptorWaits ==
  /\ acceptor.pc = "top" /\ ~stopping
  /\ acceptor' = [acceptor EXCEPT !.pc = "wait"]
  /\ UNCHANGED <<lifecycle, worker, queue, registry, nextId, handles, link>>

\* Mutant of WaitReturns: the datagram is not waited for.
WaitReturnsForConnections == \E c \in Conns : link[c] = "backlog"

WaitReturns == \/ stopper.pc \notin BeforeStop
               \/ \E c \in Conns : link[c] = "backlog"

AcceptorExits ==
  /\ stopping
  /\ acceptor.pc = "top" \/ (acceptor.pc = "wait" /\ WaitReturns)
  /\ acceptor' = [acceptor EXCEPT !.pc = "exited"]
  /\ UNCHANGED <<lifecycle, worker, queue, registry, nextId, handles, link>>

Accept(c) ==
  /\ acceptor.pc = "wait" /\ ~stopping /\ link[c] = "backlog"
  /\ acceptor' = [pc |-> "accepted", handle |-> LowestFree]
  /\ handles' = [handles EXCEPT ![LowestFree] = c]
  /\ link' = [link EXCEPT ![c] = "open"]
  /\ UNCHANGED <<lifecycle, worker, queue, registry, nextId>>

\* Mutant of RegistryFull: one connection too many.
RegistryFullOffByOne == Cardinality(DOMAIN registry) > MaxConnections

RegistryFull == Cardinality(DOMAIN registry) >= MaxConnections

\* Mutant of NewId: ids from 0, which stands for no entry.
NewIdFromZero == nextId

NewId == nextId + 1

\* Mutant of Refuse: the connection is forgotten, not closed.
RefuseSilently == UNCHANGED <<handles, link>>

Refuse == CloseAll({acceptor.handle})

\* A connection beyond the bound is closed; the others get an id.
Register ==
  /\ acceptor.pc = "accepted"
  /\ \/ /\ RegistryFull
        /\ Refuse
        /\ acceptor' = AtTop
        /\ UNCHANGED <<registry, nextId>>
     \/ /\ ~RegistryFull
        /\ nextId' = nextId + 1
        /\ registry' = [i \in DOMAIN registry \cup {NewId} |->
                          IF i = NewId THEN acceptor.handle ELSE registry[i]]
        /\ acceptor' = [acceptor EXCEPT !.pc = "registered"]
        /\ UNCHANGED <<handles, link>>
  /\ UNCHANGED <<lifecycle, worker, queue>>

Step(w, pc) == worker' = [worker EXCEPT ![w].pc = pc]

\* Mutant of NotifyOne: no worker is told.
NotifyNone == UNCHANGED worker

\* notify_one: a worker that waits looks again.
NotifyOne ==
  \/ \E w \in Workers : worker[w].pc = "waiting" /\ Step(w, "idle")
  \/ (\A w \in Workers : worker[w].pc # "waiting") /\ UNCHANGED worker

\* submit: a connection that is refused is closed with its Socket.
Submit ==
  /\ acceptor.pc = "registered"
  /\ \/ /\ stopping \/ Len(queue) >= MaxQueue
        /\ Refuse
        /\ acceptor' = [acceptor EXCEPT !.pc = "refused"]
        /\ UNCHANGED <<queue, worker>>
     \/ /\ ~stopping /\ Len(queue) < MaxQueue
        /\ queue' = Append(queue, acceptor.handle)
        /\ acceptor' = AtTop
        /\ NotifyOne
        /\ UNCHANGED <<handles, link>>
  /\ UNCHANGED <<lifecycle, registry, nextId>>

\* Mutant of LastEntry: the first entry.
FirstEntry == CHOOSE i \in DOMAIN registry : \A j \in DOMAIN registry : i <= j

LastEntry == CHOOSE i \in DOMAIN registry : \A j \in DOMAIN registry : j <= i

Without(i) == [j \in DOMAIN registry \ {i} |-> registry[j]]

\* After submit has refused, the entry with the largest id is taken back.
Unregister ==
  /\ acceptor.pc = "refused"
  /\ registry' = Without(LastEntry)
  /\ acceptor' = AtTop
  /\ UNCHANGED <<lifecycle, worker, queue, nextId, handles, link>>

-----------------------------------------------------------------------------
(* worker_loop and handle_connection *)

\* The wait on the queue: its predicate and what follows it hold the lock.
Take(w) ==
  /\ worker[w].pc = "idle"
  /\ \/ /\ queue # <<>>
        /\ worker' = [worker EXCEPT ![w].pc = "lookup", ![w].handle = Head(queue)]
        /\ queue' = Tail(queue)
     \/ /\ queue = <<>>
        /\ Step(w, IF stopping THEN "exited" ELSE "waiting")
        /\ UNCHANGED queue
  /\ UNCHANGED <<lifecycle, acceptor, registry, nextId, handles, link>>

\* As MainWakes.
SpuriousWakeup(w) ==
  /\ worker[w].pc = "waiting"
  /\ Step(w, "idle")
  /\ UNCHANGED <<lifecycle, acceptor, queue, registry, nextId, handles, link>>

\* The first entry with the socket's handle is taken for the connection's own.
Lookup(w) ==
  LET mine == {i \in DOMAIN registry : registry[i] = worker[w].handle} IN
  /\ worker[w].pc = "lookup"
  /\ worker' = [worker EXCEPT ![w].pc = "top",
                  ![w].id = IF mine = {} THEN 0
                            ELSE CHOOSE i \in mine : \A j \in mine : i <= j]
  /\ UNCHANGED <<lifecycle, acceptor, queue, registry, nextId, handles, link>>

\* The queue is looked at without its lock: a worker that is to stop may see it
\* empty although it is not.
Top(w) ==
  /\ worker[w].pc = "top"
  /\ \/ stopping /\ Step(w, "closing")
     \/ (~stopping \/ queue # <<>>) /\ Step(w, "recv")
  /\ UNCHANGED <<lifecycle, acceptor, queue, registry, nextId, handles, link>>

\* recv fails when the handle has been shut down or closed.
ReceiveFails(w) ==
  /\ worker[w].pc = "recv" /\ handles[worker[w].handle] = Free
  /\ Step(w, "closing")
  /\ UNCHANGED <<lifecycle, acceptor, queue, registry, nextId, handles, link>>

\* The client sends frames that are answered; or one that is refused or whose
\* answer cannot be sent, or it hangs up.
Serve(w) ==
  /\ worker[w].pc = "recv" /\ handles[worker[w].handle] # Free
  /\ Step(w, "top") \/ Step(w, "closing")
  /\ UNCHANGED <<lifecycle, acceptor, queue, registry, nextId, handles, link>>

\* After the answer to a shutdown the worker leaves at once: the socket is closed
\* by its destructor, the registry keeps the entry.  The hook is request_stop.
ServeShutdown(w) ==
  /\ worker[w].pc = "recv" /\ handles[worker[w].handle] # Free
  /\ stopping' = TRUE
  /\ CloseAll({worker[w].handle})
  /\ worker' = [worker EXCEPT ![w] = Idle]
  /\ stopper' = StopRequested
  /\ UNCHANGED <<acceptor, queue, registry, nextId>>

\* The socket is closed first, the registry entry goes in a later step.
Close(w) ==
  /\ worker[w].pc = "closing"
  /\ CloseAll({worker[w].handle})
  /\ Step(w, "erase")
  /\ UNCHANGED <<lifecycle, acceptor, queue, registry, nextId>>

\* Mutant of Erase: the Socket does not forget its handle and closes it again.
EraseAndCloseAgain(w) ==
  /\ worker[w].pc = "erase"
  /\ CloseAll({worker[w].handle})
  /\ registry' = Without(worker[w].id)
  /\ worker' = [worker EXCEPT ![w] = Idle]
  /\ UNCHANGED <<lifecycle, acceptor, queue, nextId>>

Erase(w) ==
  /\ worker[w].pc = "erase"
  /\ registry' = Without(worker[w].id)
  /\ worker' = [worker EXCEPT ![w] = Idle]
  /\ UNCHANGED <<lifecycle, acceptor, queue, nextId, handles, link>>

-----------------------------------------------------------------------------
(* Server::stop *)

NotifyAll == worker' = [w \in Workers |-> IF worker[w].pc = "waiting"
                                          THEN [worker[w] EXCEPT !.pc = "idle"]
                                          ELSE worker[w]]

\* The main thread finds that it is to stop; stop sends the datagram that ends the
\* acceptor's wait.
BeginStop ==
  /\ stopper.pc = "check" /\ stopper.requested
  /\ stopping' = TRUE
  /\ stopper' = [stopper EXCEPT !.pc = "notify"]
  /\ UNCHANGED <<acceptor, worker, queue, registry, nextId, handles, link>>

StopNotifies ==
  /\ stopper.pc = "notify"
  /\ NotifyAll
  /\ stopper' = [stopper EXCEPT !.pc = "joinAcceptor"]
  /\ UNCHANGED <<stopping, acceptor, queue, registry, nextId, handles, link>>

JoinAcceptor ==
  /\ stopper.pc = "joinAcceptor" /\ acceptor.pc = "exited"
  /\ stopper' = [stopper EXCEPT !.pc = "handles",
                                !.handles = {registry[i] : i \in DOMAIN registry}]
  /\ UNCHANGED <<stopping, acceptor, worker, queue, registry, nextId, handles, link>>

\* Each handle is put into a Socket of its own, shut down and, by the destructor,
\* closed, whether or not a worker still has it.
ShutHandle ==
  /\ stopper.pc = "handles"
  /\ \E h \in stopper.handles : /\ stopper' = [stopper EXCEPT !.handles = @ \ {h}]
                                /\ CloseAll({h})
  /\ UNCHANGED <<stopping, acceptor, worker, queue, registry, nextId>>

StopNotifiesAgain ==
  /\ stopper.pc = "handles" /\ stopper.handles = {}
  /\ NotifyAll
  /\ stopper' = [stopper EXCEPT !.pc = "joinWorkers"]
  /\ UNCHANGED <<stopping, acceptor, queue, registry, nextId, handles, link>>

\* The rest of the queue is closed and the registry cleared.
JoinWorkers ==
  /\ stopper.pc = "joinWorkers" /\ \A w \in Workers : worker[w].pc = "exited"
  /\ stopper' = [stopper EXCEPT !.pc = "stopped"]
  /\ CloseAll({queue[k] : k \in 1..Len(queue)})
  /\ queue' = <<>>
  /\ registry' = [i \in {} |-> 0]
  /\ UNCHANGED <<stopping, acceptor, worker, nextId>>

-----------------------------------------------------------------------------
(* The specification *)

\* What happens because a client wants it.
ClientStep == \/ \E c \in Conns : Connect(c)
              \/ \E w \in Workers : Serve(w) \/ ServeShutdown(w)

AcceptorStep == \/ AcceptorWaits
                \/ AcceptorExits
                \/ \E c \in Conns : Accept(c)
                \/ Register
                \/ Submit
                \/ Unregister

WorkerStep(w) == \/ Take(w)
                 \/ Lookup(w)
                 \/ Top(w)
                 \/ ReceiveFails(w)
                 \/ Close(w)
                 \/ Erase(w)

StopStep == \/ MainWaits
            \/ BeginStop
            \/ StopNotifies
            \/ JoinAcceptor
            \/ ShutHandle
            \/ StopNotifiesAgain
            \/ JoinWorkers

Next == \/ ClientStep
        \/ AcceptorStep
        \/ \E w \in Workers : WorkerStep(w) \/ SpuriousWakeup(w)
        \/ Signal
        \/ MainWakes
        \/ StopStep

\* The scheduler runs every thread that can go on.  The clients owe nothing, a
\* signal need not come, and no condition variable has to wake for no reason.
Fairness == /\ WF_svars(AcceptorStep)
            /\ \A w \in Workers : WF_svars(WorkerStep(w))
            /\ WF_svars(StopStep)

Spec == Init /\ [][Next]_svars /\ Fairness

-----------------------------------------------------------------------------
(* Properties *)

Serving == {"lookup", "top", "recv", "closing"}

\* The places that hold a connection: workers, and positions of the queue.
Held == {worker[w].handle : w \in {v \in Workers : worker[v].pc \in Serving}}
        \cup {queue[k] : k \in 1..Len(queue)}

Open == {h \in Held : handles[h] # Free}

\* Workers and queue hold handles, entries have handed-out ids.
TypeOK ==
  /\ stopping \in BOOLEAN /\ stopper.handles \subseteq Handles
  /\ \A w \in Workers : worker[w].handle \in Handles \cup {0} /\ worker[w].id \in 0..nextId
  /\ Held \subseteq Handles
  /\ DOMAIN registry \subseteq 1..nextId /\ \A i \in DOMAIN registry : registry[i] \in Handles
  /\ handles \in [Handles -> Conns \cup {Free}]

\* Every connection that is queued or served is in the registry, so that stop
\* finds it and ends the recv a worker waits in: although a worker takes the first
\* entry with its handle for its own and may erase one that is not.
OpenIsRegistered == \A h \in Open : \E i \in DOMAIN registry : registry[i] = h

\* When no connection is accepted, queued or served, no entry is left.  It does not
\* hold: a worker whose handle was used again before its entry went leaves its
\* successor's entry behind, and max_connections shrinks by one.
RegistryExact ==
  /\ ~stopping /\ acceptor.pc \in {"top", "wait"} /\ queue = <<>>
  /\ \A w \in Workers : worker[w].pc \in {"idle", "waiting"}
  => DOMAIN registry = {}

\* Never more connections than max_connections are queued or served.
ConnectionBound == Cardinality(Open) <= MaxConnections

\* A connection is held by one worker, or by one position of the queue, although
\* handle numbers are used again and stop closes handles that are not its own.
OneOwner ==
  /\ \A v, w \in Workers : v # w /\ {worker[v].pc, worker[w].pc} \subseteq Serving
                           /\ worker[v].handle \in Open => worker[v].handle # worker[w].handle
  /\ \A k \in 1..Len(queue) :
       handles[queue[k]] # Free =>
         /\ \A w \in Workers : worker[w].pc \in Serving => worker[w].handle # queue[k]
         /\ \A j \in 1..Len(queue) : queue[j] = queue[k] => j = k

\* When stop has returned, every connection that was accepted has been closed.
StoppedClean == stopper.pc = "stopped" => \A h \in Handles : handles[h] = Free

\* Once it is called stop returns: no thread is left in accept, in the wait for
\* the queue or in a recv that nothing ends.
StopReturns == stopper.pc \notin BeforeStop ~> stopper.pc = "stopped"

\* service.hpp:107, the hook lets "an embedding process ... begin teardown" when a peer
\* requests an orderly shutdown: a shutdown request stops nofd.
ShutdownStops == stopping ~> stopper.pc = "stopped"

\* A worker does not sleep for ever while a connection waits in the queue.
NoLostWakeup == []<>(queue = <<>> \/ \A w \in Workers : worker[w].pc # "waiting")
=============================================================================
