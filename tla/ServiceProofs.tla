--------------------------- MODULE ServiceProofs ---------------------------
(***************************************************************************)
(* The safety of the service's threads, for every number of workers,       *)
(* connections and handles and every bound.  The invariant says who holds  *)
(* a socket and which entry of the registry is its own:                    *)
(*  - a handle is held by one of the acceptor, a position of the queue and *)
(*    a worker, and as long as stop has not joined the acceptor a held     *)
(*    handle is open, so that the operating system does not give it out    *)
(*    again (Ownership);                                                   *)
(*  - an open handle is held by someone (NoLeak);                          *)
(*  - for each holder there is an entry that no worker is about to erase:  *)
(*    a worker that has closed the same number before it chose its entry   *)
(*    when this one did not exist yet (Registered).                        *)
(***************************************************************************)
EXTENDS Service, TLAPS, FiniteSetTheorems, WellFoundedInduction,
        SequenceTheorems

AcceptorPc == {"top", "wait", "accepted", "registered", "refused", "exited"}
WorkerPc == {"idle", "waiting", "lookup", "top", "recv", "closing", "erase", "exited"}
StopperPc == BeforeStop \cup {"notify", "joinAcceptor", "handles", "joinWorkers", "stopped"}

\* The acceptor has a connection in hand; the last of the three has closed it.
InHand == {"accepted", "registered", "refused"}

\* A worker that has looked its connection up in the registry.
HasId == {"top", "recv", "closing", "erase"}

\* stop has joined the acceptor: no handle is given out any more.
AcceptorJoined == stopper.pc \in {"handles", "joinWorkers", "stopped"}

WorkerState == [pc : WorkerPc, handle : Handles \cup {0}, id : Nat]
StopperState == [pc : StopperPc, requested : BOOLEAN, handles : SUBSET Handles]

Types ==
  /\ stopping \in BOOLEAN
  /\ stopper \in StopperState
  /\ acceptor \in [pc : AcceptorPc, handle : Handles \cup {0}]
  /\ worker \in [Workers -> WorkerState]
  /\ queue \in Seq(Handles)
  /\ nextId \in Nat
  /\ DOMAIN registry \subseteq 1..nextId
  /\ \A i \in DOMAIN registry : registry[i] \in Handles
  /\ handles \in [Handles -> Conns \cup {Free}]
  /\ link \in [Conns -> {"new", "backlog", "open", "gone"}]

\* The owners have a handle, and it is theirs alone.
Ownership ==
  /\ acceptor.pc \in InHand => acceptor.handle \in Handles
  /\ \A w \in Workers : worker[w].pc \in Serving =>
       /\ worker[w].handle \in Handles
       /\ acceptor.pc \in InHand => worker[w].handle # acceptor.handle
       /\ \A v \in Workers : worker[v].pc \in Serving /\ worker[v].handle = worker[w].handle
                             => v = w
  /\ \A k \in 1..Len(queue) :
       /\ acceptor.pc \in InHand => queue[k] # acceptor.handle
       /\ \A w \in Workers : worker[w].pc \in Serving => worker[w].handle # queue[k]
       /\ \A j \in 1..Len(queue) : queue[j] = queue[k] => j = k

HeldByAcceptor(h) == acceptor.pc \in {"accepted", "registered"} /\ acceptor.handle = h
HeldByWorker(h) == \E w \in Workers : worker[w].pc \in Serving /\ worker[w].handle = h
HeldByQueue(h) == \E k \in 1..Len(queue) : queue[k] = h

HolderOf(h) == HeldByAcceptor(h) \/ HeldByWorker(h) \/ HeldByQueue(h)

\* Only stop closes a handle that others hold.
HeldIsOpen == ~AcceptorJoined => \A h \in Handles : HolderOf(h) => handles[h] # Free

\* No socket is left without an owner that will close it.
NoLeak == \A h \in Handles : handles[h] # Free => HolderOf(h)

\* An open handle stands for a connection of its own.
OneHandle ==
  \A h \in Handles : handles[h] # Free =>
    /\ link[handles[h]] = "open"
    /\ \A g \in Handles : handles[g] = handles[h] => g = h

\* The entry a worker took for its own had its handle, and ids are not used again.
Ids == \A w \in Workers :
         /\ worker[w].id <= nextId
         /\ worker[w].pc \in HasId /\ worker[w].id \in DOMAIN registry
            => registry[worker[w].id] = worker[w].handle

\* The acceptor's entry is the last one as long as it may be taken back.
NewEntry == acceptor.pc \in {"registered", "refused"} =>
  /\ nextId \in DOMAIN registry /\ registry[nextId] = acceptor.handle
  /\ \A w \in Workers : worker[w].pc \in HasId => worker[w].id # nextId

\* Entry i is h's, and no worker that has closed its socket is going to erase it.
SafeEntry(h, i) == /\ i \in DOMAIN registry /\ registry[i] = h
                   /\ \A w \in Workers : worker[w].pc = "erase" => worker[w].id # i

Registered ==
  \A h \in Handles : HeldByWorker(h) \/ HeldByQueue(h)
                     \/ (acceptor.pc = "registered" /\ acceptor.handle = h)
                     => \E i \in DOMAIN registry : SafeEntry(h, i)

RegistryBounded == Cardinality(DOMAIN registry) <= MaxConnections

\* What stop has waited for stays so.
Joined == /\ AcceptorJoined => acceptor.pc = "exited"
          /\ stopper.pc = "stopped" => /\ queue = <<>>
                                       /\ \A w \in Workers : worker[w].pc = "exited"

ServiceInv == /\ Types /\ Ownership /\ HeldIsOpen /\ NoLeak /\ OneHandle
              /\ Ids /\ NewEntry /\ Registered /\ RegistryBounded /\ Joined

-----------------------------------------------------------------------------
(* Lemmas about the operators *)

\* A nonempty set of naturals has a least element.
LEMMA LeastNat ==
  ASSUME NEW S, S \subseteq Nat, S # {}
  PROVE  \E n \in S : \A m \in S : n <= m
<1>1. PICK n \in S : \A m \in S : <<m, n>> \notin OpToRel(<, Nat)
  BY NatLessThanWellFounded, WFMin, Zenon
<1>2. ASSUME NEW m \in S
      PROVE  n <= m
  <2>1. <<m, n>> \notin {p \in Nat \X Nat : p[1] < p[2]}
    BY <1>1 DEF OpToRel
  <2> QED BY <2>1
<1> QED BY <1>2

\* What the assumption on the constants says, without cardinalities.
LEMMA Constants ==
  /\ Conns \subseteq Nat \ {0} /\ Handles \subseteq Nat \ {0}
  /\ IsFiniteSet(Conns) /\ IsFiniteSet(Handles)
  /\ Cardinality(Conns) \in Nat /\ Cardinality(Handles) \in Nat
  /\ Cardinality(Handles) >= Cardinality(Conns)
  /\ MaxConnections \in Nat \ {0} /\ MaxQueue \in Nat \ {0}
BY ServiceAssumption, FS_CardinalityType

\* accept finds a free number as long as a connection waits in the backlog: the
\* open handles stand for different connections, and none of them for that one.
LEMMA LowestFreeIsFree ==
  ASSUME Types, OneHandle, NEW c \in Conns, link[c] = "backlog"
  PROVE  LowestFree \in Handles /\ handles[LowestFree] = Free
<1> DEFINE FreeOnes == {h \in Handles : handles[h] = Free}
<1>1. FreeOnes # {}
  <2> SUFFICES ASSUME FreeOnes = {}
               PROVE  FALSE
    OBVIOUS
  <2>1. handles \in Injection(Handles, Conns \ {c})
    <3>1. \A h \in Handles : handles[h] \in Conns \ {c}
      BY DEF Types, OneHandle
    <3>2. handles \in [Handles -> Conns \ {c}]
      BY <3>1 DEF Types
    <3>3. \A g, h \in Handles : handles[g] = handles[h] => g = h
      BY DEF OneHandle
    <3> QED BY <3>2, <3>3 DEF Injection, IsInjective
  <2>2. /\ IsFiniteSet(Conns \ {c})
        /\ Cardinality(Conns \ {c}) = Cardinality(Conns) - 1
    BY Constants, FS_RemoveElement
  <2>3. Cardinality(Handles) <= Cardinality(Conns \ {c})
    BY <2>1, <2>2, FS_Injection
  <2> QED BY <2>2, <2>3, Constants
<1>2. PICK h \in FreeOnes : \A g \in FreeOnes : h <= g
  <2>1. FreeOnes \subseteq Nat
    BY Constants
  <2> HIDE DEF FreeOnes
  <2> QED BY <1>1, <2>1, LeastNat
<1>3. \E l \in Handles : handles[l] = Free /\ \A g \in Handles : g < l => handles[g] # Free
  BY <1>2, Constants
<1> QED BY <1>3 DEF LowestFree

\* A worker takes an entry with its handle for its own, if there is one.
LEMMA FirstOfMine ==
  ASSUME NEW mine, mine \subseteq Nat, mine # {}
  PROVE  (CHOOSE i \in mine : \A j \in mine : i <= j) \in mine
BY LeastNat

\* The registry is finite.
LEMMA RegistryFinite ==
  ASSUME Types
  PROVE  IsFiniteSet(DOMAIN registry)
<1>1. IsFiniteSet(1..nextId)
  BY FS_Interval DEF Types
<1> QED BY <1>1, FS_Subset DEF Types

\* The id a worker takes is 0 or that of an entry with its handle.
LEMMA LookupEffect ==
  ASSUME Types, NEW w \in Workers, Lookup(w)
  PROVE  \E id \in 0..nextId :
           /\ worker' = [worker EXCEPT ![w] = [worker[w] EXCEPT !.pc = "top", !.id = id]]
           /\ id \in DOMAIN registry => registry[id] = worker[w].handle
<1> DEFINE mine == {i \in DOMAIN registry : registry[i] = worker[w].handle}
           first == IF mine = {} THEN 0 ELSE CHOOSE i \in mine : \A j \in mine : i <= j
<1>1. mine \subseteq Nat /\ mine \subseteq 1..nextId
  BY DEF Types
<1>2. first = 0 \/ first \in mine
  <2> HIDE DEF mine
  <2> QED BY <1>1, FirstOfMine
<1>3. worker' = [worker EXCEPT ![w].pc = "top", ![w].id = first]
  BY DEF Lookup
<1> HIDE DEF first
<1>4. worker' = [worker EXCEPT ![w] = [worker[w] EXCEPT !.pc = "top", !.id = first]]
  BY <1>3 DEF Types, WorkerState
<1>5. /\ first \in 0..nextId
      /\ first \in DOMAIN registry => registry[first] = worker[w].handle
  BY <1>1, <1>2 DEF Types
<1> QED BY <1>4, <1>5

-----------------------------------------------------------------------------
(* Types *)

\* The initial state has the types of the model.
LEMMA TypesInit == Init => Types
<1> SUFFICES ASSUME Init PROVE Types
  OBVIOUS
<1>1. worker \in [Workers -> WorkerState]
  BY DEF Init, Idle, WorkerState, WorkerPc
<1>3. /\ stopper \in StopperState
      /\ acceptor \in [pc : AcceptorPc, handle : Handles \cup {0}]
  BY DEF Init, AtTop, AcceptorPc, StopperState, StopperPc, BeforeStop
<1>4. DOMAIN registry = {} /\ queue \in Seq(Handles) /\ nextId \in Nat
  BY DEF Init
<1>2. /\ handles \in [Handles -> Conns \cup {Free}]
      /\ link \in [Conns -> {"new", "backlog", "open", "gone"}]
  BY DEF Init
<1> QED BY <1>1, <1>2, <1>3, <1>4 DEF Init, Types

\* Closing keeps the types of what the operating system knows.
LEMMA CloseAllTypes ==
  ASSUME Types, NEW closed, CloseAll(closed)
  PROVE  /\ handles' \in [Handles -> Conns \cup {Free}]
         /\ link' \in [Conns -> {"new", "backlog", "open", "gone"}]
BY DEF Types, CloseAll

\* A worker's step to another place keeps its type.
LEMMA StepTypes ==
  ASSUME Types, NEW w \in Workers, NEW pc \in WorkerPc, Step(w, pc)
  PROVE  worker' \in [Workers -> WorkerState]
<1>1. [worker[w] EXCEPT !.pc = pc] \in WorkerState
  BY DEF Types, WorkerState
<1>2. worker' = [worker EXCEPT ![w] = [worker[w] EXCEPT !.pc = pc]]
  BY DEF Step
<1> QED BY <1>1, <1>2 DEF Types

\* So do the notifications.
LEMMA NotifyTypes ==
  ASSUME Types, NotifyOne \/ NotifyAll
  PROVE  worker' \in [Workers -> WorkerState]
<1>1. CASE NotifyOne
  BY <1>1, StepTypes DEF NotifyOne, WorkerPc, Types
<1>2. CASE NotifyAll
  <2>1. ASSUME NEW w \in Workers
        PROVE  [worker[w] EXCEPT !.pc = "idle"]
                 \in WorkerState
    BY DEF Types, WorkerState, WorkerPc
  <2> QED BY <1>2, <2>1 DEF NotifyAll, Types
<1> QED BY <1>1, <1>2

\* The main thread's record after a request to stop.
LEMMA StopRequestedTypes ==
  ASSUME Types
  PROVE  StopRequested \in StopperState
BY DEF Types, StopRequested, StopperState, StopperPc, BeforeStop

\* The steps of the clients and of the main thread keep the types.
LEMMA TypesMain ==
  ASSUME Types, Signal \/ MainWakes \/ StopStep \/ \E c \in Conns : Connect(c)
  PROVE  Types'
<1>1. CASE Signal
  BY <1>1, StopRequestedTypes DEF Signal, Types
<1>2. CASE MainWakes \/ MainWaits \/ BeginStop
  BY <1>2 DEF MainWakes, MainWaits, BeginStop, Types, StopperState, StopperPc, BeforeStop
<1>3. CASE StopNotifies \/ StopNotifiesAgain
  BY <1>3, NotifyTypes DEF StopNotifies, StopNotifiesAgain, Types, StopperState, StopperPc
<1>4. CASE JoinAcceptor
  <2>1. {registry[i] : i \in DOMAIN registry} \in SUBSET Handles
    BY DEF Types
  <2>2. stopper' \in StopperState
    BY <1>4, <2>1 DEF JoinAcceptor, Types, StopperState, StopperPc
  <2> QED BY <1>4, <2>2 DEF JoinAcceptor, Types
<1>5. CASE ShutHandle
  BY <1>5, CloseAllTypes DEF ShutHandle, Types, StopperState
<1>6. CASE JoinWorkers
  <2>1. stopper' \in StopperState
    BY <1>6 DEF JoinWorkers, Types, StopperState, StopperPc
  <2>2. DOMAIN registry' = {} /\ queue' \in Seq(Handles)
    BY <1>6 DEF JoinWorkers
  <2> QED BY <1>6, <2>1, <2>2, CloseAllTypes DEF JoinWorkers, Types
<1>7. CASE \E c \in Conns : Connect(c)
  BY <1>7 DEF Connect, lifecycle, Types
<1> QED BY <1>1, <1>2, <1>3, <1>4, <1>5, <1>6, <1>7 DEF StopStep

\* The steps of the acceptor keep the types.
LEMMA TypesAcceptor ==
  ASSUME Types, Ownership, OneHandle, AcceptorStep
  PROVE  Types'
<1>1. CASE AcceptorWaits \/ AcceptorExits
  BY <1>1 DEF AcceptorWaits, AcceptorExits, lifecycle, Types, AcceptorPc
<1>2. ASSUME NEW c \in Conns, Accept(c)
      PROVE  Types'
  <2>1. LowestFree \in Handles
    BY <1>2, LowestFreeIsFree DEF Accept
  <2> QED BY <1>2, <2>1 DEF Accept, lifecycle, Types, AcceptorPc
<1>3. CASE Register
  <2>1. CASE RegistryFull
    BY <1>3, <2>1, CloseAllTypes DEF Register, Refuse, lifecycle, Types, AtTop, AcceptorPc
  <2>2. CASE ~RegistryFull
    <3>1. acceptor.handle \in Handles
      BY <1>3 DEF Register, Ownership, InHand
    <3>2. /\ DOMAIN registry' = DOMAIN registry \cup {nextId + 1}
          /\ \A i \in DOMAIN registry' :
               registry'[i] = IF i = nextId + 1 THEN acceptor.handle ELSE registry[i]
      BY <1>3, <2>2 DEF Register, NewId
    <3>3. /\ nextId' \in Nat /\ DOMAIN registry' \subseteq 1..nextId'
          /\ \A i \in DOMAIN registry' : registry'[i] \in Handles
      BY <1>3, <2>2, <3>1, <3>2 DEF Register, Types
    <3>4. acceptor' \in [pc : AcceptorPc, handle : Handles \cup {0}]
      BY <1>3, <2>2 DEF Register, Types, AcceptorPc
    <3> QED BY <1>3, <2>2, <3>3, <3>4 DEF Register, lifecycle, Types
  <2> QED BY <2>1, <2>2
<1>4. CASE Submit
  <2>1. CASE stopping \/ Len(queue) >= MaxQueue
    BY <1>4, <2>1, CloseAllTypes, Constants
       DEF Submit, Refuse, lifecycle, Types, AcceptorPc
  <2>2. CASE ~stopping /\ Len(queue) < MaxQueue
    <3>1. acceptor.handle \in Handles
      BY <1>4 DEF Submit, Ownership, InHand
    <3>2. queue' = Append(queue, acceptor.handle) /\ acceptor' = AtTop /\ NotifyOne
      BY <1>4, <2>2, Constants DEF Submit, Types
    <3>3. queue' \in Seq(Handles)
      BY <3>1, <3>2 DEF Types
    <3> QED BY <1>4, <2>2, <3>2, <3>3, NotifyTypes, Constants
            DEF Submit, lifecycle, Types, AtTop, AcceptorPc
  <2> QED BY <2>1, <2>2, Constants DEF Types
<1>5. CASE Unregister
  BY <1>5 DEF Unregister, Without, lifecycle, Types, AtTop, AcceptorPc
<1> QED BY <1>1, <1>2, <1>3, <1>4, <1>5 DEF AcceptorStep

\* The steps of a worker keep the types.
LEMMA TypesWorker ==
  ASSUME Types, NEW w \in Workers,
         WorkerStep(w) \/ SpuriousWakeup(w) \/ Serve(w) \/ ServeShutdown(w)
  PROVE  Types'
<1>1. CASE Take(w)
  <2>1. CASE queue # <<>>
    <3>1. Head(queue) \in Handles /\ queue' \in Seq(Handles)
      <4>1. queue \in Seq(Handles) /\ queue' = Tail(queue)
        BY <1>1, <2>1 DEF Take, Types
      <4> QED BY <2>1, <4>1, HeadTailProperties
    <3>2. [worker[w] EXCEPT !.pc = "lookup", !.handle = Head(queue)] \in WorkerState
      BY <3>1 DEF Types, WorkerState, WorkerPc
    <3>3. worker' = [worker EXCEPT ![w] = [worker[w] EXCEPT !.pc = "lookup",
                                                            !.handle = Head(queue)]]
      BY <1>1, <2>1 DEF Take
    <3> QED BY <1>1, <3>1, <3>2, <3>3 DEF Take, lifecycle, Types
  <2>2. CASE queue = <<>>
    BY <1>1, <2>2, StepTypes DEF Take, lifecycle, Types, WorkerPc
  <2> QED BY <2>1, <2>2
<1>2. CASE SpuriousWakeup(w) \/ Top(w) \/ ReceiveFails(w) \/ Serve(w)
  BY <1>2, StepTypes DEF SpuriousWakeup, Top, ReceiveFails, Serve, lifecycle, Types, WorkerPc
<1>3. CASE Lookup(w)
  <2>1. PICK id \in 0..nextId :
          worker' = [worker EXCEPT ![w] = [worker[w] EXCEPT !.pc = "top", !.id = id]]
    BY <1>3, LookupEffect
  <2>2. [worker[w] EXCEPT !.pc = "top", !.id = id] \in WorkerState
    BY <2>1, 0..nextId \subseteq Nat DEF Types, WorkerState, WorkerPc
  <2> QED BY <1>3, <2>1, <2>2 DEF Lookup, lifecycle, Types
<1>4. CASE Close(w)
  BY <1>4, StepTypes, CloseAllTypes DEF Close, lifecycle, Types, WorkerPc
<1>5. CASE Erase(w)
  BY <1>5 DEF Erase, Without, Idle, lifecycle, Types, WorkerState, WorkerPc
<1>6. CASE ServeShutdown(w)
  BY <1>6, CloseAllTypes, StopRequestedTypes DEF ServeShutdown, Idle, Types, WorkerState, WorkerPc
<1> QED BY <1>1, <1>2, <1>3, <1>4, <1>5, <1>6 DEF WorkerStep

-----------------------------------------------------------------------------
(* Steps that pass nothing on *)

\* No owner gets or loses a handle, no entry comes or goes.
QuietWorkers ==
  \A w \in Workers :
    /\ worker'[w].handle = worker[w].handle /\ worker'[w].id = worker[w].id
    /\ worker'[w].pc \in Serving <=> worker[w].pc \in Serving
    /\ worker'[w].pc \in HasId <=> worker[w].pc \in HasId
    /\ worker'[w].pc = "erase" <=> worker[w].pc = "erase"

Quiet ==
  /\ UNCHANGED <<queue, registry, nextId, handles>>
  /\ acceptor' = acceptor \/ {acceptor.pc, acceptor'.pc} \cap InHand = {}
  /\ QuietWorkers
  /\ \A c \in Conns : link[c] = "open" => link'[c] = "open"
  /\ AcceptorJoined => AcceptorJoined'

\* A quiet step keeps the invariant.
LEMMA QuietKeeps ==
  ASSUME ServiceInv, Types', Quiet, Joined'
  PROVE  ServiceInv'
<1> USE DEF ServiceInv, Quiet, QuietWorkers
<1>1. Ownership'
  BY DEF Ownership
<1>2. \A h \in Handles : HolderOf(h)' <=> HolderOf(h)
  BY DEF HolderOf, HeldByAcceptor, HeldByWorker, HeldByQueue, InHand
<1>3. HeldIsOpen' /\ NoLeak'
  BY <1>2 DEF HeldIsOpen, NoLeak
<1>4. OneHandle'
  BY DEF OneHandle, Types, Free
<1>5. Ids' /\ NewEntry'
  BY DEF Ids, NewEntry, InHand
<1>6. Registered'
  <2> SUFFICES ASSUME NEW h \in Handles,
                      (HeldByWorker(h) \/ HeldByQueue(h)
                       \/ (acceptor.pc = "registered" /\ acceptor.handle = h))'
               PROVE  \E i \in DOMAIN registry : SafeEntry(h, i)'
    BY DEF Registered
  <2>1. PICK i \in DOMAIN registry : SafeEntry(h, i)
    BY DEF Registered, HeldByWorker, HeldByQueue, InHand
  <2> QED BY <2>1 DEF SafeEntry
<1>7. RegistryBounded'
  BY DEF RegistryBounded
<1> QED BY <1>1, <1>3, <1>4, <1>5, <1>6, <1>7

\* A worker's step between places of the same kind is quiet.
LEMMA QuietStep ==
  ASSUME Types, NEW w \in Workers, NEW pc, Step(w, pc),
         pc \in Serving <=> worker[w].pc \in Serving,
         pc \in HasId <=> worker[w].pc \in HasId,
         pc # "erase", worker[w].pc # "erase"
  PROVE  QuietWorkers
<1>1. \A v \in Workers : worker'[v] = IF v = w THEN [worker[w] EXCEPT !.pc = pc] ELSE worker[v]
  BY DEF Step, Types
<1>2. \A v \in Workers : worker[v] \in WorkerState
  BY DEF Types
<1> QED BY <1>1, <1>2 DEF QuietWorkers, WorkerState

\* The notifications are quiet.
LEMMA QuietNotify ==
  ASSUME Types, NotifyOne \/ NotifyAll
  PROVE  QuietWorkers
<1>1. CASE NotifyOne
  <2>1. CASE UNCHANGED worker
    BY <2>1 DEF QuietWorkers
  <2>2. CASE \E w \in Workers : worker[w].pc = "waiting" /\ Step(w, "idle")
    BY <2>2, QuietStep DEF Serving, HasId
  <2> QED BY <1>1, <2>1, <2>2 DEF NotifyOne
<1>2. CASE NotifyAll
  <2>1. \A w \in Workers : worker[w] \in WorkerState
    BY DEF Types
  <2> QED BY <1>2, <2>1 DEF NotifyAll, QuietWorkers, WorkerState, Serving, HasId
<1> QED BY <1>1, <1>2

\* The quiet steps of the main thread, the clients and the acceptor.
LEMMA QuietMain ==
  ASSUME ServiceInv,
         \/ Signal \/ MainWaits \/ MainWakes \/ BeginStop
         \/ StopNotifies \/ JoinAcceptor \/ StopNotifiesAgain
         \/ AcceptorWaits \/ AcceptorExits \/ \E c \in Conns : Connect(c)
  PROVE  ServiceInv'
<1> USE DEF ServiceInv
<1>1. CASE Signal \/ MainWaits \/ MainWakes \/ BeginStop \/ JoinAcceptor
  <2>1. Types'
    BY <1>1, TypesMain DEF StopStep
  <2>2. /\ UNCHANGED <<acceptor, worker, queue, registry, nextId, handles, link>>
        /\ AcceptorJoined => AcceptorJoined'
        /\ stopper'.pc = "stopped" => stopper.pc = "stopped"
        /\ AcceptorJoined' => acceptor.pc = "exited"
    BY <1>1 DEF Signal, MainWaits, MainWakes, BeginStop, JoinAcceptor, StopRequested,
                AcceptorJoined, Joined, Types, StopperState
  <2>3. Quiet /\ Joined'
    BY <2>2 DEF Quiet, QuietWorkers, Joined
  <2> QED BY <2>1, <2>3, QuietKeeps
<1>2. CASE StopNotifies \/ StopNotifiesAgain
  <2>1. Types'
    BY <1>2, TypesMain DEF StopStep
  <2>2. /\ UNCHANGED <<acceptor, queue, registry, nextId, handles, link>>
        /\ NotifyAll
        /\ AcceptorJoined' <=> AcceptorJoined
        /\ stopper'.pc # "stopped"
    BY <1>2 DEF StopNotifies, StopNotifiesAgain, AcceptorJoined, Types, StopperState
  <2>3. Quiet /\ Joined'
    BY <2>2, QuietNotify DEF Quiet, Joined
  <2> QED BY <2>1, <2>3, QuietKeeps
<1>3. CASE AcceptorWaits \/ AcceptorExits
  <2>1. Types'
    BY <1>3, TypesAcceptor DEF AcceptorStep
  <2>2. /\ UNCHANGED <<stopper, worker, queue, registry, nextId, handles, link>>
        /\ acceptor.pc \in {"top", "wait"} /\ acceptor'.pc \in {"wait", "exited"}
    BY <1>3 DEF AcceptorWaits, AcceptorExits, lifecycle, Types
  <2>3. Quiet /\ Joined'
    BY <2>2 DEF Quiet, QuietWorkers, Joined, AcceptorJoined, InHand
  <2> QED BY <2>1, <2>3, QuietKeeps
<1>4. CASE \E c \in Conns : Connect(c)
  <2>1. Types'
    BY <1>4, TypesMain
  <2>2. /\ UNCHANGED <<stopper, acceptor, worker, queue, registry, nextId, handles>>
        /\ \A c \in Conns : link[c] = "open" => link'[c] = "open"
    BY <1>4 DEF Connect, lifecycle, Types
  <2>3. Quiet /\ Joined'
    BY <2>2 DEF Quiet, QuietWorkers, Joined, AcceptorJoined
  <2> QED BY <2>1, <2>3, QuietKeeps
<1> QED BY <1>1, <1>2, <1>3, <1>4

\* The quiet steps of a worker.
LEMMA QuietWorker ==
  ASSUME ServiceInv, NEW w \in Workers,
         \/ Take(w) /\ queue = <<>>
         \/ SpuriousWakeup(w) \/ Top(w) \/ ReceiveFails(w) \/ Serve(w)
  PROVE  ServiceInv'
<1> USE DEF ServiceInv
<1>1. Types'
  BY TypesWorker DEF WorkerStep
<1>2. UNCHANGED <<lifecycle, acceptor, queue, registry, nextId, handles, link>>
  BY DEF Take, SpuriousWakeup, Top, ReceiveFails, Serve
<1>3. /\ worker[w].pc # "exited"
      /\ \/ /\ worker[w].pc \in {"idle", "waiting"}
            /\ \E pc \in {"idle", "waiting", "exited"} : Step(w, pc)
         \/ /\ worker[w].pc \in {"top", "recv"}
            /\ \E pc \in {"top", "recv", "closing"} : Step(w, pc)
  BY DEF Take, SpuriousWakeup, Top, ReceiveFails, Serve
<1>4. QuietWorkers
  BY <1>3, QuietStep DEF Serving, HasId
<1>5. Quiet /\ Joined'
  BY <1>2, <1>3, <1>4 DEF Quiet, Joined, AcceptorJoined, lifecycle
<1> QED BY <1>1, <1>5, QuietKeeps

-----------------------------------------------------------------------------
(* The acceptor's steps *)

\* What close(2) does to the handles.
LEMMA CloseAllEffect ==
  ASSUME Types, OneHandle, NEW closed \in SUBSET Handles, CloseAll(closed)
  PROVE  /\ OneHandle'
         /\ \A h \in Handles : handles'[h] = IF h \in closed THEN Free ELSE handles[h]
<1>1. \A h \in Handles : handles'[h] = IF h \in closed THEN Free ELSE handles[h]
  BY DEF CloseAll
<1>2. ASSUME NEW h \in Handles, handles'[h] # Free
      PROVE  /\ link'[handles'[h]] = "open"
             /\ \A g \in Handles : handles'[g] = handles'[h] => g = h
  <2>1. handles'[h] = handles[h] /\ handles[h] \in Conns
    BY <1>1, <1>2 DEF Types
  <2>2. ~ \E g \in closed : handles[g] = handles[h]
    <3> SUFFICES ASSUME NEW g \in closed, handles[g] = handles[h]
                 PROVE  FALSE
      OBVIOUS
    <3> QED BY <1>1, <1>2, <2>1 DEF OneHandle
  <2>3. link'[handles[h]] = "open"
    BY <1>2, <2>1, <2>2 DEF CloseAll, OneHandle
  <2> QED BY <1>1, <1>2, <2>1, <2>3 DEF OneHandle
<1> QED BY <1>1, <1>2 DEF OneHandle

\* accept gives the acceptor a number nobody holds.
LEMMA AcceptKeeps ==
  ASSUME ServiceInv, NEW c \in Conns, Accept(c)
  PROVE  ServiceInv'
<1> DEFINE f == LowestFree
<1> USE DEF ServiceInv
<1>1. Types'
  BY TypesAcceptor DEF AcceptorStep
<1>2. f \in Handles /\ handles[f] = Free
  BY LowestFreeIsFree DEF Accept
<1> HIDE DEF f
<1>3. /\ acceptor.pc = "wait" /\ acceptor'.pc = "accepted" /\ acceptor'.handle = f
      /\ \A h \in Handles : handles'[h] = IF h = f THEN c ELSE handles[h]
      /\ \A d \in Conns : link'[d] = IF d = c THEN "open" ELSE link[d]
      /\ link[c] = "backlog"
      /\ UNCHANGED <<stopper, worker, queue, registry, nextId>>
  BY <1>2 DEF Accept, f, lifecycle, Types
<1>4. ~AcceptorJoined /\ AcceptorJoined' = AcceptorJoined
  BY <1>3 DEF Joined, AcceptorJoined
<1>5. ~HolderOf(f)
  BY <1>2, <1>4 DEF HeldIsOpen
<1>6. Ownership'
  BY <1>2, <1>3, <1>5 DEF Ownership, HolderOf, HeldByWorker, HeldByQueue, InHand
<1>7. \A h \in Handles : HolderOf(h)' <=> h = f \/ HolderOf(h)
  BY <1>3 DEF HolderOf, HeldByAcceptor, HeldByWorker, HeldByQueue
<1>8. HeldIsOpen' /\ NoLeak'
  BY <1>3, <1>4, <1>7, Constants DEF HeldIsOpen, NoLeak, Free
<1>9. OneHandle'
  BY <1>3, <1>2 DEF OneHandle, Types, Free
<1>10. Ids' /\ NewEntry' /\ RegistryBounded' /\ Joined'
  BY <1>3, <1>4 DEF Ids, NewEntry, RegistryBounded, Joined, AcceptorJoined
<1>11. Registered'
  BY <1>3 DEF Registered, SafeEntry, HeldByWorker, HeldByQueue
<1> QED BY <1>1, <1>6, <1>8, <1>9, <1>10, <1>11

\* Registered connections: a new entry or, at the bound, a refusal.
LEMMA RegisterKeeps ==
  ASSUME ServiceInv, Register
  PROVE  ServiceInv'
<1> USE DEF ServiceInv
<1>1. Types'
  BY TypesAcceptor DEF AcceptorStep
<1>2. /\ acceptor.pc = "accepted" /\ acceptor.handle \in Handles
      /\ UNCHANGED <<stopper, worker, queue>>
  BY DEF Register, Ownership, InHand, lifecycle
<1>3. ~AcceptorJoined /\ ~AcceptorJoined'
  BY <1>2 DEF Joined, AcceptorJoined
<1>4. CASE RegistryFull
  <2>1. /\ CloseAll({acceptor.handle}) /\ acceptor'.pc = "top"
        /\ UNCHANGED <<registry, nextId>>
    BY <1>4 DEF Register, Refuse, AtTop
  <2>2. /\ OneHandle'
        /\ \A h \in Handles : handles'[h] = IF h = acceptor.handle THEN Free ELSE handles[h]
    BY <1>2, <2>1, CloseAllEffect
  <2>3. Ownership'
    BY <1>2, <2>1 DEF Ownership, InHand
  <2>4. \A h \in Handles : HolderOf(h)' <=> HolderOf(h) /\ h # acceptor.handle
    BY <1>2, <2>1 DEF HolderOf, HeldByAcceptor, HeldByWorker, HeldByQueue, Ownership, InHand
  <2>5. HeldIsOpen' /\ NoLeak'
    BY <1>3, <2>2, <2>4 DEF HeldIsOpen, NoLeak
  <2>6. Ids' /\ NewEntry' /\ RegistryBounded' /\ Joined'
    BY <1>2, <1>3, <2>1 DEF Ids, NewEntry, RegistryBounded, Joined, AcceptorJoined
  <2>7. Registered'
    BY <1>2, <2>1 DEF Registered, SafeEntry, HeldByWorker, HeldByQueue
  <2> QED BY <1>1, <2>2, <2>3, <2>5, <2>6, <2>7
<1>5. CASE ~RegistryFull
  <2>1. /\ acceptor'.pc = "registered" /\ acceptor'.handle = acceptor.handle
        /\ nextId' = nextId + 1 /\ nextId + 1 \notin DOMAIN registry
        /\ DOMAIN registry' = DOMAIN registry \cup {nextId + 1}
        /\ \A i \in DOMAIN registry : registry'[i] = registry[i]
        /\ registry'[nextId + 1] = acceptor.handle
        /\ UNCHANGED <<handles, link>>
    BY <1>5 DEF Register, NewId, Types
  <2>2. Ownership'
    BY <1>2, <2>1 DEF Ownership, InHand
  <2>3. HeldIsOpen' /\ NoLeak'
    BY <1>2, <1>3, <2>1 DEF HeldIsOpen, NoLeak, HolderOf, HeldByAcceptor, HeldByWorker,
                            HeldByQueue
  <2>4. OneHandle'
    BY <2>1 DEF OneHandle
  <2>5. \A w \in Workers : worker[w].id \in Nat /\ worker[w].id <= nextId
    BY DEF Ids, Types, WorkerState
  <2>6. Ids' /\ NewEntry'
    BY <1>2, <2>1, <2>5 DEF Ids, NewEntry, Types
  <2>7. Registered'
    <3> SUFFICES ASSUME NEW h \in Handles,
                        (HeldByWorker(h) \/ HeldByQueue(h)
                         \/ (acceptor.pc = "registered" /\ acceptor.handle = h))'
                 PROVE  \E i \in DOMAIN registry' : SafeEntry(h, i)'
      BY DEF Registered
    <3>1. CASE h = acceptor.handle
      BY <1>2, <2>1, <2>5, <3>1 DEF SafeEntry, Types
    <3>2. CASE h # acceptor.handle
      <4>1. PICK i \in DOMAIN registry : SafeEntry(h, i)
        BY <1>2, <2>1, <3>2 DEF Registered, HeldByWorker, HeldByQueue
      <4> QED BY <1>2, <2>1, <4>1 DEF SafeEntry
    <3> QED BY <3>1, <3>2
  <2>8. RegistryBounded'
    <3>1. IsFiniteSet(DOMAIN registry)
      BY RegistryFinite
    <3>2. Cardinality(DOMAIN registry') = Cardinality(DOMAIN registry) + 1
      BY <2>1, <3>1, FS_AddElement
    <3> QED BY <1>5, <3>1, <3>2, FS_CardinalityType, Constants DEF RegistryFull, RegistryBounded
  <2>9. Joined'
    BY <1>2, <1>3 DEF Joined, AcceptorJoined
  <2> QED BY <1>1, <2>2, <2>3, <2>4, <2>6, <2>7, <2>8, <2>9
<1> QED BY <1>4, <1>5

\* submit: the connection goes to the queue, or is closed and to be taken back.
LEMMA SubmitKeeps ==
  ASSUME ServiceInv, Submit
  PROVE  ServiceInv'
<1> USE DEF ServiceInv
<1>1. Types'
  BY TypesAcceptor DEF AcceptorStep
<1>2. /\ acceptor.pc = "registered" /\ acceptor.handle \in Handles
      /\ UNCHANGED <<stopper, registry, nextId>>
  BY DEF Submit, Ownership, InHand, lifecycle
<1>3. ~AcceptorJoined /\ ~AcceptorJoined'
  BY <1>2 DEF Joined, AcceptorJoined
<1>4. RegistryBounded' /\ Joined'
  BY <1>2, <1>3 DEF RegistryBounded, Joined, AcceptorJoined
<1>5. CASE acceptor'.pc = "refused" /\ acceptor'.handle = acceptor.handle
           /\ CloseAll({acceptor.handle}) /\ UNCHANGED <<queue, worker>>
  <2>1. /\ OneHandle'
        /\ \A h \in Handles : handles'[h] = IF h = acceptor.handle THEN Free ELSE handles[h]
    BY <1>2, <1>5, CloseAllEffect
  <2>2. Ownership'
    BY <1>2, <1>5 DEF Ownership, InHand
  <2>3. \A h \in Handles : HolderOf(h)' <=> HolderOf(h) /\ h # acceptor.handle
    BY <1>2, <1>5 DEF HolderOf, HeldByAcceptor, HeldByWorker, HeldByQueue, Ownership, InHand
  <2>4. HeldIsOpen' /\ NoLeak'
    BY <1>3, <2>1, <2>3 DEF HeldIsOpen, NoLeak
  <2>5. Ids' /\ NewEntry'
    BY <1>2, <1>5 DEF Ids, NewEntry
  <2>6. Registered'
    BY <1>2, <1>5 DEF Registered, SafeEntry, HeldByWorker, HeldByQueue
  <2> QED BY <1>1, <1>4, <2>1, <2>2, <2>4, <2>5, <2>6
<1>6. CASE acceptor'.pc = "top" /\ queue' = Append(queue, acceptor.handle)
           /\ NotifyOne /\ UNCHANGED <<handles, link>>
  <2>1. QuietWorkers
    BY <1>6, QuietNotify
  <2>2. /\ Len(queue) \in Nat /\ Len(queue') = Len(queue) + 1
        /\ queue'[Len(queue) + 1] = acceptor.handle
        /\ \A k \in 1..Len(queue) : queue'[k] = queue[k]
    BY <1>2, <1>6 DEF Types
  <2>3. Ownership'
    BY <1>2, <1>6, <2>1, <2>2 DEF Ownership, InHand, QuietWorkers
  <2>4. /\ \A h : HeldByQueue(h)' <=> HeldByQueue(h) \/ h = acceptor.handle
        /\ \A h : HeldByWorker(h)' <=> HeldByWorker(h)
    <3>1. 1..Len(queue') = 1..Len(queue) \cup {Len(queue) + 1}
      BY <2>2
    <3> QED BY <2>1, <2>2, <3>1 DEF HeldByQueue, HeldByWorker, QuietWorkers
  <2>5. \A h : HolderOf(h)' <=> HolderOf(h)
    BY <1>2, <1>6, <2>4 DEF HolderOf, HeldByAcceptor
  <2>6. HeldIsOpen' /\ NoLeak' /\ OneHandle'
    BY <1>3, <1>6, <2>5 DEF HeldIsOpen, NoLeak, OneHandle
  <2>7. Ids' /\ NewEntry'
    BY <1>2, <1>6, <2>1 DEF Ids, NewEntry, QuietWorkers
  <2>8. \A h, i : SafeEntry(h, i)' <=> SafeEntry(h, i)
    BY <1>2, <2>1 DEF SafeEntry, QuietWorkers
  <2>9. Registered'
    BY <1>2, <1>6, <2>4, <2>8 DEF Registered
  <2> QED BY <1>1, <1>4, <2>3, <2>6, <2>7, <2>9
<1> QED BY <1>2, <1>5, <1>6, Constants DEF Submit, Refuse, AtTop, Types

\* The entry that is taken back is the acceptor's own.
LEMMA UnregisterKeeps ==
  ASSUME ServiceInv, Unregister
  PROVE  ServiceInv'
<1> USE DEF ServiceInv
<1>1. Types'
  BY TypesAcceptor DEF AcceptorStep
<1>2. LastEntry = nextId
  <2>1. nextId \in DOMAIN registry /\ \A j \in DOMAIN registry : j <= nextId
    BY DEF Unregister, NewEntry, Types
  <2>2. LastEntry \in DOMAIN registry /\ nextId <= LastEntry
    BY <2>1 DEF LastEntry
  <2> QED BY <2>1, <2>2 DEF Types
<1>3. /\ acceptor.pc = "refused" /\ acceptor'.pc = "top"
      /\ DOMAIN registry' = DOMAIN registry \ {nextId}
      /\ \A i \in DOMAIN registry' : registry'[i] = registry[i]
      /\ UNCHANGED <<stopper, worker, queue, nextId, handles, link>>
  BY <1>2 DEF Unregister, Without, AtTop, lifecycle
<1>4. Ownership' /\ HeldIsOpen' /\ NoLeak' /\ OneHandle'
  BY <1>3 DEF Ownership, HeldIsOpen, NoLeak, OneHandle, HolderOf, HeldByAcceptor,
              HeldByWorker, HeldByQueue, InHand, AcceptorJoined
<1>5. Ids' /\ NewEntry' /\ Joined'
  BY <1>3 DEF Ids, NewEntry, Joined, AcceptorJoined
<1>6. Registered'
  <2> SUFFICES ASSUME NEW h \in Handles, HeldByWorker(h) \/ HeldByQueue(h)
               PROVE  \E i \in DOMAIN registry' : SafeEntry(h, i)'
    BY <1>3 DEF Registered, HeldByWorker, HeldByQueue
  <2>1. PICK i \in DOMAIN registry : SafeEntry(h, i)
    BY DEF Registered
  <2>2. h # acceptor.handle
    BY <1>3 DEF Ownership, HeldByWorker, HeldByQueue, InHand
  <2>3. i # nextId
    BY <1>3, <2>1, <2>2 DEF SafeEntry, NewEntry
  <2> QED BY <1>3, <2>1, <2>3 DEF SafeEntry
<1>7. RegistryBounded'
  <2>1. Cardinality(DOMAIN registry') <= Cardinality(DOMAIN registry)
    BY <1>3, RegistryFinite, FS_Subset
  <2> QED BY <2>1, <1>1, RegistryFinite, FS_CardinalityType, <1>3, FS_Subset, Constants
          DEF RegistryBounded
<1> QED BY <1>1, <1>4, <1>5, <1>6, <1>7

-----------------------------------------------------------------------------
(* The workers' steps *)

\* A connection goes from the head of the queue to a worker.
LEMMA TakeKeeps ==
  ASSUME ServiceInv, NEW w \in Workers, Take(w), queue # <<>>
  PROVE  ServiceInv'
<1> USE DEF ServiceInv
<1>1. Types'
  BY TypesWorker DEF WorkerStep
<1>2. /\ worker[w].pc = "idle"
      /\ worker'[w].pc = "lookup" /\ worker'[w].handle = queue[1] /\ worker'[w].id = worker[w].id
      /\ \A v \in Workers : v # w => worker'[v] = worker[v]
      /\ queue' = Tail(queue)
      /\ UNCHANGED <<stopper, acceptor, registry, nextId, handles, link>>
  BY DEF Take, Types, WorkerState, lifecycle
<1>3. /\ Len(queue) \in Nat /\ 1 \in 1..Len(queue) /\ queue[1] \in Handles
      /\ \A k \in 1..Len(queue') : k + 1 \in 1..Len(queue) /\ queue'[k] = queue[k + 1]
      /\ \A k \in 1..Len(queue) : k # 1 => k - 1 \in 1..Len(queue') /\ queue'[k - 1] = queue[k]
  BY <1>2 DEF Types
<1>4. Ownership'
  <2>1. \A k \in 1..Len(queue') : queue'[k] # queue[1]
    BY <1>3 DEF Ownership
  <2>2. ASSUME NEW k \in 1..Len(queue')
        PROVE  /\ acceptor.pc \in InHand => queue'[k] # acceptor.handle
               /\ \A v \in Workers : worker[v].pc \in Serving => worker[v].handle # queue'[k]
               /\ \A j \in 1..Len(queue') : queue'[j] = queue'[k] => j = k
    BY <1>3 DEF Ownership
  <2>3. \A v \in Workers : worker[v].pc \in Serving => worker[v].handle # queue[1]
    BY <1>3 DEF Ownership
  <2>4. acceptor.pc \in InHand => queue[1] # acceptor.handle
    BY <1>3 DEF Ownership
  <2>5. \A v \in Workers :
          /\ worker'[v].pc \in Serving <=> v = w \/ worker[v].pc \in Serving
          /\ worker'[v].handle = IF v = w THEN queue[1] ELSE worker[v].handle
    BY <1>2 DEF Serving
  <2>6. UNCHANGED acceptor
    BY <1>2
  <2>7. ASSUME NEW v \in Workers, worker'[v].pc \in Serving
        PROVE  /\ worker'[v].handle \in Handles
               /\ acceptor.pc \in InHand => worker'[v].handle # acceptor.handle
               /\ \A u \in Workers : worker'[u].pc \in Serving
                                      /\ worker'[u].handle = worker'[v].handle => u = v
    BY <1>3, <2>3, <2>4, <2>5, <2>7 DEF Ownership
  <2>8. ASSUME NEW k \in 1..Len(queue'), NEW v \in Workers, worker'[v].pc \in Serving
        PROVE  worker'[v].handle # queue'[k]
    BY <2>1, <2>2, <2>5, <2>8
  <2>9. acceptor.pc \in InHand => acceptor.handle \in Handles
    BY DEF Ownership
  <2> QED BY <2>2, <2>6, <2>7, <2>8, <2>9 DEF Ownership
<1>5. \A h : HeldByWorker(h)' <=> HeldByWorker(h) \/ h = queue[1]
  BY <1>2 DEF HeldByWorker, Serving
<1>6. \A h : HeldByQueue(h) <=> HeldByQueue(h)' \/ h = queue[1]
  BY <1>3 DEF HeldByQueue
<1>7. \A h : HolderOf(h)' <=> HolderOf(h)
  BY <1>2, <1>5, <1>6 DEF HolderOf, HeldByAcceptor
<1>8. HeldIsOpen' /\ NoLeak' /\ OneHandle'
  BY <1>2, <1>7 DEF HeldIsOpen, NoLeak, OneHandle, AcceptorJoined
<1>9. Ids' /\ NewEntry' /\ RegistryBounded' /\ Joined'
  BY <1>2 DEF Ids, NewEntry, RegistryBounded, Joined, AcceptorJoined, HasId
<1>10. \A h, i : SafeEntry(h, i)' <=> SafeEntry(h, i)
  BY <1>2 DEF SafeEntry
<1>11. Registered'
  BY <1>2, <1>5, <1>6, <1>10 DEF Registered
<1> QED BY <1>1, <1>4, <1>8, <1>9, <1>11

\* A worker looks for its entry.
LEMMA LookupKeeps ==
  ASSUME ServiceInv, NEW w \in Workers, Lookup(w)
  PROVE  ServiceInv'
<1> USE DEF ServiceInv
<1>1. Types'
  BY TypesWorker DEF WorkerStep
<1>2. PICK id \in 0..nextId :
        /\ worker' = [worker EXCEPT ![w] = [worker[w] EXCEPT !.pc = "top", !.id = id]]
        /\ id \in DOMAIN registry => registry[id] = worker[w].handle
  BY LookupEffect
<1>3. /\ worker[w].pc = "lookup"
      /\ worker'[w].pc = "top" /\ worker'[w].handle = worker[w].handle /\ worker'[w].id = id
      /\ \A v \in Workers : v # w => worker'[v] = worker[v]
      /\ UNCHANGED <<stopper, acceptor, queue, registry, nextId, handles, link>>
  <2>1. /\ worker[w].pc = "lookup"
        /\ UNCHANGED <<lifecycle, acceptor, queue, registry, nextId, handles, link>>
    BY DEF Lookup
  <2>2. /\ worker'[w] = [worker[w] EXCEPT !.pc = "top", !.id = id]
        /\ \A v \in Workers : v # w => worker'[v] = worker[v]
    BY <1>2 DEF Types
  <2>3. worker[w] \in WorkerState
    BY DEF Types
  <2> QED BY <2>1, <2>2, <2>3 DEF WorkerState, lifecycle
<1>4. Ownership'
  BY <1>3 DEF Ownership, Serving
<1>5. \A h : HeldByWorker(h)' <=> HeldByWorker(h)
  BY <1>3 DEF HeldByWorker, Serving
<1>6. HeldIsOpen' /\ NoLeak' /\ OneHandle'
  BY <1>3, <1>5 DEF HeldIsOpen, NoLeak, OneHandle, HolderOf, HeldByAcceptor, HeldByQueue,
                    AcceptorJoined
<1>7. Ids'
  BY <1>2, <1>3 DEF Ids, HasId, Types
<1>8. NewEntry'
  <2>1. acceptor.pc \in InHand => worker[w].handle # acceptor.handle
    BY <1>3 DEF Ownership, Serving
  <2> QED BY <1>2, <1>3, <2>1 DEF NewEntry, InHand, HasId
<1>9. \A h, i : SafeEntry(h, i)' <=> SafeEntry(h, i)
  BY <1>3 DEF SafeEntry
<1>10. Registered'
  BY <1>3, <1>5, <1>9 DEF Registered, HeldByQueue
<1>11. RegistryBounded' /\ Joined'
  BY <1>3 DEF RegistryBounded, Joined, AcceptorJoined
<1> QED BY <1>1, <1>4, <1>6, <1>7, <1>8, <1>10, <1>11

\* A worker gives its connection up: its handle is closed, and what remains of it
\* is at most an entry it is going to erase.
LEMMA ReleaseKeeps ==
  ASSUME ServiceInv, Types', NEW w \in Workers, worker[w].pc \in {"recv", "closing"},
         CloseAll({worker[w].handle}),
         \/ worker'[w].pc = "idle" /\ worker'[w].id = 0
         \/ worker'[w].pc = "erase" /\ worker'[w].handle = worker[w].handle
            /\ worker'[w].id = worker[w].id,
         \A v \in Workers : v # w => worker'[v] = worker[v],
         UNCHANGED <<acceptor, queue, registry, nextId>>,
         AcceptorJoined' <=> AcceptorJoined,
         stopper'.pc = "stopped" => stopper.pc = "stopped"
  PROVE  ServiceInv'
<1> DEFINE h == worker[w].handle
<1> USE DEF ServiceInv
<1>1. h \in Handles /\ worker[w].pc \in Serving /\ worker'[w].pc \notin Serving
  BY DEF Ownership, Serving
<1>2. /\ OneHandle'
      /\ \A g \in Handles : handles'[g] = IF g = h THEN Free ELSE handles[g]
  BY <1>1, CloseAllEffect
<1>3. Ownership'
  BY <1>1 DEF Ownership
<1>4. \A g \in Handles : HolderOf(g)' <=> HolderOf(g) /\ g # h
  <2>1. \A g \in Handles : HeldByWorker(g)' <=> HeldByWorker(g) /\ g # h
    BY <1>1 DEF HeldByWorker, Ownership
  <2>2. ~HeldByQueue(h) /\ ~HeldByAcceptor(h)
    BY <1>1 DEF HeldByQueue, HeldByAcceptor, Ownership, InHand
  <2> QED BY <2>1, <2>2 DEF HolderOf, HeldByQueue, HeldByAcceptor
<1>5. HeldIsOpen' /\ NoLeak'
  BY <1>2, <1>4 DEF HeldIsOpen, NoLeak
<1>6. Ids' /\ NewEntry'
  BY DEF Ids, NewEntry, HasId, Types
<1>7. Registered'
  <2> SUFFICES ASSUME NEW g \in Handles,
                      (HeldByWorker(g) \/ HeldByQueue(g)
                       \/ (acceptor.pc = "registered" /\ acceptor.handle = g))'
               PROVE  \E i \in DOMAIN registry : SafeEntry(g, i)'
    BY DEF Registered
  <2>1. PICK i \in DOMAIN registry : SafeEntry(g, i)
    BY <1>1 DEF Registered, HeldByWorker, HeldByQueue
  <2>2. g # h
    BY <1>1 DEF HeldByWorker, HeldByQueue, Ownership, InHand
  <2>3. worker[w].id = i => registry[i] = h
    BY <2>1 DEF Ids, HasId
  <2> QED BY <2>1, <2>2, <2>3 DEF SafeEntry
<1>8. RegistryBounded' /\ Joined'
  BY <1>1 DEF RegistryBounded, Joined, Serving
<1> QED BY <1>2, <1>3, <1>5, <1>6, <1>7, <1>8

\* close, and the exit after a shutdown request.
LEMMA CloseKeeps ==
  ASSUME ServiceInv, NEW w \in Workers, Close(w) \/ ServeShutdown(w)
  PROVE  ServiceInv'
<1> USE DEF ServiceInv
<1>1. Types'
  BY TypesWorker DEF WorkerStep
<1>2. CASE Close(w)
  <2>1. /\ worker'[w].pc = "erase" /\ worker'[w].handle = worker[w].handle
        /\ worker'[w].id = worker[w].id
        /\ \A v \in Workers : v # w => worker'[v] = worker[v]
    BY <1>2 DEF Close, Step, Types, WorkerState
  <2> QED BY <1>1, <1>2, <2>1, ReleaseKeeps DEF Close, lifecycle, AcceptorJoined
<1>3. CASE ServeShutdown(w)
  <2>1. /\ worker'[w].pc = "idle" /\ worker'[w].id = 0
        /\ \A v \in Workers : v # w => worker'[v] = worker[v]
    BY <1>3 DEF ServeShutdown, Idle, Types
  <2>2. /\ AcceptorJoined' <=> AcceptorJoined
        /\ stopper'.pc = "stopped" => stopper.pc = "stopped"
    BY <1>3 DEF ServeShutdown, StopRequested, AcceptorJoined, Types, StopperState
  <2> QED BY <1>1, <1>3, <2>1, <2>2, ReleaseKeeps DEF ServeShutdown
<1> QED BY <1>2, <1>3

\* The entry a worker erases is no other owner's safe entry.
LEMMA EraseKeeps ==
  ASSUME ServiceInv, NEW w \in Workers, Erase(w)
  PROVE  ServiceInv'
<1> USE DEF ServiceInv
<1>1. Types'
  BY TypesWorker DEF WorkerStep
<1>2. /\ worker[w].pc = "erase" /\ worker'[w].pc = "idle" /\ worker'[w].id = 0
      /\ \A v \in Workers : v # w => worker'[v] = worker[v]
      /\ DOMAIN registry' = DOMAIN registry \ {worker[w].id}
      /\ \A i \in DOMAIN registry' : registry'[i] = registry[i]
      /\ UNCHANGED <<stopper, acceptor, queue, nextId, handles, link>>
  BY DEF Erase, Without, Idle, lifecycle, Types
<1>3. Ownership'
  BY <1>2 DEF Ownership, Serving
<1>4. \A h : HeldByWorker(h)' <=> HeldByWorker(h)
  BY <1>2 DEF HeldByWorker, Serving
<1>5. HeldIsOpen' /\ NoLeak' /\ OneHandle'
  BY <1>2, <1>4 DEF HeldIsOpen, NoLeak, OneHandle, HolderOf, HeldByAcceptor, HeldByQueue,
                    AcceptorJoined
<1>6. Ids' /\ NewEntry'
  BY <1>2 DEF Ids, NewEntry, HasId, Types
<1>7. \A h, i : SafeEntry(h, i) => SafeEntry(h, i)'
  BY <1>2 DEF SafeEntry
<1>8. Registered'
  BY <1>2, <1>4, <1>7 DEF Registered, HeldByQueue, SafeEntry
<1>9. RegistryBounded'
  <2>1. /\ Cardinality(DOMAIN registry') <= Cardinality(DOMAIN registry)
        /\ IsFiniteSet(DOMAIN registry')
    BY <1>2, RegistryFinite, FS_Subset
  <2> QED BY <2>1, RegistryFinite, FS_CardinalityType, Constants DEF RegistryBounded
<1>10. Joined'
  BY <1>2 DEF Joined, AcceptorJoined
<1> QED BY <1>1, <1>3, <1>5, <1>6, <1>8, <1>9, <1>10

-----------------------------------------------------------------------------
(* The steps of stop that close handles *)

\* stop closes a handle whoever holds it; no number is given out any more.
LEMMA ShutHandleKeeps ==
  ASSUME ServiceInv, ShutHandle
  PROVE  ServiceInv'
<1> USE DEF ServiceInv
<1>1. Types'
  BY TypesMain DEF StopStep
<1>2. PICK h \in stopper.handles : CloseAll({h})
  BY DEF ShutHandle
<1>3. /\ stopper.pc = "handles" /\ stopper'.pc = "handles" /\ h \in Handles
      /\ UNCHANGED <<acceptor, worker, queue, registry, nextId>>
  BY <1>2 DEF ShutHandle, Types, StopperState
<1>4. AcceptorJoined /\ AcceptorJoined'
  BY <1>3 DEF AcceptorJoined
<1>5. /\ OneHandle'
      /\ \A g \in Handles : handles'[g] = IF g = h THEN Free ELSE handles[g]
  BY <1>2, <1>3, CloseAllEffect
<1>6. Ownership' /\ HeldIsOpen'
  BY <1>3, <1>4 DEF Ownership, HeldIsOpen
<1>7. NoLeak'
  BY <1>3, <1>5 DEF NoLeak, HolderOf, HeldByAcceptor, HeldByWorker, HeldByQueue
<1>8. Ids' /\ NewEntry' /\ RegistryBounded' /\ Joined'
  BY <1>3, <1>4 DEF Ids, NewEntry, RegistryBounded, Joined
<1>9. Registered'
  BY <1>3 DEF Registered, SafeEntry, HeldByWorker, HeldByQueue
<1> QED BY <1>1, <1>5, <1>6, <1>7, <1>8, <1>9

\* When the workers are gone the queue is the only owner left.
LEMMA JoinWorkersKeeps ==
  ASSUME ServiceInv, JoinWorkers
  PROVE  ServiceInv'
<1> DEFINE queued == {queue[k] : k \in 1..Len(queue)}
<1> USE DEF ServiceInv
<1>1. Types'
  BY TypesMain DEF StopStep
<1>2. /\ stopper.pc = "joinWorkers" /\ stopper'.pc = "stopped"
      /\ \A w \in Workers : worker[w].pc = "exited"
      /\ CloseAll(queued) /\ queue' = <<>> /\ DOMAIN registry' = {}
      /\ UNCHANGED <<acceptor, worker, nextId>>
  BY DEF JoinWorkers, Types, StopperState
<1>3. AcceptorJoined /\ AcceptorJoined' /\ acceptor.pc = "exited"
  BY <1>2 DEF AcceptorJoined, Joined
<1>4. queued \in SUBSET Handles
  BY DEF Types
<1>5. /\ OneHandle'
      /\ \A g \in Handles : handles'[g] = IF g \in queued THEN Free ELSE handles[g]
  <2> HIDE DEF queued
  <2> QED BY <1>2, <1>4, CloseAllEffect
<1>6. \A g \in Handles : HolderOf(g) => g \in queued
  BY <1>2, <1>3 DEF HolderOf, HeldByAcceptor, HeldByWorker, HeldByQueue, Serving
<1>7. NoLeak' /\ HeldIsOpen'
  <2> HIDE DEF queued
  <2> QED BY <1>3, <1>5, <1>6 DEF NoLeak, HeldIsOpen
<1>8. Ownership' /\ Registered' /\ Joined'
  BY <1>2, <1>3 DEF Ownership, Registered, Joined, HeldByWorker, HeldByQueue, Serving, InHand
<1>9. Ids' /\ NewEntry'
  BY <1>2, <1>3 DEF Ids, NewEntry
<1>10. RegistryBounded'
  BY <1>2, FS_EmptySet, Constants DEF RegistryBounded
<1> QED BY <1>1, <1>5, <1>7, <1>8, <1>9, <1>10

-----------------------------------------------------------------------------
(* The theorems *)

\* The initial state satisfies the invariant.
LEMMA InvInit == Init => ServiceInv
<1> SUFFICES ASSUME Init PROVE ServiceInv
  OBVIOUS
<1>1. Types
  BY TypesInit
<1>2. /\ \A w \in Workers : worker[w].pc = "idle" /\ worker[w].id = 0
      /\ acceptor.pc = "top" /\ stopper.pc = "check" /\ Len(queue) = 0
      /\ \A h \in Handles : handles[h] = Free
      /\ DOMAIN registry = {} /\ nextId = 0
  BY DEF Init, Idle, AtTop
<1>3. Ownership /\ Registered
  BY <1>2 DEF Ownership, Registered, HeldByWorker, HeldByQueue, Serving, InHand
<1>4. HeldIsOpen /\ NoLeak /\ OneHandle
  BY <1>2 DEF HeldIsOpen, NoLeak, OneHandle, HolderOf, HeldByAcceptor, HeldByWorker,
              HeldByQueue, Serving
<1>5. Ids /\ NewEntry /\ Joined
  BY <1>2 DEF Ids, NewEntry, Joined, AcceptorJoined
<1>6. RegistryBounded
  BY <1>2, FS_EmptySet, Constants DEF RegistryBounded
<1> QED BY <1>1, <1>3, <1>4, <1>5, <1>6 DEF ServiceInv

\* Every step keeps the invariant.
LEMMA InvNext == ServiceInv /\ [Next]_svars => ServiceInv'
<1> SUFFICES ASSUME ServiceInv, [Next]_svars
             PROVE  ServiceInv'
  OBVIOUS
<1>1. CASE ClientStep
  BY <1>1, QuietMain, QuietWorker, CloseKeeps DEF ClientStep
<1>2. CASE AcceptorStep
  BY <1>2, QuietMain, AcceptKeeps, RegisterKeeps, SubmitKeeps, UnregisterKeeps DEF AcceptorStep
<1>3. ASSUME NEW w \in Workers, WorkerStep(w) \/ SpuriousWakeup(w)
      PROVE  ServiceInv'
  BY <1>3, QuietWorker, TakeKeeps, LookupKeeps, CloseKeeps, EraseKeeps DEF WorkerStep
<1>4. CASE Signal \/ MainWakes
  BY <1>4, QuietMain
<1>5. CASE StopStep
  BY <1>5, QuietMain, ShutHandleKeeps, JoinWorkersKeeps DEF StopStep
<1>6. CASE UNCHANGED svars
  BY <1>6 DEF svars, lifecycle, ServiceInv, Types, Ownership, HeldIsOpen, NoLeak, OneHandle,
              Ids, NewEntry, Registered, RegistryBounded, Joined, HolderOf, HeldByAcceptor,
              HeldByWorker, HeldByQueue, SafeEntry, AcceptorJoined
<1> QED BY <1>1, <1>2, <1>3, <1>4, <1>5, <1>6 DEF Next

\* The invariant of the service's threads: who holds a socket, and which entry of the
\* registry is its own (accept_loop, submit, worker_loop, handle_connection, stop).
THEOREM ServiceInvariant == Spec => []ServiceInv
BY InvInit, InvNext, PTL DEF Spec

\* What is held is held by workers and by the queue.
LEMMA HeldIsHandle ==
  ASSUME ServiceInv, NEW h \in Held
  PROVE  h \in Handles /\ (HeldByWorker(h) \/ HeldByQueue(h))
BY DEF ServiceInv, Held, HeldByWorker, HeldByQueue, Ownership, Types

\* Workers and queue hold handles, and the entries of the registry have ids that were
\* handed out (the state of Server::Impl).
THEOREM ServiceTypeOK == Spec => []TypeOK
<1>1. ServiceInv => TypeOK
  <2> SUFFICES ASSUME ServiceInv PROVE TypeOK
    OBVIOUS
  <2>1. Held \subseteq Handles
    BY HeldIsHandle
  <2>2. \A w \in Workers : worker[w].handle \in Handles \cup {0} /\ worker[w].id \in 0..nextId
    BY DEF ServiceInv, Types, WorkerState, Ids
  <2> QED BY <2>1, <2>2 DEF ServiceInv, Types, StopperState, TypeOK
<1> QED BY <1>1, ServiceInvariant, PTL

\* Every open connection that is queued or served has an entry in the registry, so
\* that stop finds it, although handle_connection takes the first entry with its
\* handle for its own and may erase another connection's.
THEOREM ServiceOpenIsRegistered == Spec => []OpenIsRegistered
<1>1. ServiceInv => OpenIsRegistered
  BY HeldIsHandle DEF OpenIsRegistered, Open, ServiceInv, Registered, SafeEntry
<1> QED BY <1>1, ServiceInvariant, PTL

\* Never more than max_connections connections are queued or served: their entries in
\* the registry, which accept_loop bounds, are different ones.
THEOREM ServiceConnectionBound == Spec => []ConnectionBound
<1>1. ServiceInv => ConnectionBound
  <2> SUFFICES ASSUME ServiceInv PROVE ConnectionBound
    OBVIOUS
  <2> DEFINE entry == [h \in Open |-> CHOOSE i \in DOMAIN registry : registry[i] = h]
  <2>1. \A h \in Open : entry[h] \in DOMAIN registry /\ registry[entry[h]] = h
    BY HeldIsHandle DEF Open, ServiceInv, Registered, SafeEntry
  <2>2. entry \in Injection(Open, DOMAIN registry)
    BY <2>1 DEF Injection, IsInjective
  <2>3. IsFiniteSet(DOMAIN registry)
    BY RegistryFinite DEF ServiceInv
  <2>4. IsFiniteSet(Open) /\ Cardinality(Open) <= Cardinality(DOMAIN registry)
    BY <2>2, <2>3, FS_Injection
  <2> QED BY <2>3, <2>4, FS_CardinalityType, Constants DEF ServiceInv, RegistryBounded, ConnectionBound
<1> QED BY <1>1, ServiceInvariant, PTL

\* A connection is held by one worker or one position of the queue, although handle
\* numbers are used again and stop closes handles that are not its own.
THEOREM ServiceOneOwner == Spec => []OneOwner
<1>1. ServiceInv => OneOwner
  BY DEF ServiceInv, Ownership, OneOwner
<1> QED BY <1>1, ServiceInvariant, PTL

\* When stop has returned every connection that was accepted has been closed.
THEOREM ServiceStoppedClean == Spec => []StoppedClean
<1>1. ServiceInv => StoppedClean
  <2> SUFFICES ASSUME ServiceInv, stopper.pc = "stopped", NEW h \in Handles
               PROVE  ~HolderOf(h)
    BY DEF StoppedClean, ServiceInv, NoLeak
  <2> QED BY DEF ServiceInv, Joined, AcceptorJoined, HolderOf, HeldByAcceptor, HeldByWorker,
                 HeldByQueue, Serving
<1> QED BY <1>1, ServiceInvariant, PTL
=============================================================================
