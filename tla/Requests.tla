------------------------------ MODULE Requests ------------------------------
(***************************************************************************)
(* Requests and responses of the network service, src/src/service.cpp:     *)
(* the frame decoder, the cache of responses by request id, the execution  *)
(* of the opcodes, and the loop of handle_connection that goes with them.  *)
(* Each worker serves one connection after another; how it gets them, and  *)
(* the shutdown opcode, are in module Service.  A frame is two pieces that *)
(* may arrive separately.  A request is [id, payload, opcode]; the opcodes *)
(* come in four groups, by what handle_request does after the call of the  *)
(* coordinator, whose verdict is open.                                     *)
(***************************************************************************)
EXTENDS Integers, Sequences, FiniteSets

CONSTANTS
  Workers,    \* worker threads
  Requests,   \* the frames clients may send
  MaxCache,   \* bounds.max_idempotency_entries
  MaxSent     \* bound: frames all clients send together

\* "ack": register, ingest, grant, withdraw, with an empty response that is cached;
\* "record": report, apply, revoke, replace, reauthorize, whose record is encoded
\* and cached; "read": hello, ping, plan and the queries; "maintain": revalidate and
\* compact, which change state and are not cached.
Opcodes == {"ack", "record", "read", "maintain"}

ASSUME RequestsAssumption ==
  /\ Requests \subseteq [id : Nat, payload : Nat, opcode : Opcodes]
  /\ MaxCache \in Nat \ {0} /\ MaxSent \in Nat

VARIABLES
  conn,       \* [Workers -> the connection it serves and how far it is]
  cache,      \* impl.cache: request id -> the request answered
  cacheOrder, \* impl.cache_order
  sends,      \* frames sent so far
  carried,    \* history: how often each request was carried out, wholly or in part
  excused     \* history: ids evicted, looked up by two workers at once, or answered
              \* with an error after an effect

responses == <<cache, cacheOrder>>
history == <<carried, excused>>
rvars == <<conn, responses, sends, history>>

None == [id |-> 0, payload |-> 0, opcode |-> "none"]
NoAnswer == "none"
Piece(r, n) == [request |-> r, part |-> n]
Garbage == [part |-> 0]  \* a piece that is no part of a frame

\* pc: in "recv", decoding "frames", about to "execute", "remember" or "reply".
\* incoming: sent and not yet received; buffer: the decoder's; unanswered: what the
\* client has sent and not got an answer to.
Fresh == [pc |-> "recv", incoming |-> <<>>, buffer |-> <<>>, unanswered |-> <<>>,
          request |-> None, answer |-> NoAnswer]

Init ==
  /\ conn = [w \in Workers |-> Fresh]
  /\ cache = [i \in {} |-> None] /\ cacheOrder = <<>>
  /\ sends = 0
  /\ carried = [r \in Requests |-> 0] /\ excused = {}

-----------------------------------------------------------------------------
(* The clients *)

\* encode_frame and Client::send.
Send(w, r) ==
  /\ sends < MaxSent /\ sends' = sends + 1
  /\ conn' = [conn EXCEPT ![w].incoming = @ \o <<Piece(r, 1), Piece(r, 2)>>,
                          ![w].unanswered = Append(@, r)]
  /\ UNCHANGED <<responses, history>>

SendGarbage(w) ==
  /\ sends < MaxSent /\ sends' = sends + 1
  /\ conn' = [conn EXCEPT ![w].incoming = Append(@, Garbage)]
  /\ UNCHANGED <<responses, history>>

\* The client hangs up or stop shuts the connection down: recv ends, and whatever
\* is still to be sent is not; a request that is being executed is not given up.
Cut(w) ==
  /\ conn[w].pc \in {"recv", "reply"}
  /\ conn' = [conn EXCEPT ![w] = Fresh]
  /\ UNCHANGED <<responses, sends, history>>

-----------------------------------------------------------------------------
(* FrameDecoder *)

Whole(buffer) == Len(buffer) >= 2 /\ buffer[1].part = 1

Broken(buffer) == buffer # <<>> /\ buffer[1].part # 1

\* Mutant of Rest: a frame leaves nothing of the buffer.
RestDropped(buffer) == <<>>

\* What is left of the buffer after next has taken a frame.
Rest(buffer) == SubSeq(buffer, 3, Len(buffer))

\* receive_bytes and feed: some of what has been sent arrives.
Receive(w) ==
  /\ conn[w].pc = "recv"
  /\ \E n \in 1..Len(conn[w].incoming) :
       conn' = [conn EXCEPT ![w].pc = "frames",
                            ![w].buffer = @ \o SubSeq(conn[w].incoming, 1, n),
                            ![w].incoming = SubSeq(@, n + 1, Len(@))]
  /\ UNCHANGED <<responses, sends, history>>

\* No whole frame is left: the worker receives again.
AwaitMore(w) ==
  /\ conn[w].pc = "frames"
  /\ ~Whole(conn[w].buffer) /\ ~Broken(conn[w].buffer)
  /\ conn' = [conn EXCEPT ![w].pc = "recv"]
  /\ UNCHANGED <<responses, sends, history>>

\* A frame that does not decode ends the connection.
RefuseFrame(w) ==
  /\ conn[w].pc = "frames" /\ Broken(conn[w].buffer)
  /\ conn' = [conn EXCEPT ![w] = Fresh]
  /\ UNCHANGED <<responses, sends, history>>

-----------------------------------------------------------------------------
(* handle_request *)

Cached(r) == r.id # 0 /\ r.id \in DOMAIN cache

\* Mutant of SameRequest: the digest is of the opcode alone.
SameOpcode(r, entry) == r.opcode = entry.opcode

\* The digest of a request is that of its opcode and payload.
SameRequest(r, entry) == r.payload = entry.payload /\ r.opcode = entry.opcode

\* A mutation with this id is between its lookup and its entry in the cache.
UnderWay(w, r) == \E v \in Workers \ {w} : /\ conn[v].pc \in {"execute", "remember"}
                                           /\ conn[v].request.id = r.id
                                           /\ {conn[v].request.opcode, r.opcode}
                                                \subseteq {"ack", "record"}

\* next takes a frame; the cache is looked up under its lock.
Lookup(w) ==
  LET r == conn[w].buffer[1].request
      answer == IF SameRequest(r, cache[r.id]) THEN "ok" ELSE "duplicate" IN
  /\ conn[w].pc = "frames" /\ Whole(conn[w].buffer)
  /\ \/ /\ Cached(r)
        /\ conn' = [conn EXCEPT ![w].buffer = Rest(@), ![w].request = r,
                                ![w].pc = "reply", ![w].answer = answer]
        /\ UNCHANGED history
     \/ /\ ~Cached(r)
        /\ conn' = [conn EXCEPT ![w].buffer = Rest(@), ![w].request = r,
                                ![w].pc = "execute"]
        /\ excused' = IF UnderWay(w, r) THEN excused \cup {r.id} ELSE excused
        /\ UNCHANGED carried
  /\ UNCHANGED <<responses, sends>>

\* Mutant of Cacheable: the groups that return a record are forgotten.
CacheableAcks(r) == r.id # 0 /\ r.opcode = "ack"

\* The calls of remember: not for id 0, not where no effect is to be repeated.
Cacheable(r) == r.id # 0 /\ r.opcode \in {"ack", "record"}

\* The payload does not decode or the coordinator refuses: nothing has changed.
ExecuteFails(w) ==
  /\ conn[w].pc = "execute"
  /\ conn' = [conn EXCEPT ![w].pc = "reply", ![w].answer = "error"]
  /\ UNCHANGED <<responses, sends, history>>

Executed(w, pc) ==
  /\ conn[w].pc = "execute"
  /\ conn' = [conn EXCEPT ![w].pc = pc, ![w].answer = "ok"]
  /\ carried' = [carried EXCEPT ![conn[w].request] = @ + 1]
  /\ UNCHANGED <<responses, sends, excused>>

AfterEffect(r) == IF Cacheable(r) THEN "remember" ELSE "reply"

ExecuteAck(w) ==
  /\ conn[w].request.opcode = "ack"
  /\ Executed(w, AfterEffect(conn[w].request))

ExecuteRecord(w) ==
  /\ conn[w].request.opcode = "record"
  /\ Executed(w, AfterEffect(conn[w].request))

ExecuteRead(w) ==
  /\ conn[w].request.opcode = "read"
  /\ Executed(w, "reply")

ExecuteMaintain(w) ==
  /\ conn[w].request.opcode = "maintain"
  /\ Executed(w, "reply")

\* An effect, and then an error: the evidence is committed and its source marked
\* before revalidate_now fails, a replacement has superseded the holder before the
\* append of the new record fails, or the record does not fit into the response.
\* Nothing is remembered.
ExecuteThenFails(w) ==
  LET r == conn[w].request IN
  /\ conn[w].pc = "execute" /\ r.opcode # "read"
  /\ conn' = [conn EXCEPT ![w].pc = "reply", ![w].answer = "error"]
  /\ carried' = [carried EXCEPT ![r] = @ + 1]
  /\ excused' = IF r.opcode = "maintain" THEN excused ELSE excused \cup {r.id}
  /\ UNCHANGED <<responses, sends>>

\* Mutant of EvictOne: the oldest is read after it has been popped.
EvictOneLate(c) ==
  [order |-> Tail(c.order),
   entries |-> [i \in DOMAIN c.entries \ {Head(Tail(c.order))} |-> c.entries[i]]]

\* One round of the eviction loop: the oldest id goes, and its entry.
EvictOne(c) ==
  [order |-> Tail(c.order),
   entries |-> [i \in DOMAIN c.entries \ {Head(c.order)} |-> c.entries[i]]]

\* The loop looks at the size before each round.
Round(c) == IF Cardinality(DOMAIN c.entries) > MaxCache THEN EvictOne(c) ELSE c

Evict(c) ==
  LET evict[n \in 0..Len(c.order)] == IF n = 0 THEN c ELSE Round(evict[n - 1])
  IN evict[Len(c.order)]

\* remember: the entry is put under its id, the id is queued whether or not it is
\* queued already.
Remember(w) ==
  LET r == conn[w].request
      filled == [i \in DOMAIN cache \cup {r.id} |-> IF i = r.id THEN r ELSE cache[i]]
      kept == Evict([order |-> Append(cacheOrder, r.id), entries |-> filled]) IN
  /\ conn[w].pc = "remember"
  /\ conn' = [conn EXCEPT ![w].pc = "reply"]
  /\ cache' = kept.entries /\ cacheOrder' = kept.order
  /\ excused' = excused \cup (DOMAIN filled \ DOMAIN kept.entries)
  /\ UNCHANGED <<sends, carried>>

\* Mutant of Reply: the worker receives again after every answer.
ReplyAndReceive(w) ==
  /\ conn[w].pc = "reply"
  /\ conn' = [conn EXCEPT ![w].pc = "recv", ![w].request = None, ![w].answer = NoAnswer,
                          ![w].unanswered = Tail(@)]
  /\ UNCHANGED <<responses, sends, history>>

\* The answer is sent and the next frame of the buffer looked at.
Reply(w) ==
  /\ conn[w].pc = "reply"
  /\ conn' = [conn EXCEPT ![w].pc = "frames", ![w].request = None, ![w].answer = NoAnswer,
                          ![w].unanswered = Tail(@)]
  /\ UNCHANGED <<responses, sends, history>>

-----------------------------------------------------------------------------
(* The specification *)

ClientStep(w) == (\E r \in Requests : Send(w, r)) \/ SendGarbage(w) \/ Cut(w)

WorkerStep(w) == \/ Receive(w)
                 \/ AwaitMore(w)
                 \/ RefuseFrame(w)
                 \/ Lookup(w)
                 \/ ExecuteFails(w)
                 \/ ExecuteAck(w)
                 \/ ExecuteRecord(w)
                 \/ ExecuteRead(w)
                 \/ ExecuteMaintain(w)
                 \/ ExecuteThenFails(w)
                 \/ Remember(w)
                 \/ Reply(w)

Next == \E w \in Workers : ClientStep(w) \/ WorkerStep(w)

\* The scheduler runs every worker that can go on; the clients owe nothing.
Fairness == \A w \in Workers : WF_rvars(WorkerStep(w))

Spec == Init /\ [][Next]_rvars /\ Fairness

-----------------------------------------------------------------------------
(* Properties *)

\* A mutation takes effect once under its request id, whoever repeats it on which
\* connection, unless the answer was evicted, the effect was followed by an error,
\* or two workers looked the id up before either had an answer.
EffectOnce ==
  \A r, q \in {s \in Requests : s.id # 0 /\ s.opcode \in {"ack", "record"}} :
    r.id = q.id /\ r.id \notin excused => /\ carried[r] <= 1
                                          /\ r # q => carried[r] + carried[q] <= 1

\* A client that is told "ok" has had this very request carried out, one that is
\* told of a duplicate has used the id of another one that was.
AnswerIsTrue ==
  \A w \in Workers : conn[w].pc = "reply" =>
    LET r == conn[w].request IN
    /\ conn[w].answer = "ok" => carried[r] > 0
    /\ conn[w].answer = "duplicate" => \E q \in Requests \ {r} : q.id = r.id /\ carried[q] > 0

\* docs/protocol.md, "Idempotency and duplicates": a duplicate delivery of the
\* identical request replays the identical response instead of taking effect twice:
\* nobody executes a mutation whose response is in the cache.
DuplicateReplays ==
  \A w \in Workers :
    LET r == conn[w].request IN
    conn[w].pc = "execute" /\ Cacheable(r) /\ Cached(r) => ~SameRequest(r, cache[r.id])

\* Every cached answer is in the order of eviction: cache_order is never empty when
\* an entry has to go, and the cache stays within its bound.
EvictionFindsEntry ==
  /\ \A i \in DOMAIN cache : \E k \in 1..Len(cacheOrder) : cacheOrder[k] = i
  /\ Cardinality(DOMAIN cache) <= MaxCache

\* The requests whose frames begin among these pieces, in their order.
RequestsIn(pieces) ==
  LET upTo[n \in 0..Len(pieces)] ==
        IF n = 0 THEN <<>>
        ELSE IF pieces[n].part = 1 THEN Append(upTo[n - 1], pieces[n].request)
        ELSE upTo[n - 1]
  IN upTo[Len(pieces)]

\* The answers on a connection are those of its requests in the order sent, however
\* the bytes arrive: the one in work is the oldest unanswered, and the decoder and
\* the wire hold the others.
AnsweredInOrder ==
  \A w \in Workers :
    LET working == IF conn[w].pc \in {"execute", "remember", "reply"}
                   THEN <<conn[w].request>> ELSE <<>> IN
    conn[w].unanswered = working \o RequestsIn(conn[w].buffer \o conn[w].incoming)

\* A request that has arrived whole is answered, or its connection ends: none stays
\* in the buffer until the client sends more.
ArrivedIsAnswered ==
  \A w \in Workers :
    (conn[w].pc = "frames" /\ Whole(conn[w].buffer))
      ~> (conn[w].pc = "recv" /\ ~Whole(conn[w].buffer))
=============================================================================
