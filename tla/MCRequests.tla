----------------------------- MODULE MCRequests -----------------------------
(* Instance of Requests for TLC. *)
EXTENDS Requests

Request(i, p, o) == [id |-> i, payload |-> p, opcode |-> o]

\* A mutation, another one under its id, one that evicts it, a query under the id
\* of the first, and a compaction without one.
MCRequestSet == {Request(1, 1, "ack"), Request(1, 2, "ack"), Request(2, 1, "record"),
                 Request(1, 1, "read"), Request(0, 1, "maintain")}
=============================================================================
