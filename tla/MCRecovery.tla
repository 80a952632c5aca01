----------------------------- MODULE MCRecovery -----------------------------
(* Small instances of Recovery for TLC. *)
EXTENDS Recovery, TLC

CONSTANTS A, B, whole, dev, dev2, sc, cls

\* Nothing tells one function, or one descriptor, from another.
Symmetric == Permutations(Functions) \cup Permutations(Descriptors)

Rep(d, s, n, g, k, b) ==
  [dom |-> d, src |-> s, seq |-> n, gen |-> g, slots |-> {k}, body |-> b]

\* Topology from a source that repeats itself, contradicts itself and goes on; a
\* policy, a grant under it, a capability and an observation of another source.
SomeReports ==
  {Rep("Topology", A, 1, 1, whole, 1), Rep("Topology", A, 1, 2, whole, 2),
   Rep("Topology", A, 2, 2, whole, 1), Rep("Policy", A, 1, 1, whole, 1),
   Rep("Authority", A, 1, 1, dev, 1), Rep("Capability", B, 1, 1, dev, 1),
   Rep("Observation", B, 1, 1, dev, 1)}

\* Two devices report what they can do, one after the other.
TwoCapabilities ==
  {Rep("Capability", A, 1, 1, dev, 1), Rep("Capability", A, 2, 1, dev2, 1)}

Op(kind, i, repl, outcome) ==
  [kind |-> kind, target |-> i, key |-> <<sc, cls>>, repl |-> repl, hints |-> FALSE,
   outcome |-> outcome]

SomeOperations ==
  {Op("place", 0, FALSE, "None"), Op("place", 0, TRUE, "None"), Op("revoke", 1, FALSE, "None"),
   Op("reauthorize", 1, FALSE, "None"), Op("effect", 1, FALSE, "Rejected")}
=============================================================================
