----------------------------- MODULE DurableLog -----------------------------
(***************************************************************************)
(* What the store promises the coordinator: a log of values that survives  *)
(* the process.  A value is in the log before its append is acknowledged;  *)
(* an append that was not acknowledged leaves the value in the log or not. *)
(* Nothing else changes the log, neither compaction nor recovery.          *)
(***************************************************************************)
EXTENDS Naturals, Sequences

CONSTANT Values

VARIABLES
  serving,  \* the store is open
  content   \* the values a recovery yields

lvars == <<serving, content>>

Init == serving = FALSE /\ content = <<>>

Recover == ~serving /\ serving' = TRUE /\ UNCHANGED content

Acknowledge(v) == serving /\ content' = Append(content, v) /\ UNCHANGED serving

\* The append fails, or the process dies in it: the outcome is in doubt.
InDoubt(v) ==
  /\ serving /\ serving' \in BOOLEAN
  /\ content' \in {content, Append(content, v)}

Leave == serving /\ serving' = FALSE /\ UNCHANGED content

Next ==
  \/ Recover \/ Leave
  \/ \E v \in Values : Acknowledge(v) \/ InDoubt(v)

Spec == Init /\ [][Next]_lvars
=============================================================================
