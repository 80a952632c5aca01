----------------------------- MODULE MCService -----------------------------
(* Instance of Service for TLC: with three connections the bound of two is  *)
(* met, and the first one's handle is used again.                           *)
EXTENDS Service

MCConns == 1..3
MCHandles == 1..3
=============================================================================
