--------------------------- MODULE MCCodexAdapter ---------------------------
(* Instances of CodexAdapter for TLC: how many faults there are while one call *)
(* was made, and while two were.                                               *)
EXTENDS CodexAdapter

MCMaxFaults == <<2, 1>>
MCNoFaults == <<0, 0>>
=============================================================================
