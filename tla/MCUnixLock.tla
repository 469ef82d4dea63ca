----------------------------- MODULE MCUnixLock -----------------------------
(* Two processes with two connections each. *)
EXTENDS UnixLock
CONSTANTS a1, a2, b1, b2, pa, pb
MCProcOf == [c \in Conns |-> IF c \in {b1, b2} THEN pb ELSE pa]
=============================================================================
