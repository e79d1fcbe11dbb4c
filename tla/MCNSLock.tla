------------------------------ MODULE MCNSLock ------------------------------
(* Two gateways: the first with two goroutines and two lock objects. *)
EXTENDS NSLock, TLC

CONSTANTS p1, p2, g1, g2, g3, a1, a2, b1

MCProcOf == (g1 :> p1) @@ (g2 :> p1) @@ (g3 :> p2)
MCLockerProc == (a1 :> p1) @@ (a2 :> p1) @@ (b1 :> p2)

=============================================================================
