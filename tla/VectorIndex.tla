----------------------------- MODULE VectorIndex -----------------------------
(***************************************************************************)
(* What a vector index promises its clients, without collections, rows and *)
(* workers: a map from keys to vectors that changes only by the clients'   *)
(* writes, that accepts writes while it is ready and none while its model  *)
(* is being changed, and that a deletion takes away for good.              *)
(*                                                                         *)
(* The promise is given up, for good, when a write or a change that was    *)
(* admitted before a change of the index acts after it (wild).             *)
(***************************************************************************)
CONSTANTS Keys, Vals, None

VARIABLES
    data,       \* the vectors a query is answered from
    phase,      \* "ready", "maintenance" or "deleted"
    wild        \* the promise is given up

absVars == <<data, phase, wild>>

AInit ==
    /\ data = [k \in Keys |-> None]
    /\ phase = "ready"
    /\ wild = FALSE

(* A put, or a deletion of a key. *)
Write(k, v) ==
    /\ phase = "ready"
    /\ data' = [data EXCEPT ![k] = v]
    /\ UNCHANGED <<phase, wild>>

(* A change of the model begins, or ends with or without success: nobody can tell. *)
Maintain ==
    /\ phase' \in {"ready", "maintenance"} /\ phase \in {"ready", "maintenance"}
    /\ UNCHANGED <<data, wild>>

Delete ==
    /\ phase' = "deleted"
    /\ data' = [k \in Keys |-> None]
    /\ UNCHANGED wild

GiveUp == wild'

ANext ==
    \/ ~wild /\ \E k \in Keys, v \in Vals \cup {None} : Write(k, v)
    \/ ~wild /\ (Maintain \/ Delete)
    \/ GiveUp

ASpec == AInit /\ [][ANext]_absVars

==============================================================================
