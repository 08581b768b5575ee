---------------------------- MODULE FencedLease ----------------------------
(***************************************************************************)
(* What cluster/cluster.js and the lease statements of the postgres driver *)
(* promise to whoever writes under a lease, with no clock, no heartbeat    *)
(* and no message in it.                                                   *)
(*                                                                         *)
(* A lease is granted over and over; the n-th grant is the tenure whose     *)
(* fencing token is n.  A transaction guarded by a set of leases commits   *)
(* only for the node whose tenure is the current one of each of them, so   *)
(* the tokens of the commits under one lease never go back.                *)
(***************************************************************************)
EXTENDS Naturals, Sequences

CONSTANTS Node,     \* node incarnations: an id is minted per process start
          Lease     \* lease names

VARIABLES granted,    \* granted[l]: the nodes granted l, in order of their tokens
          committed   \* committed[l]: the token of the last commit guarded by l

vars == <<granted, committed>>

Current(l, n) == Len(granted[l]) > 0 /\ granted[l][Len(granted[l])] = n

Init == /\ granted = [l \in Lease |-> <<>>]
        /\ committed = [l \in Lease |-> 0]

(* A new tenure: nothing says why the previous one ended. *)
Grant(l, n) == /\ granted' = [granted EXCEPT ![l] = Append(@, n)]
               /\ UNCHANGED committed

(* A commit by n under every lease of S at once. *)
Write(n, S) == /\ \A l \in S : Current(l, n)
               /\ committed' = [l \in Lease |-> IF l \in S THEN Len(granted[l])
                                                         ELSE committed[l]]
               /\ UNCHANGED granted

Next == \E n \in Node : \/ \E l \in Lease : Grant(l, n)
                        \/ \E S \in SUBSET Lease : Write(n, S)

Spec == Init /\ [][Next]_vars
=============================================================================
