----------------------------- MODULE OnceOnly ------------------------------
(***************************************************************************)
(* What cluster/cluster_claims.js promises whoever accepts a single-use    *)
(* value: however many requests present it, and wherever, it buys          *)
(* something for one of them, and that one is never taken back.            *)
(***************************************************************************)
EXTENDS FiniteSets

CONSTANTS Value,     \* single-use values: a code, a proof's jti, an artifact
          Attempt    \* the requests that present them

VARIABLE bought      \* bought[v]: the requests v has bought something for

Init == bought = [v \in Value |-> {}]

Buy(v, a) == /\ bought[v] = {}
             /\ bought' = [bought EXCEPT ![v] = {a}]

Next == \E v \in Value, a \in Attempt : Buy(v, a)

Spec == Init /\ [][Next]_bought
=============================================================================
