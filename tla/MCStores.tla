------------------------------ MODULE MCStores -------------------------------
(***************************************************************************)
(* Small instances of the modules about processes that share one store:    *)
(* Directory, Minted, Counters, StoreLocks and RequestPool.  They share no *)
(* variable: a behaviour is one of one of the Parts.                       *)
(***************************************************************************)
EXTENDS Directory, Minted, Counters, StoreLocks, RequestPool, TLC

CONSTANTS Parts,
          n1, n2, d1, d2, va, vb,  \* Directory: two nodes, one entry, or two
          m1, m2, h1, r1, r2,    \* Minted: two processes and one session
          e1, e2, e3,            \* RequestPool: three exchanges; its workers are m1, m2
          f1, f2, f3,            \* Counters: three second factors,
          b1, b2, b3, p1, p2,    \*   three lists by two processes,
          c1, z1                 \*   one serial and one challenge

TwoNodes == {n1, n2}
OneDn == {d1}
TwoDns == {d1, d2}
TwoMembers == {va, vb}
ByEach == [v \in Member |-> IF v = vb THEN n2 ELSE n1]
AtD1 == [v \in Member |-> d1]
ThreeUuids == 0..2
OneSeeded == [d \in Dn |-> IF d = d1 THEN 0 ELSE Absent]
FarApart == [u \in Uuid |-> 10 * u]

TwoMinters == {m1, m2}
OneHandle == {h1}
TwoParties == {r1, r2}

ThreeSpends == <<f1, f2, f3>>
ThreeBuilds == <<b1, b2, b3>>
TwoSigners == {p1, p2}
OneAhead == [p \in TwoSigners |-> IF p = p1 THEN 0 ELSE 1]
Elements(s) == {s[i] : i \in 1..Len(s)}
Spends3 == Elements(ThreeSpends)
Builds3 == Elements(ThreeBuilds)

(* The two nodes are interchangeable with what each of them adds, and so    *)
(* are the two processes that write the minted state.                      *)
Swap == (n1 :> n2) @@ (n2 :> n1) @@ (va :> vb) @@ (vb :> va) @@ (m1 :> m2) @@ (m2 :> m1)
Same == [x \in DOMAIN Swap |-> x]
SymStores == {p \in Permutations(DOMAIN Swap) : p \in {Same, Swap}}

ThreeExchanges == <<e1, e2, e3>>
Exchanges3 == Elements(ThreeExchanges)

(* Spendings are interchangeable, and so are builds and exchanges: each    *)
(* begins in turn.                                                         *)
InTurn(begun, order) ==
  \A i \in 2..Len(order) : order[i] \in begun => order[i - 1] \in begun
Turns == /\ InTurn({s \in Spend : spend'[s].stage # "new"}, ThreeSpends)
         /\ InTurn({b \in Build : build'[b].stage # "new"}, ThreeBuilds)

(* A flush of the directory fails among two changes, not three.            *)
FailEarly == (\A n \in Node : failures'[n] = 0) \/ changes' <= 2

(* The pool: two exchanges, and once both have written and while nothing   *)
(* is lost a third, which only reads.                                      *)
Few == LET come == {r \in Exchange : ex'[r].stage # "new"}
       IN  /\ InTurn(come, ThreeExchanges)
           /\ e3 \in come => /\ losses' = 0
                             /\ fact[e1] # "none" /\ fact[e2] # "none"
                             /\ fact'[e3] = "none"

VARIABLE part

(* The type invariant of each, where its variables move. *)
StoreTypesOK == /\ part = "directory" => DirTypeOK
                /\ part = "minted" => MintedTypeOK
                /\ part \in {"factors", "lists"} => CountersTypeOK
                /\ part = "locks" => LocksTypeOK
                /\ part = "pool" => PoolTypeOK

Init == /\ part \in Parts
        /\ DirInit /\ MintedInit /\ CountersInit /\ LocksInit /\ PoolInit
        /\ kept \in IF part = "locks" THEN {{}, Key} ELSE {{}}

Next == \/ /\ part = "directory" /\ DirNext /\ FailEarly
           /\ UNCHANGED <<mvars, countvars, lockvars, poolvars, part>>
        \/ /\ part = "minted" /\ MintedNext
           /\ UNCHANGED <<dirvars, countvars, lockvars, poolvars, part>>
        \/ /\ part = "factors" /\ (\E s \in Spend : SpendStep(s)) /\ Turns
           /\ UNCHANGED <<dirvars, mvars, lockvars, poolvars, part>>
        \/ /\ part = "lists" /\ ListsNext /\ Turns
           /\ UNCHANGED <<dirvars, mvars, lockvars, poolvars, part>>
        \/ /\ part = "locks" /\ LocksNext
           /\ UNCHANGED <<dirvars, mvars, countvars, poolvars, part>>
        \/ /\ part = "pool" /\ PoolNext /\ Few
           /\ UNCHANGED <<dirvars, mvars, countvars, lockvars, part>>

Spec == Init /\ [][Next]_<<dirvars, mvars, countvars, lockvars, poolvars, part>>
=============================================================================
