------------------------------ MODULE MCGrants -------------------------------
(***************************************************************************)
(* Small instances of Claims and of TokenGrants, which share the requests  *)
(* and no variable: a behaviour is one of the one or one of the other.     *)
(***************************************************************************)
EXTENDS Claims, TokenGrants, TLC

CONSTANTS q1, q2, q3,        \* three requests
          p1, p2, v1,        \* Claims: two processes whose clocks differ
          s1, s2             \* TokenGrants: two servers

ThreeRequests == {q1, q2, q3}

TwoProcs == {p1, p2}
OneValue == {v1}
OneLate == [p \in TwoProcs |-> IF p = p1 THEN 0 ELSE -1]
ShortLife == [v \in OneValue |-> 0]

TwoServers == {s1, s2}

SymGrants == Permutations(ThreeRequests) \cup Permutations(TwoServers)

VARIABLE part

Init == /\ part \in {"claims", "grants"}
        /\ ClaimsInit /\ GrantInit
        /\ part = "claims" => strict /\ given = {} /\ facts[s2] = {}
        /\ ~strict => given = {}

(* Two tokens are minted at most, whether one was there at the start or    *)
(* not; and with the mode off, where SameAnswer is about what happens when *)
(* nothing fails, nothing fails.                                           *)
Kept == /\ Cardinality(MintedTokens') <= IF spent[Code] = Before THEN 3 ELSE 2
        /\ strict \/ faults' = 0

Next == \/ part = "claims" /\ ClaimsNext /\ UNCHANGED <<gvars, part>>
        \/ part = "grants" /\ GrantNext /\ Kept /\ UNCHANGED <<cvars, part>>

Spec == Init /\ [][Next]_<<cvars, gvars, part>>
=============================================================================
