---------------------------- MODULE GrantsProofs ----------------------------
(***************************************************************************)
(* Single use and what the token endpoint builds on it, for any number of  *)
(* processes, requests, values and refresh tokens: Claims, and then        *)
(* TokenGrants.                                                            *)
(***************************************************************************)
EXTENDS Claims, TokenGrants, FiniteSetTheorems, TLAPS

-----------------------------------------------------------------------------
(* Claims.  SoleHolder, for any clock drift and delay within the skew: a   *)
(* later holder would have made its own check of the value after the       *)
(* earlier claim had ended, and a claim ends only when every process's own *)
(* check refuses the value.  With it, Claims implements OnceOnly.          *)

(* The lifetime asked for still covers the value, whenever the statement   *)
(* runs.                                                                   *)
AskedLong == \A a \in Attempt : Is(a, "asking") =>
  now + req[a].ttl >= Until[req[a].value] - Drift[req[a].at] + Skew

(* A row given to a request ends after every check that could accept its   *)
(* value.                                                                  *)
HeldLong == \A a \in Attempt : Holding(a) =>
  req[a].ends >= Until[req[a].value] - Drift[req[a].at] + Skew

(* The value's own check was made while the value was good.                *)
CheckedInTime == \A a \in Attempt : req[a].stage \in {"checked", "asking"} =>
  req[a].since + Drift[req[a].at] <= Until[req[a].value]

(* A holder's row stands until it ends: nobody else's release, purge or    *)
(* claim takes it.                                                         *)
RowStands == \A a \in Attempt : Holding(a) =>
  \/ row[req[a].value] = [by |-> a, ends |-> req[a].ends]
  \/ req[a].ends <= now

CInv == ClaimsTypeOK /\ AskedLong /\ HeldLong /\ CheckedInTime /\ RowStands /\ SoleHolder

LEMMA LifetimeCovers ==
  ASSUME ClaimsConstants, ClocksAgree, ClaimsTypeOK, NEW a \in Attempt, Is(a, "checked")
  PROVE  /\ Lifetime(a) \in Int
         /\ now + Lifetime(a) >= Until[req[a].value] - Drift[req[a].at] + Skew
<1> DEFINE u == Until[req[a].value]
           d == Drift[req[a].at]
<1>1. req[a].at \in Process /\ req[a].value \in Value
  BY DEF ClaimsTypeOK, Is
<1>2. u \in Nat /\ d \in Int /\ now \in Nat /\ Skew \in Nat /\ MaxTtl \in Nat
  BY <1>1 DEF ClaimsConstants, ClaimsTypeOK
<1>3. u - d + Skew <= MaxTtl
  BY <1>1 DEF ClocksAgree
<1>4. Lifetime(a) = AtMost(MaxTtl, AtLeast(1, AtLeast(0, u - (now + d)) + Skew))
  BY DEF Lifetime, Clock
<1> HIDE DEF u, d
<1>5. /\ AtMost(MaxTtl, AtLeast(1, AtLeast(0, u - (now + d)) + Skew)) \in Int
      /\ now + AtMost(MaxTtl, AtLeast(1, AtLeast(0, u - (now + d)) + Skew)) >= u - d + Skew
  BY <1>2, <1>3 DEF AtMost, AtLeast
<1> QED BY <1>4, <1>5 DEF u, d

LEMMA ClaimsInitInv == ASSUME ClaimsConstants, ClaimsInit PROVE CInv
BY DEF ClaimsConstants, ClaimsInit, CInv, ClaimsTypeOK, AskedLong, HeldLong, CheckedInTime,
       RowStands, SoleHolder, Holding, Is, NoRow, Rows, Requests, Stages

-----------------------------------------------------------------------------
(* The steps that only move a request on.                                  *)

(* A request whose record changes in its stage alone.                      *)
Moves(a, S) == \E s \in S : req'[a] = [req[a] EXCEPT !.stage = s]

LEMMA MovesType ==
  ASSUME ClaimsTypeOK, UNCHANGED <<now, row>>, req' = [a \in Attempt |-> req'[a]],
         \A a \in Attempt : \/ req'[a] = req[a]
                            \/ req[a].stage # "new" /\ Moves(a, Stages \ {"new"})
  PROVE  ClaimsTypeOK'
<1>1. ASSUME NEW a \in Attempt PROVE req'[a] \in Requests
  BY <1>1 DEF ClaimsTypeOK, Moves, Requests
<1>2. ASSUME NEW a \in Attempt, req'[a].stage # "new"
      PROVE  req'[a].at \in Process /\ req'[a].value \in Value
  BY <1>2 DEF ClaimsTypeOK, Moves, Requests
<1>3. req' \in [Attempt -> Requests]
  BY <1>1
<1> QED BY <1>2, <1>3 DEF ClaimsTypeOK

(* Giving up, answering and dying: a request that holds less than before.  *)
LEMMA LettingGo ==
  ASSUME CInv, UNCHANGED <<now, row>>, req' = [a \in Attempt |-> req'[a]],
         \A a \in Attempt :
           \/ req'[a] = req[a]
           \/ /\ req[a].stage # "new"
              /\ Moves(a, {"refused", "releasing", "released", "dead"})
  PROVE  CInv'
<1>1. ClaimsTypeOK'
  BY MovesType DEF CInv, Moves, Stages
<1>2. \A a \in Attempt : Holding(a)' => Holding(a) /\ req'[a] = req[a]
  BY DEF CInv, ClaimsTypeOK, Requests, Holding, Moves
<1>3. \A a \in Attempt : req'[a].stage \in {"checked", "asking"} => req'[a] = req[a]
  BY DEF CInv, ClaimsTypeOK, Requests, Moves
<1>4. AskedLong' /\ CheckedInTime'
  BY <1>3 DEF CInv, AskedLong, CheckedInTime, Is
<1>5. HeldLong' /\ RowStands' /\ SoleHolder'
  BY <1>2 DEF CInv, HeldLong, RowStands, SoleHolder
<1> QED BY <1>1, <1>4, <1>5 DEF CInv

(* Working, finishing and the close that settles nothing: a holder stays   *)
(* a holder.                                                               *)
LEMMA HoldingOn ==
  ASSUME CInv, NEW a \in Attempt, NEW s \in {"working", "bought", "ended"},
         Holding(a), Becomes(a, s), UNCHANGED <<now, row>>
  PROVE  CInv'
<1>1. /\ req' = [b \in Attempt |-> req'[b]]
      /\ \A b \in Attempt : req'[b] = req[b] \/ (req[b].stage # "new" /\ Moves(b, {s}))
  BY DEF CInv, ClaimsTypeOK, Requests, Holding, Becomes, Moves
<1>2. ClaimsTypeOK'
  BY <1>1, MovesType DEF CInv, Moves, Stages
<1>3. \A b \in Attempt : /\ Holding(b)' => Holding(b)
                         /\ req'[b].ends = req[b].ends /\ req'[b].value = req[b].value
                         /\ req'[b].at = req[b].at
  BY DEF CInv, ClaimsTypeOK, Requests, Holding, Becomes
<1>4. \A b \in Attempt : req'[b].stage \in {"checked", "asking"} => req'[b] = req[b]
  BY DEF CInv, ClaimsTypeOK, Requests, Becomes
<1>5. AskedLong' /\ CheckedInTime'
  BY <1>4 DEF CInv, AskedLong, CheckedInTime, Is
<1>6. HeldLong' /\ RowStands' /\ SoleHolder'
  BY <1>3 DEF CInv, HeldLong, RowStands, SoleHolder
<1> QED BY <1>2, <1>5, <1>6 DEF CInv

-----------------------------------------------------------------------------
(* The steps that matter.                                                  *)

LEMMA CheckKeeps ==
  ASSUME ClaimsConstants, CInv, NEW a \in Attempt, NEW p \in Process, NEW v \in Value,
         Check(a, p, v)
  PROVE  CInv'
<1> DEFINE r == [req[a] EXCEPT !.stage = "checked", !.at = p, !.value = v, !.since = now]
<1>1. req' = [req EXCEPT ![a] = r] /\ now' = now /\ row' = row
  BY DEF Check
<1>2. r \in Requests /\ r.stage = "checked" /\ r.at = p /\ r.value = v /\ r.since = now
  <2>1. req[a] \in Requests /\ now \in Int
    BY DEF CInv, ClaimsTypeOK
  <2> QED BY <2>1 DEF Requests, Stages
<1> HIDE DEF r
<1>3. req'[a] = r /\ \A b \in Attempt : b # a => req'[b] = req[b]
  BY <1>1 DEF CInv, ClaimsTypeOK
<1>4. ClaimsTypeOK'
  BY <1>1, <1>2, <1>3 DEF CInv, ClaimsTypeOK
<1>5. \A b \in Attempt : Holding(b)' => Holding(b) /\ req'[b] = req[b]
  BY <1>2, <1>3 DEF Holding
<1>6. AskedLong'
  BY <1>1, <1>2, <1>3 DEF CInv, AskedLong, Is
<1>7. now + Drift[p] <= Until[v]
  BY DEF Check, Clock
<1>8. CheckedInTime'
  BY <1>2, <1>3, <1>7 DEF CInv, CheckedInTime
<1>9. HeldLong' /\ RowStands' /\ SoleHolder'
  BY <1>1, <1>5 DEF CInv, HeldLong, RowStands, SoleHolder
<1> QED BY <1>4, <1>6, <1>8, <1>9 DEF CInv

LEMMA AskKeeps ==
  ASSUME ClaimsConstants, ClocksAgree, CInv, NEW a \in Attempt, Ask(a)
  PROVE  CInv'
<1> DEFINE t == Lifetime(a)
           r == [req[a] EXCEPT !.stage = "asking", !.ttl = t]
<1>1. Is(a, "checked") /\ req' = [req EXCEPT ![a] = r] /\ now' = now /\ row' = row
  BY DEF Ask, CInv, ClaimsTypeOK
<1>2. t \in Int /\ now + t >= Until[req[a].value] - Drift[req[a].at] + Skew
  BY <1>1, LifetimeCovers DEF CInv
<1> HIDE DEF t
<1>3. /\ r \in Requests /\ r.stage = "asking" /\ r.ttl = t
      /\ r.at = req[a].at /\ r.value = req[a].value /\ r.since = req[a].since
  <2>1. req[a] \in Requests
    BY DEF CInv, ClaimsTypeOK
  <2> QED BY <1>2, <2>1 DEF Requests, Stages
<1> HIDE DEF r
<1>4. req'[a] = r /\ \A b \in Attempt : b # a => req'[b] = req[b]
  BY <1>1 DEF CInv, ClaimsTypeOK
<1>5. ClaimsTypeOK'
  BY <1>1, <1>3, <1>4 DEF CInv, ClaimsTypeOK, Is
<1>6. \A b \in Attempt : Holding(b)' => Holding(b) /\ req'[b] = req[b]
  BY <1>3, <1>4 DEF Holding
<1>7. AskedLong'
  BY <1>1, <1>2, <1>3, <1>4 DEF CInv, AskedLong, Is
<1>8. CheckedInTime'
  BY <1>1, <1>3, <1>4 DEF CInv, CheckedInTime, Is
<1>9. HeldLong' /\ RowStands' /\ SoleHolder'
  BY <1>1, <1>6 DEF CInv, HeldLong, RowStands, SoleHolder
<1> QED BY <1>5, <1>7, <1>8, <1>9 DEF CInv

(* The heart: a row can be replaced only after every check that could      *)
(* still be on its way was made too late.                                  *)
LEMMA FreeMeansNoHolder ==
  ASSUME ClaimsConstants, ClocksAgree, CInv, NEW a \in Attempt, ClaimOnce(a),
         NEW b \in Attempt, Holding(b), req[b].value = req[a].value
  PROVE  FALSE
<1>1. /\ req[a].at \in Process /\ req[b].at \in Process /\ req[a].value \in Value
      /\ req[a].since \in Int /\ req[b].ends \in Int /\ now \in Nat
  <2>1. req[a].stage = "asking" /\ req[b].stage # "new"
    BY DEF ClaimOnce, Is, Holding
  <2>2. req[a] \in Requests /\ req[b] \in Requests
    BY DEF CInv, ClaimsTypeOK
  <2> QED BY <2>1, <2>2 DEF CInv, ClaimsTypeOK, Requests
<1>2. req[b].ends <= now
  <2>1. Free(req[a].value) /\ b # None
    BY DEF ClaimOnce, ClaimsConstants
  <2>2. \/ row[req[a].value] = [by |-> b, ends |-> req[b].ends]
        \/ req[b].ends <= now
    BY DEF CInv, RowStands
  <2> QED BY <2>1, <2>2 DEF Free
<1>3. now <= req[a].since + MaxDelay /\ req[a].since + Drift[req[a].at] <= Until[req[a].value]
  BY DEF CInv, CheckedInTime, ClaimOnce, Is
<1>4. req[b].ends >= Until[req[a].value] - Drift[req[b].at] + Skew
  BY DEF CInv, HeldLong
<1>5. Drift[req[b].at] + MaxDelay < Drift[req[a].at] + Skew
  BY <1>1 DEF ClocksAgree
<1>6. /\ Drift[req[a].at] \in Int /\ Drift[req[b].at] \in Int /\ Until[req[a].value] \in Int
      /\ Skew \in Int /\ MaxDelay \in Int
  BY <1>1 DEF ClaimsConstants
<1> QED BY <1>1, <1>2, <1>3, <1>4, <1>5, <1>6

LEMMA ClaimOnceKeeps ==
  ASSUME ClaimsConstants, ClocksAgree, CInv, NEW a \in Attempt, ClaimOnce(a)
  PROVE  CInv'
<1> DEFINE v == req[a].value
           e == now + req[a].ttl
           r == [req[a] EXCEPT !.stage = "claimed", !.ends = e]
<1>1. /\ Is(a, "asking") /\ now' = now
      /\ req' = [req EXCEPT ![a] = r]
      /\ row' = [row EXCEPT ![v] = [by |-> a, ends |-> e]]
  BY DEF ClaimOnce, CInv, ClaimsTypeOK
<1>2. e \in Int /\ v \in Value
  BY <1>1 DEF CInv, ClaimsTypeOK, Requests, Is
<1>3. e >= Until[v] - Drift[req[a].at] + Skew
  BY <1>1 DEF CInv, AskedLong
<1> HIDE DEF e
<1>4. /\ r \in Requests /\ r.stage = "claimed" /\ r.ends = e
      /\ r.at = req[a].at /\ r.value = v
  <2>1. req[a] \in Requests
    BY DEF CInv, ClaimsTypeOK
  <2> QED BY <2>1, <1>2 DEF Requests, Stages
<1> HIDE DEF r
<1>5. req'[a] = r /\ \A b \in Attempt : b # a => req'[b] = req[b]
  BY <1>1 DEF CInv, ClaimsTypeOK
<1>6. row'[v] = [by |-> a, ends |-> e] /\ \A w \in Value : w # v => row'[w] = row[w]
  BY <1>1, <1>2 DEF CInv, ClaimsTypeOK
<1>7. ClaimsTypeOK'
  <2>1. row' \in [Value -> Rows]
    BY <1>1, <1>2 DEF CInv, ClaimsTypeOK, Rows
  <2>2. req' \in [Attempt -> Requests]
    BY <1>1, <1>4 DEF CInv, ClaimsTypeOK
  <2>3. \A b \in Attempt : req'[b].stage # "new"
          => req'[b].at \in Process /\ req'[b].value \in Value
    BY <1>1, <1>4, <1>5 DEF CInv, ClaimsTypeOK, Is
  <2> QED BY <1>1, <2>1, <2>2, <2>3 DEF CInv, ClaimsTypeOK
<1>8. \A b \in Attempt : b # a /\ Holding(b)' =>
        Holding(b) /\ req'[b] = req[b] /\ req[b].value # v
  BY <1>5, FreeMeansNoHolder DEF Holding
<1>9. AskedLong' /\ CheckedInTime'
  BY <1>1, <1>4, <1>5 DEF CInv, AskedLong, CheckedInTime, Is
<1>10. HeldLong'
  BY <1>3, <1>4, <1>5, <1>8 DEF CInv, HeldLong
<1>11. RowStands'
  <2>1. ASSUME NEW b \in Attempt, b # a, Holding(b)' PROVE RowStands!(b)'
    <3>1. Holding(b) /\ req'[b] = req[b] /\ req[b].value # v /\ req[b].value \in Value
      BY <2>1, <1>8 DEF CInv, ClaimsTypeOK, Holding
    <3> QED BY <3>1, <1>1, <1>6 DEF CInv, RowStands
  <2>2. RowStands!(a)'
    BY <1>4, <1>5, <1>6
  <2> QED BY <2>1, <2>2 DEF RowStands
<1>12. SoleHolder'
  BY <1>4, <1>5, <1>8 DEF CInv, SoleHolder
<1> QED BY <1>7, <1>9, <1>10, <1>11, <1>12 DEF CInv

(* A release takes only the row of its own reservation, and a request that *)
(* releases holds nothing.                                                 *)
LEMMA ReleaseKeeps ==
  ASSUME ClaimsConstants, CInv, NEW a \in Attempt, ReleaseClaim(a)
  PROVE  CInv'
<1>1. /\ req[a].stage = "releasing" /\ now' = now
      /\ req' = [req EXCEPT ![a].stage = "released"]
      /\ row' = [row EXCEPT ![req[a].value] = IF @.by = a THEN NoRow ELSE @]
  BY DEF ReleaseClaim, Is, Becomes
<1>2. /\ req' = [b \in Attempt |-> req'[b]]
      /\ \A b \in Attempt : b # a => req'[b] = req[b]
      /\ req'[a] = [req[a] EXCEPT !.stage = "released"]
  BY <1>1 DEF CInv, ClaimsTypeOK
<1>3. req[a].value \in Value /\ req[a] \in Requests
  BY <1>1 DEF CInv, ClaimsTypeOK
<1>4. \A v \in Value : row'[v] = row[v] \/ (row[v].by = a /\ row'[v] = NoRow)
  BY <1>1 DEF CInv, ClaimsTypeOK
<1>5. ClaimsTypeOK'
  <2>1. row' \in [Value -> Rows]
    BY <1>1, <1>3 DEF CInv, ClaimsTypeOK, Rows, NoRow
  <2>2. req'[a] \in Requests
    BY <1>2, <1>3 DEF Requests, Stages
  <2>3. req' \in [Attempt -> Requests]
    BY <1>2, <2>2 DEF CInv, ClaimsTypeOK
  <2>4. \A b \in Attempt : req'[b].stage # "new"
          => req'[b].at \in Process /\ req'[b].value \in Value
    BY <1>1, <1>2, <1>3 DEF CInv, ClaimsTypeOK, Requests
  <2> QED BY <1>1, <2>1, <2>3, <2>4 DEF CInv, ClaimsTypeOK
<1>6. req'[a].stage = "released"
  BY <1>2, <1>3 DEF Requests
<1>7. \A b \in Attempt : Holding(b)' => b # a /\ Holding(b) /\ req'[b] = req[b]
  BY <1>2, <1>6 DEF Holding
<1>8. AskedLong' /\ CheckedInTime'
  BY <1>1, <1>2, <1>6 DEF CInv, AskedLong, CheckedInTime, Is
<1>9. HeldLong' /\ SoleHolder'
  BY <1>7 DEF CInv, HeldLong, SoleHolder
<1>10. RowStands'
  <2>1. ASSUME NEW b \in Attempt, Holding(b)' PROVE RowStands!(b)'
    <3>1. b # a /\ Holding(b) /\ req'[b] = req[b] /\ req[b].value \in Value
      BY <2>1, <1>7 DEF CInv, ClaimsTypeOK, Holding
    <3>2. CASE req[b].ends <= now
      BY <3>1, <3>2, <1>1
    <3>3. CASE row[req[b].value] = [by |-> b, ends |-> req[b].ends]
      BY <3>1, <3>3, <1>4
    <3> QED BY <3>1, <3>2, <3>3 DEF CInv, RowStands
  <2> QED BY <2>1 DEF RowStands
<1> QED BY <1>5, <1>8, <1>9, <1>10 DEF CInv

(* The purge removes ended rows alone.                                     *)
LEMMA PurgeKeeps ==
  ASSUME ClaimsConstants, CInv, PurgeClaims
  PROVE  CInv'
<1>1. /\ now' = now /\ req' = req
      /\ row' = [v \in Value |-> IF row[v].ends <= now THEN NoRow ELSE row[v]]
  BY DEF PurgeClaims
<1>2. ClaimsTypeOK'
  BY <1>1 DEF CInv, ClaimsTypeOK, NoRow, Rows
<1>3. RowStands'
  <2>1. ASSUME NEW b \in Attempt, Holding(b) PROVE RowStands!(b)'
    <3>1. req[b].value \in Value
      BY <2>1 DEF CInv, ClaimsTypeOK, Holding
    <3>2. CASE req[b].ends <= now
      BY <3>2, <1>1
    <3>3. CASE row[req[b].value] = [by |-> b, ends |-> req[b].ends]
      BY <3>1, <3>3, <1>1
    <3> QED BY <2>1, <3>2, <3>3 DEF CInv, RowStands
  <2> QED BY <2>1, <1>1 DEF RowStands, Holding
<1>4. AskedLong' /\ HeldLong' /\ CheckedInTime' /\ SoleHolder'
  BY <1>1 DEF CInv, AskedLong, HeldLong, CheckedInTime, SoleHolder, Holding, Is
<1> QED BY <1>2, <1>3, <1>4 DEF CInv

(* Time only passes: what was asked for, and what has ended, stays so.     *)
LEMMA TickKeeps ==
  ASSUME ClaimsConstants, CInv, Tick
  PROVE  CInv'
<1>1. now \in Nat /\ now' = now + 1 /\ req' = req /\ row' = row
  BY DEF Tick, CInv, ClaimsTypeOK
<1>2. ClaimsTypeOK' /\ HeldLong' /\ CheckedInTime' /\ SoleHolder'
  BY <1>1 DEF CInv, ClaimsTypeOK, HeldLong, CheckedInTime, SoleHolder, Holding
<1>3. \A b \in Attempt : req[b].ttl \in Int /\ req[b].ends \in Int
  BY DEF CInv, ClaimsTypeOK, Requests
<1>4. AskedLong'
  <2>1. ASSUME NEW b \in Attempt, Is(b, "asking") PROVE AskedLong!(b)'
    <3> DEFINE x == Until[req[b].value] - Drift[req[b].at] + Skew
    <3>1. x \in Int
      BY <2>1 DEF CInv, ClaimsTypeOK, ClaimsConstants, Is
    <3>2. now + req[b].ttl >= x
      BY <2>1 DEF CInv, AskedLong
    <3> HIDE DEF x
    <3>3. now + 1 + req[b].ttl >= x
      BY <3>1, <3>2, <1>1, <1>3
    <3> QED BY <3>3, <1>1 DEF x
  <2> QED BY <2>1, <1>1 DEF AskedLong, Is
<1>5. RowStands'
  <2>1. ASSUME NEW b \in Attempt, Holding(b) PROVE RowStands!(b)'
    BY <2>1, <1>1, <1>3 DEF CInv, RowStands
  <2> QED BY <2>1, <1>1 DEF RowStands, Holding
<1> QED BY <1>2, <1>4, <1>5 DEF CInv

(* A death leaves every request it touches with nothing.                   *)
LEMMA DiesKeeps ==
  ASSUME CInv, NEW p \in Process, Dies(p)
  PROVE  CInv'
<1>1. /\ UNCHANGED <<now, row>> /\ req' = [a \in Attempt |-> req'[a]]
      /\ \A a \in Attempt : \/ req'[a] = req[a]
                             \/ /\ req[a].stage # "new"
                                /\ Moves(a, {"refused", "releasing", "released", "dead"})
  BY DEF Dies, Moves
<1> QED BY <1>1, LettingGo

(* The request's own steps that give it up.                                *)
LEMMA GivingUp ==
  ASSUME CInv, NEW a \in Attempt, NEW s \in {"refused", "releasing", "released", "dead"},
         req[a].stage # "new", Becomes(a, s), UNCHANGED <<now, row>>
  PROVE  CInv'
<1>1. /\ req' = [b \in Attempt |-> req'[b]]
      /\ \A b \in Attempt : \/ req'[b] = req[b]
                             \/ /\ req[b].stage # "new"
                                /\ Moves(b, {"refused", "releasing", "released", "dead"})
  BY DEF CInv, ClaimsTypeOK, Becomes, Moves
<1> QED BY <1>1, LettingGo

LEMMA ClaimsStep ==
  ASSUME ClaimsConstants, ClocksAgree, CInv, [ClaimsNext]_cvars
  PROVE  CInv'
<1>1. ASSUME NEW a \in Attempt, NEW p \in Process, NEW v \in Value, Check(a, p, v) PROVE CInv'
  BY <1>1, CheckKeeps
<1>2. ASSUME NEW a \in Attempt, Ask(a) PROVE CInv'
  BY <1>2, AskKeeps
<1>3. ASSUME NEW a \in Attempt, Claimed(a) \/ Finish(a) \/ EndedUnflushed(a) PROVE CInv'
  BY <1>3, HoldingOn DEF Claimed, Finish, EndedUnflushed, Is, Holding
<1>4. ASSUME NEW a \in Attempt, StoreFails(a) \/ GiveBack(a) \/ ReleaseFails(a) \/ ClaimRefused(a)
      PROVE CInv'
  BY <1>4, GivingUp DEF StoreFails, GiveBack, ReleaseFails, ClaimRefused, Is
<1>5. ASSUME NEW a \in Attempt, ClaimOnce(a) PROVE CInv'
  BY <1>5, ClaimOnceKeeps
<1>6. ASSUME NEW a \in Attempt, ReleaseClaim(a) PROVE CInv'
  BY <1>6, ReleaseKeeps
<1>7. ASSUME NEW p \in Process, Dies(p) PROVE CInv'
  BY <1>7, DiesKeeps
<1>8. CASE PurgeClaims
  BY <1>8, PurgeKeeps
<1>9. CASE Tick
  BY <1>9, TickKeeps
<1>10. CASE UNCHANGED cvars
  BY <1>10 DEF cvars, CInv, ClaimsTypeOK, AskedLong, HeldLong, CheckedInTime, RowStands,
               SoleHolder, Holding, Is
<1> QED BY <1>1, <1>2, <1>3, <1>4, <1>5, <1>6, <1>7, <1>8, <1>9, <1>10
        DEF ClaimsNext, RequestStep, StoreStep

LEMMA ClaimsAlways == ClaimsSpec => []CInv
<1>1. ClaimsInit => CInv
  BY ClaimsInitInv, ClaimsConstants
<1>2. CInv /\ [ClaimsNext]_cvars => CInv'
  BY ClaimsStep, ClaimsConstants, ClocksAgree
<1> QED BY <1>1, <1>2, PTL DEF ClaimsSpec

-----------------------------------------------------------------------------
(* The theorems.                                                           *)

(* The requests, the rows and the clock keep their types, and a request    *)
(* that has begun has its process and its value.                           *)
THEOREM ClaimsTyped == ClaimsSpec => []ClaimsTypeOK
<1>1. CInv => ClaimsTypeOK
  BY DEF CInv
<1> QED BY <1>1, ClaimsAlways, PTL

(* Two requests never hold one value unless the first gave it back.        *)
THEOREM ClaimsExclude == ClaimsSpec => []SoleHolder
<1>1. CInv => SoleHolder
  BY DEF CInv
<1> QED BY <1>1, ClaimsAlways, PTL

(* The step that finishes a response well is a purchase of a value nobody  *)
(* had bought.                                                             *)
LEMMA FinishBuys ==
  ASSUME CInv, NEW a \in Attempt, Finish(a)
  PROVE  Once!Buy(req[a].value, a) /\ req[a].value \in Value
<1>1. /\ req[a].stage = "working" /\ req[a].value \in Value /\ req[a] \in Requests
      /\ req' = [req EXCEPT ![a].stage = "bought"]
  BY DEF Finish, Is, Becomes, CInv, ClaimsTypeOK
<1>2. /\ \A b \in Attempt : b # a => req'[b] = req[b]
      /\ req'[a].stage = "bought" /\ req'[a].value = req[a].value
  BY <1>1 DEF CInv, ClaimsTypeOK, Requests
<1>3. Bought[req[a].value] = {}
  <2>1. ASSUME NEW b \in Attempt, req[b].stage = "bought", req[b].value = req[a].value
        PROVE  FALSE
    BY <2>1, <1>1 DEF CInv, SoleHolder, Holding
  <2> QED BY <2>1, <1>1 DEF Bought, Is
<1>4. Bought' = [Bought EXCEPT ![req[a].value] = {a}]
  <2>1. ASSUME NEW v \in Value, v # req[a].value PROVE Bought'[v] = Bought[v]
    BY <2>1, <1>1, <1>2 DEF Bought, Is
  <2>2. Bought'[req[a].value] = {a}
    <3>1. Bought'[req[a].value]
            = {b \in Attempt : req'[b].stage = "bought" /\ req'[b].value = req[a].value}
      BY <1>1 DEF Bought, Is
    <3>2. ASSUME NEW b \in Attempt, b # a
          PROVE  ~(req'[b].stage = "bought" /\ req'[b].value = req[a].value)
      BY <3>2, <1>1, <1>2 DEF CInv, SoleHolder, Holding
    <3> QED BY <3>1, <3>2, <1>2
  <2> QED BY <2>1, <2>2, <1>1 DEF Bought
<1> QED BY <1>1, <1>3, <1>4 DEF Once!Buy

(* Every other step leaves what has been bought as it is.                  *)
LEMMA OthersBuyNothing ==
  ASSUME CInv, \A a \in Attempt : \/ req'[a] = req[a]
                                  \/ req[a].stage # "bought" /\ req'[a].stage # "bought"
  PROVE  Bought' = Bought
BY DEF Bought, Is

LEMMA StepsImplement ==
  ASSUME CInv, [ClaimsNext]_cvars
  PROVE  [Once!Next]_Bought
<1> DEFINE Kept == \A b \in Attempt : \/ req'[b] = req[b]
                                      \/ req[b].stage # "bought" /\ req'[b].stage # "bought"
<1>1. req \in [Attempt -> Requests]
  BY DEF CInv, ClaimsTypeOK
<1>2. CASE \E a \in Attempt : Finish(a)
  BY <1>2, FinishBuys DEF Once!Next
<1>3. ASSUME NEW a \in Attempt, NEW p \in Process, NEW v \in Value, Check(a, p, v) PROVE Kept
  <2>1. /\ req[a].stage = "new" /\ \A b \in Attempt : b # a => req'[b] = req[b]
        /\ req'[a] = [req[a] EXCEPT !.stage = "checked", !.at = p, !.value = v, !.since = now]
    BY <1>3, <1>1 DEF Check, Is
  <2>2. req'[a].stage = "checked"
    BY <2>1, <1>1 DEF Requests
  <2> QED BY <2>1, <2>2
<1>4. ASSUME NEW a \in Attempt, Ask(a) PROVE Kept
  <2>1. /\ req[a].stage = "checked" /\ \A b \in Attempt : b # a => req'[b] = req[b]
        /\ req'[a] = [req[a] EXCEPT !.stage = "asking", !.ttl = Lifetime(a)]
    BY <1>4, <1>1 DEF Ask, Is
  <2>2. req'[a].stage = "asking"
    BY <2>1, <1>1 DEF Requests
  <2> QED BY <2>1, <2>2
<1>5. ASSUME NEW a \in Attempt, ClaimOnce(a) PROVE Kept
  <2>1. /\ req[a].stage = "asking" /\ \A b \in Attempt : b # a => req'[b] = req[b]
        /\ req'[a] = [req[a] EXCEPT !.stage = "claimed", !.ends = now + req[a].ttl]
    BY <1>5, <1>1 DEF ClaimOnce, Is
  <2>2. req'[a].stage = "claimed"
    BY <2>1, <1>1 DEF Requests
  <2> QED BY <2>1, <2>2
<1>6. ASSUME NEW a \in Attempt, NEW s \in Stages \ {"bought"}, req[a].stage # "bought",
             Becomes(a, s)
      PROVE  Kept
  BY <1>6, <1>1 DEF Becomes, Requests
<1>7. ASSUME NEW a \in Attempt,
             Claimed(a) \/ EndedUnflushed(a) \/ StoreFails(a) \/ GiveBack(a) \/ ReleaseFails(a)
             \/ ClaimRefused(a) \/ ReleaseClaim(a)
      PROVE  Kept
  BY <1>7, <1>6 DEF Claimed, EndedUnflushed, StoreFails, GiveBack, ReleaseFails, ClaimRefused,
                    ReleaseClaim, Is, Stages
<1>8. ASSUME NEW p \in Process, Dies(p) PROVE Kept
  BY <1>8, <1>1 DEF Dies, Requests
<1>9. ASSUME PurgeClaims \/ Tick \/ UNCHANGED cvars PROVE Kept
  BY <1>9 DEF PurgeClaims, Tick, cvars
<1>10. ASSUME Kept PROVE Bought' = Bought
  BY <1>10, OthersBuyNothing
<1> HIDE DEF Kept
<1> QED BY <1>2, <1>3, <1>4, <1>5, <1>7, <1>8, <1>9, <1>10
        DEF ClaimsNext, RequestStep, StoreStep

(* The claims implement OnceOnly: for ever, one request at most buys       *)
(* something for a value.                                                  *)
THEOREM ClaimsAreOnce == ClaimsSpec => OnceSpec
<1>1. ClaimsInit => Bought = [v \in Value |-> {}]
  BY DEF ClaimsInit, Bought, Is
<1>2. ClaimsInit => Once!Init
  BY <1>1 DEF Once!Init
<1>3. CInv /\ [ClaimsNext]_cvars => [Once!Next]_Bought
  BY StepsImplement
<1> QED BY <1>2, <1>3, ClaimsAlways, PTL DEF ClaimsSpec, OnceSpec, Once!Spec

-----------------------------------------------------------------------------
(* TokenGrants: the inductive invariant.                                   *)

GrantSet == [stage : GrantStages, at : Server \cup {Nobody}, token : 0..MaxTokens,
             child : 0..MaxTokens, owes : SUBSET Facts, late : BOOLEAN, gone : BOOLEAN,
             copy : BOOLEAN, exposed : BOOLEAN]

GrantTypes ==
  /\ strict \in BOOLEAN
  /\ family \in [Token -> 0..MaxTokens]
  /\ facts \in [Server -> SUBSET Facts]
  /\ db \in SUBSET Facts
  /\ spent \in [0..MaxTokens -> Request \cup {Nobody, Before}]
  /\ barred \in SUBSET Token /\ given \in SUBSET Token
  /\ faults \in Nat /\ exposed \in SUBSET (0..MaxTokens)
  /\ grant \in [Request -> GrantSet]

(* Tokens are minted in their order, and what is handed out or was bought  *)
(* is one that was minted.                                                 *)
Purchased(c) == Redeemed(c) \in db \/ \E n \in Server : Redeemed(c) \in facts[n]

MintOrder ==
  /\ \E k \in 0..MaxTokens : \A t \in Token : family[t] # 0 <=> t <= k
  /\ \A t \in Token : t \in given \/ Purchased(t) => family[t] # 0

(* A request that runs is at a server and presents what it may.            *)
Placed(r) ==
  /\ Stage(r) \in Running \cup {"refused"} =>
       At(r) \in Server /\ Presents(r) \in given \cup {Code}
  /\ Stage(r) \in {"signing", "held", "done"} =>
       grant[r].child \in Token /\ family[grant[r].child] # 0
  /\ Stage(r) = "signing" => Record(grant[r].child) \in Known(r)
  /\ Stage(r) \in {"marking", "spending"} => Presents(r) # Code
  /\ Stage(r) \in {"waiting"} => Presents(r) = Code
  /\ Stage(r) \in {"new", "arrived"} => ~grant[r].gone
  /\ Stage(r) = "done" => ~grant[r].gone
  /\ grant[r].gone => Stage(r) \in {"signing", "held", "failed", "over"}
  /\ Stage(r) = "new" => grant[r] = NewRequest

(* With the mode on, whoever mints, or was answered, has its claim.        *)
HasClaim(r) ==
  strict /\ Stage(r) \in {"minting", "signing", "held", "done"} /\ ~grant[r].gone
    => spent[Presents(r)] = r

(* With it off, and as long as nothing fails, one request buys with the    *)
(* code and the others are answered with what it bought.                   *)
Calm == faults = 0 /\ \A r \in Request : ~grant[r].gone

Buying(r) == ~strict /\ Calm /\ Presents(r) = Code =>
  /\ Stage(r) \in {"minting", "signing"} => spent[Code] = r
  /\ Stage(r) \in {"held", "done"} => Purchased(grant[r].child)

OneBought == ~strict /\ Calm => \A c \in Token : Purchased(c) =>
  \/ spent[Code] = Before /\ c = 1
  \/ \E r \in Request : /\ spent[Code] = r /\ Presents(r) = Code
                        /\ Stage(r) \in {"held", "done"} /\ grant[r].child = c

(* The clients hold tokens of one family, the code's claim with the        *)
(* request that was answered with the first of them.                       *)
OneFamily == strict =>
  /\ \A t, u \in given : family[t] = family[u]
  /\ given # {} => \/ spent[Code] = Before
                   \/ \E r \in Request : spent[Code] = r /\ Stage(r) = "done"

Descends(r) ==
  strict /\ Stage(r) \in {"signing", "held"} /\ ~grant[r].gone
    => family[grant[r].child] = FamilyFor(r, grant[r].child)

(* What a replay's answer revoked is revoked in the store, by identifier   *)
(* or by family, and a later request finds it so.                          *)
ExposedBarred == strict => \A t \in exposed :
  /\ t # Code
  /\ \/ Revoked(t) \in db
     \/ given # {} /\ \A u \in given : family[u] \in barred

ExposedStopped(r) == strict /\ grant[r].exposed /\ ~grant[r].late =>
  /\ Presents(r) # Code
  /\ Stage(r) \in {"arrived", "asking", "marking", "refused", "over"}
  /\ Stage(r) = "arrived" => IsRevoked(r) \/ FamilyOf(r) \in barred
  /\ Stage(r) = "asking" => FamilyOf(r) \in barred

(* While nothing fails, records and rotations are stored before a client   *)
(* has the answer, so that a copy is met by them.                          *)
Recorded(r) == strict /\ faults = 0 =>
  /\ Stage(r) \in Running /\ Presents(r) # Code => Record(Presents(r)) \in Known(r)
  /\ Stage(r) \in {"signing", "held"} => Record(grant[r].child) \in grant[r].owes
  /\ Stage(r) = "held" /\ Presents(r) # Code => Rotated(Presents(r)) \in grant[r].owes
  /\ Stage(r) = "done" /\ Presents(r) # Code => Rotated(Presents(r)) \in db

GivenRecorded == strict /\ faults = 0 => \A t \in given : Record(t) \in db

CopyMet(r) == strict /\ faults = 0 /\ grant[r].copy /\ Presents(r) # Code =>
  /\ Stage(r) \in {"arrived", "marking", "refused"}
  /\ Stage(r) = "arrived" => Rotated(Presents(r)) \in Known(r)
  /\ Stage(r) = "refused" => FamilyOf(r) \in barred

RequestInv(r) == /\ Placed(r) /\ HasClaim(r) /\ Buying(r) /\ Descends(r)
                 /\ ExposedStopped(r) /\ Recorded(r) /\ CopyMet(r)

GrantInv == /\ GrantTypes /\ MintOrder /\ OneBought /\ OneFamily /\ ExposedBarred
            /\ GivenRecorded /\ \A r \in Request : RequestInv(r)

-----------------------------------------------------------------------------
(* What the invariant says of what the runs check.                         *)

LEMMA InvariantImplies ==
  ASSUME GrantInv
  PROVE  GrantTypeOK /\ OneTokenSet /\ SameAnswer /\ RevokedBuysNothing /\ ReplayCaught
<1>1. GrantTypeOK
  <2>1. ASSUME NEW r \in Request
        PROVE  /\ grant[r].stage \in GrantStages /\ grant[r].token \in 0..MaxTokens
               /\ grant[r].stage \in {"signing", "held", "done"} => grant[r].child \in Token
               /\ grant[r].stage = "signing" => Record(grant[r].child) \in facts[grant[r].at]
    BY DEF GrantInv, GrantTypes, GrantSet, RequestInv, Placed, Stage, Known, At
  <2> QED BY <2>1 DEF GrantTypeOK, GrantInv, GrantTypes
<1>2. OneTokenSet
  BY DEF OneTokenSet, Delivered, GrantInv, RequestInv, HasClaim, Placed
<1>3. SameAnswer
  <2> SUFFICES ASSUME ~strict, Calm, NEW q \in Delivered(Code), NEW r \in Delivered(Code)
               PROVE  grant[q].child = grant[r].child
    BY DEF SameAnswer, Calm
  <2>1. ASSUME NEW p \in Delivered(Code)
        PROVE  /\ p \in Request /\ grant[p].child \in Token
               /\ Purchased(grant[p].child)
    BY DEF Delivered, GrantInv, RequestInv, Buying, Placed
  <2> QED BY <2>1, GrantConstants DEF GrantInv, OneBought, Before
<1>4. RevokedBuysNothing
  BY DEF RevokedBuysNothing, GrantInv, RequestInv, ExposedStopped
<1>5. ReplayCaught
  BY DEF ReplayCaught, GrantInv, RequestInv, CopyMet
<1> QED BY <1>1, <1>2, <1>3, <1>4, <1>5

(* It holds at the start.                                                  *)
LEMMA NewIsRequest ==
  /\ NewRequest \in GrantSet /\ Over \in GrantSet
  /\ \A b \in BOOLEAN : [Over EXCEPT !.gone = b] \in GrantSet
  /\ NewRequest.stage = "new" /\ Over.stage = "over"
  /\ NewRequest.token = Code /\ NewRequest.owes = {} /\ NewRequest.child = 0
  /\ NewRequest.copy = FALSE /\ NewRequest.exposed = FALSE /\ NewRequest.gone = FALSE
  /\ NewRequest.late = FALSE
<1>1. 0 \in 0..MaxTokens /\ Code \in 0..MaxTokens /\ Nobody \in Server \cup {Nobody}
  BY GrantConstants DEF Code
<1>2. "new" \in GrantStages /\ "over" \in GrantStages
  BY DEF GrantStages
<1>3. NewRequest \in GrantSet
  BY <1>1, <1>2 DEF NewRequest, GrantSet
<1>4. Over \in GrantSet /\ Over.stage = "over"
  BY <1>2, <1>3 DEF Over, GrantSet
<1>5. \A b \in BOOLEAN : [Over EXCEPT !.gone = b] \in GrantSet
  BY <1>4 DEF GrantSet
<1> QED BY <1>3, <1>4, <1>5 DEF NewRequest

LEMMA StartsIn == GrantInit => GrantInv
<1> SUFFICES ASSUME GrantInit PROVE GrantInv
  OBVIOUS
<1>1. PICK n \in Server : facts = [m \in Server |-> IF m = n THEN db ELSE {}]
  BY DEF GrantInit
<1>2. 1 \in Token /\ Code \in 0..MaxTokens /\ 0 \in 0..MaxTokens /\ 1 \in 0..MaxTokens
  BY GrantConstants DEF Token, Code
<1>3. CodeIssued \/ CodeRedeemed
  BY DEF GrantInit
<1>4. db \in SUBSET Facts /\ given \in SUBSET Token /\ family \in [Token -> 0..MaxTokens]
  BY <1>2, <1>3 DEF CodeIssued, CodeRedeemed, Facts
<1>5. GrantTypes
  BY <1>1, <1>2, <1>4, NewIsRequest DEF GrantInit, GrantTypes
<1>6. \A c \in Token : Purchased(c) => CodeRedeemed /\ c = 1
  BY <1>1, <1>3 DEF Purchased, CodeIssued, CodeRedeemed, Issued, Used, Redeemed, Record
<1>7. MintOrder
  <2>1. CASE CodeIssued
    BY <1>2, <1>6, <2>1 DEF MintOrder, CodeIssued, CodeRedeemed, Token
  <2>2. CASE CodeRedeemed
    <3>1. \A t \in Token : family[t] # 0 <=> t <= 1
      BY <2>2 DEF CodeRedeemed, Token
    <3> QED BY <1>2, <1>6, <2>2, <3>1 DEF MintOrder, CodeRedeemed
  <2> QED BY <1>3, <2>1, <2>2
<1>8. CodeRedeemed => spent[Code] = Before /\ given = {1} /\ Record(1) \in db
  BY <1>2 DEF CodeRedeemed, GrantInit
<1>9. CodeIssued => given = {}
  BY DEF CodeIssued
<1>10. ASSUME NEW r \in Request PROVE RequestInv(r)
  <2>1. Stage(r) = "new" /\ grant[r] = NewRequest /\ grant[r].gone = FALSE
        /\ grant[r].exposed = FALSE /\ grant[r].copy = FALSE
    BY NewIsRequest DEF GrantInit, Stage
  <2> QED BY <2>1 DEF RequestInv, Placed, HasClaim, Buying, Descends, ExposedStopped, Recorded,
                      CopyMet, Running
<1>11. OneBought /\ OneFamily /\ GivenRecorded
  BY <1>3, <1>6, <1>8, <1>9 DEF OneBought, OneFamily, GivenRecorded
<1>12. ExposedBarred
  BY DEF GrantInit, ExposedBarred
<1> QED BY <1>5, <1>7, <1>10, <1>11, <1>12 DEF GrantInv

-----------------------------------------------------------------------------
(* What a step does to the other requests.                                 *)

(* Facts of the service that no step takes back.                           *)
Grows ==
  /\ strict' = strict /\ faults <= faults' /\ faults' \in Nat
  /\ db \subseteq db' /\ barred \subseteq barred' /\ given \subseteq given'
  /\ \A t \in Token : family[t] # 0 => family'[t] = family[t]

(* What q relies on beside: the memory of its server, its claim.           *)
Leaves(q) ==
  /\ Stage(q) \in Running => facts[At(q)] \subseteq facts'[At(q)]
  /\ spent[Presents(q)] = q => spent'[Presents(q)] = q

CalmBefore == Calm' => Calm /\ \A c \in Token : Purchased(c) => Purchased(c)'

LEMMA OthersKept ==
  ASSUME GrantTypes, GrantTypes', MintOrder, Grows, CalmBefore, NEW q \in Request,
         RequestInv(q), grant'[q] = grant[q], Leaves(q)
  PROVE  RequestInv(q)'
<1>1. /\ Stage(q)' = Stage(q) /\ At(q)' = At(q) /\ Presents(q)' = Presents(q)
      /\ grant[q] \in GrantSet /\ Presents(q) \in 0..MaxTokens
  BY DEF Stage, At, Presents, GrantTypes, GrantSet
<1>2. Placed(q) /\ HasClaim(q) /\ Buying(q) /\ Descends(q) /\ ExposedStopped(q)
      /\ Recorded(q) /\ CopyMet(q)
  BY DEF RequestInv
<1>3. Stage(q) \in Running => Known(q) \subseteq Known(q)'
  BY <1>1 DEF Leaves, Known
<1>4. Stage(q) \in Running \cup {"refused"} /\ Presents(q) # Code =>
        FamilyOf(q)' = FamilyOf(q) /\ FamilyOf(q) \in Token
  <2>1. Stage(q) \in Running \cup {"refused"} /\ Presents(q) # Code =>
          Presents(q) \in Token /\ family[Presents(q)] # 0
    BY <1>1, <1>2, GrantConstants DEF Placed, MintOrder, GrantTypes, Token
  <2> QED BY <1>1, <2>1, GrantConstants DEF Grows, FamilyOf, GrantTypes, Token
<1>5. Placed(q)'
  BY <1>1, <1>2, <1>3 DEF Placed, Grows, Running
<1>6. HasClaim(q)'
  BY <1>1, <1>2 DEF HasClaim, Grows, Leaves
<1>7. Buying(q)'
  <2>1. SUFFICES ASSUME ~strict', Calm', Presents(q)' = Code
                 PROVE  /\ Stage(q)' \in {"minting", "signing"} => spent'[Code] = q
                        /\ Stage(q)' \in {"held", "done"} => Purchased(grant[q].child)'
    BY DEF Buying
  <2>2. ~strict /\ Calm /\ \A c \in Token : Purchased(c) => Purchased(c)'
    BY <2>1 DEF Grows, CalmBefore
  <2>3. Stage(q) \in {"held", "done"} => Purchased(grant[q].child)'
    BY <1>1, <1>2, <2>1, <2>2 DEF Buying, Placed
  <2> QED BY <1>1, <1>2, <2>1, <2>2, <2>3 DEF Buying, Leaves
<1>8. Descends(q)'
  <2>1. SUFFICES ASSUME strict, Stage(q) \in {"signing", "held"}, ~grant[q].gone
                 PROVE  family'[grant[q].child] = FamilyFor(q, grant[q].child)'
    BY <1>1 DEF Descends, Grows
  <2>2. /\ family[grant[q].child] = FamilyFor(q, grant[q].child)
        /\ family'[grant[q].child] = family[grant[q].child]
    BY <1>2, <2>1 DEF Descends, Placed, Grows
  <2> QED BY <1>1, <1>4, <2>1, <2>2 DEF FamilyFor, Running
<1>9. ExposedStopped(q)'
  BY <1>1, <1>2, <1>3, <1>4 DEF ExposedStopped, Grows, IsRevoked, Running
<1>10. Recorded(q)'
  BY <1>1, <1>2, <1>3 DEF Recorded, Grows, Running, GrantTypes
<1>11. CopyMet(q)'
  BY <1>1, <1>2, <1>3, <1>4 DEF CopyMet, Grows, Running, GrantTypes
<1> QED BY <1>5, <1>6, <1>7, <1>8, <1>9, <1>10, <1>11 DEF RequestInv

-----------------------------------------------------------------------------
(* What a step does to the request that takes it.                          *)

OthersStay(r) == \A q \in Request : q # r => grant'[q] = grant[q]

(* The request goes on to a stage, and may write rows.                     *)
Keeps(r) == /\ At(r)' = At(r) /\ Presents(r)' = Presents(r)
            /\ grant'[r].child = grant[r].child /\ grant'[r].gone = grant[r].gone
            /\ grant'[r].late = grant[r].late /\ grant'[r].copy = grant[r].copy
            /\ grant'[r].exposed = grant[r].exposed

Turns(r, to, rows) ==
  /\ grant' \in [Request -> GrantSet] /\ OthersStay(r) /\ Keeps(r)
  /\ Stage(r)' = to /\ grant'[r].owes = grant[r].owes \cup rows
  /\ rows \subseteq Facts
  /\ facts' = [facts EXCEPT ![At(r)] = facts[At(r)] \cup rows]

LEMMA GoesTurns ==
  ASSUME GrantTypes, NEW r \in Request, NEW to \in GrantStages, Goes(r, to), facts' = facts
  PROVE  Turns(r, to, {})
<1>1. grant' \in [Request -> GrantSet] /\ OthersStay(r)
  <2>1. [grant[r] EXCEPT !.stage = to] \in GrantSet
    BY DEF GrantTypes, GrantSet
  <2>2. grant' = [grant EXCEPT ![r] = [grant[r] EXCEPT !.stage = to]]
    BY DEF GrantTypes, Goes
  <2> QED BY <2>1, <2>2 DEF GrantTypes, OthersStay
<1>2. Keeps(r) /\ Stage(r)' = to /\ grant'[r].owes = grant[r].owes
  BY DEF GrantTypes, GrantSet, Goes, Keeps, Stage, At, Presents
<1>3. facts' = [facts EXCEPT ![At(r)] = facts[At(r)] \cup {}]
  BY DEF GrantTypes
<1> QED BY <1>1, <1>2, <1>3 DEF Turns

LEMMA WritesTurns ==
  ASSUME GrantTypes, NEW r \in Request, NEW to \in GrantStages, NEW rows \in SUBSET Facts,
         WritesRows(r, rows, to)
  PROVE  Turns(r, to, rows)
<1> DEFINE g == [[grant[r] EXCEPT !.stage = to] EXCEPT !.owes = grant[r].owes \cup rows]
<1>1. grant' \in [Request -> GrantSet]
  <2>1. grant[r] \in GrantSet /\ grant[r].owes \cup rows \in SUBSET Facts
    BY DEF GrantTypes, GrantSet
  <2>2. g \in GrantSet
    BY <2>1 DEF GrantSet
  <2>3. grant' = [grant EXCEPT ![r] = g]
    BY DEF GrantTypes, WritesRows
  <2> QED BY <2>2, <2>3 DEF GrantTypes
<1>3. OthersStay(r)
  BY DEF GrantTypes, WritesRows, OthersStay
<1>2. Keeps(r) /\ Stage(r)' = to /\ grant'[r].owes = grant[r].owes \cup rows
  BY DEF GrantTypes, GrantSet, WritesRows, Keeps, Stage, At, Presents
<1> QED BY <1>1, <1>2, <1>3 DEF Turns, WritesRows

(* What has to be so for a request to go on to a stage.                    *)
MayTurn(r, to, rows) ==
  /\ Stage(r) \in Running \ {"held"}
  /\ to \in {"asking", "waiting", "marking", "spending", "minting", "held", "failed", "refused"}
  /\ to = "waiting" => Presents(r) = Code
  /\ to \in {"marking", "spending"} => Presents(r) # Code
  /\ grant[r].gone => to \in {"held", "failed"}
  /\ to = "held" => Stage(r) = "signing"
  /\ to = "minting" /\ (strict \/ Presents(r) = Code) => spent'[Presents(r)] = r
  /\ spent[Presents(r)] = r => spent'[Presents(r)] = r
  /\ to = "held" /\ Presents(r) = Code => Purchased(grant[r].child)'
  /\ strict /\ grant[r].exposed /\ ~grant[r].late =>
       to \in {"asking", "marking", "refused"} /\ (to = "asking" => FamilyOf(r) \in barred)
  /\ strict /\ faults' = 0 /\ Presents(r) # Code =>
       /\ to = "held" => Rotated(Presents(r)) \in rows
       /\ grant[r].copy => /\ to \in {"marking", "refused"}
                           /\ to = "refused" => FamilyOf(r) \in barred'

LEMMA TurnKept ==
  ASSUME GrantTypes, GrantTypes', MintOrder, Grows, CalmBefore, NEW r \in Request,
         RequestInv(r), NEW to, NEW rows, Turns(r, to, rows), MayTurn(r, to, rows)
  PROVE  RequestInv(r)'
<1>1. /\ Stage(r)' = to /\ At(r)' = At(r) /\ Presents(r)' = Presents(r)
      /\ grant'[r].child = grant[r].child /\ grant'[r].gone = grant[r].gone
      /\ grant'[r].late = grant[r].late /\ grant'[r].copy = grant[r].copy
      /\ grant'[r].exposed = grant[r].exposed
      /\ grant'[r].owes = grant[r].owes \cup rows
      /\ Presents(r) \in 0..MaxTokens /\ grant[r].gone \in BOOLEAN
  BY DEF Turns, Keeps, Presents, GrantTypes, GrantSet
<1>2. Placed(r) /\ HasClaim(r) /\ Buying(r) /\ Descends(r) /\ ExposedStopped(r)
      /\ Recorded(r) /\ CopyMet(r)
  BY DEF RequestInv
<1>3. At(r) \in Server /\ Presents(r) \in given \cup {Code}
  BY <1>2 DEF MayTurn, Placed
<1>4. Known(r) \subseteq Known(r)'
  BY <1>1, <1>3 DEF Turns, Known, GrantTypes
<1>5. Presents(r) # Code => FamilyOf(r)' = FamilyOf(r) /\ FamilyOf(r) \in Token
  <2>1. Presents(r) # Code => Presents(r) \in Token /\ family[Presents(r)] # 0
    BY <1>1, <1>3 DEF MintOrder, GrantTypes
  <2> QED BY <1>1, <2>1, GrantConstants DEF Grows, FamilyOf, GrantTypes, Token
<1>6. Placed(r)'
  <2>1. At(r)' \in Server /\ Presents(r)' \in (given \cup {Code})'
    BY <1>1, <1>3 DEF Grows
  <2>2. to = "held" => grant[r].child \in Token /\ family'[grant[r].child] # 0
    BY <1>2 DEF Placed, MayTurn, Grows
  <2> QED BY <1>1, <2>1, <2>2 DEF Placed, MayTurn
<1>7. HasClaim(r)'
  BY <1>1, <1>2 DEF HasClaim, Grows, MayTurn
<1>8. Buying(r)'
  <2>1. SUFFICES ASSUME ~strict', Calm', Presents(r)' = Code
                 PROVE  /\ Stage(r)' \in {"minting", "signing"} => spent'[Code] = r
                        /\ Stage(r)' \in {"held", "done"} => Purchased(grant[r].child)'
    BY <1>1 DEF Buying
  <2> QED BY <1>1, <2>1 DEF MayTurn
<1>9. Descends(r)'
  <2>1. SUFFICES ASSUME strict, to = "held", ~grant[r].gone
                 PROVE  family'[grant[r].child] = FamilyFor(r, grant[r].child)'
    BY <1>1 DEF Descends, Grows, MayTurn
  <2>2. /\ family[grant[r].child] = FamilyFor(r, grant[r].child)
        /\ family'[grant[r].child] = family[grant[r].child]
    BY <1>2, <2>1 DEF Descends, Placed, Grows, MayTurn
  <2> QED BY <1>1, <1>5, <2>1, <2>2 DEF FamilyFor
<1>10. ExposedStopped(r)'
  BY <1>1, <1>2, <1>5 DEF ExposedStopped, Grows, MayTurn
<1>11. Recorded(r)'
  <2>1. SUFFICES ASSUME strict, faults' = 0
                 PROVE  /\ to \in Running /\ Presents(r) # Code =>
                             Record(Presents(r)) \in Known(r)'
                        /\ to = "held" => Record(grant[r].child) \in grant[r].owes
                        /\ to = "held" /\ Presents(r) # Code => Rotated(Presents(r)) \in rows
    BY <1>1 DEF Recorded, Grows, MayTurn
  <2>2. faults = 0
    BY <2>1 DEF Grows, GrantTypes
  <2> QED BY <1>2, <1>4, <2>1, <2>2 DEF Recorded, MayTurn
<1>12. CopyMet(r)'
  BY <1>1, <1>5 DEF CopyMet, Grows, MayTurn
<1> QED BY <1>6, <1>7, <1>8, <1>9, <1>10, <1>11, <1>12 DEF RequestInv

-----------------------------------------------------------------------------
(* The steps by which a request goes on.                                   *)

Redeems(r, to, rows) == \A c \in Token : Redeemed(c) \in rows =>
  c = grant[r].child /\ Presents(r) = Code /\ Stage(r) = "signing" /\ to = "held"

GoesOn(r, to, rows) ==
  /\ Turns(r, to, rows) /\ MayTurn(r, to, rows) /\ Redeems(r, to, rows)
  /\ UNCHANGED <<strict, family, db, given, exposed>>
  /\ barred \subseteq barred' /\ barred' \subseteq Token
  /\ faults <= faults' /\ faults' \in Nat
  /\ spent' \in [0..MaxTokens -> Request \cup {Nobody, Before}]
  /\ \A t \in 0..MaxTokens : spent'[t] = spent[t] \/ spent[t] = Nobody

(* No row is two kinds of row.                                             *)
LEMMA RowsDiffer ==
  \A c, t \in 0..MaxTokens :
    /\ Redeemed(c) # Revoked(t) /\ Redeemed(c) # Record(t) /\ Redeemed(c) # Rotated(t)
    /\ Redeemed(c) # Issued /\ Redeemed(c) # Used
    /\ Redeemed(c) = Redeemed(t) => c = t
BY DEF Redeemed, Revoked, Record, Rotated, Issued, Used

LEMMA MembersMinted ==
  ASSUME GrantTypes, NEW r \in Request, Presents(r) # Code
  PROVE  /\ Members(r) \subseteq Token /\ Presents(r) \in Token
         /\ {Revoked(t) : t \in Members(r)} \in SUBSET Facts
         /\ \A c \in Token : Redeemed(c) \notin {Revoked(t) : t \in Members(r)}
<1>1. Presents(r) \in Token
  BY GrantConstants DEF GrantTypes, GrantSet, Presents, Token, Code
<1>2. Members(r) \subseteq Token
  BY <1>1 DEF Members
<1>3. {Revoked(t) : t \in Members(r)} \in SUBSET Facts
  BY <1>2 DEF Facts
<1>4. \A c \in Token : Redeemed(c) \notin {Revoked(t) : t \in Members(r)}
  BY <1>2 DEF Redeemed, Revoked
<1> QED BY <1>1, <1>2, <1>3, <1>4

(* What each request of the invariant is where it stands.                  *)
LEMMA RequestFacts ==
  ASSUME GrantInv, NEW r \in Request
  PROVE  /\ GrantTypes /\ RequestInv(r) /\ Placed(r) /\ HasClaim(r) /\ Buying(r) /\ Descends(r)
         /\ ExposedStopped(r) /\ Recorded(r) /\ CopyMet(r)
         /\ Stage(r) \in Running \cup {"refused"} /\ Presents(r) # Code =>
              Presents(r) \in Token /\ FamilyOf(r) \in Token
         /\ Presents(r) \in 0..MaxTokens /\ grant[r] \in GrantSet
<1>1. Placed(r) /\ GrantTypes /\ MintOrder
  BY DEF GrantInv, RequestInv
<1>2. Presents(r) \in 0..MaxTokens /\ grant[r] \in GrantSet
  BY <1>1 DEF GrantTypes, GrantSet, Presents
<1>3. Stage(r) \in Running \cup {"refused"} /\ Presents(r) # Code =>
        Presents(r) \in Token /\ FamilyOf(r) \in Token
  BY <1>1, <1>2, GrantConstants DEF Placed, MintOrder, GrantTypes, FamilyOf, Token
<1> QED BY <1>1, <1>2, <1>3 DEF GrantInv, RequestInv

(* The steps that write no row, spend nothing and revoke nothing.          *)
LEMMA QuietTurns ==
  ASSUME GrantInv, NEW r \in Request,
         \/ CodeFound(r) \/ CodeUnknown(r) \/ StopsWaiting(r) \/ RefreshRevoked(r)
         \/ RefreshPasses(r) \/ FamilyClear(r) \/ MintFails(r)
  PROVE  \E to \in GrantStages : GoesOn(r, to, {})
<1>1. /\ UNCHANGED <<strict, family, facts, db, spent, barred, faults, given, exposed>>
      /\ \/ Goes(r, "asking") /\ (CodeFound(r) \/ (RefreshPasses(r) /\ strict))
         \/ Goes(r, "minting") /\ RefreshPasses(r) /\ ~strict
         \/ Goes(r, "refused") /\ (CodeUnknown(r) \/ StopsWaiting(r) \/ RefreshRevoked(r))
         \/ Goes(r, "spending") /\ FamilyClear(r)
         \/ Goes(r, "failed") /\ MintFails(r)
  BY DEF CodeFound, CodeUnknown, StopsWaiting, RefreshRevoked, RefreshPasses, FamilyClear,
         MintFails, GrantInv, GrantTypes
<1>2. /\ Placed(r) /\ GrantTypes /\ ExposedStopped(r) /\ CopyMet(r)
  BY RequestFacts
<1>3. ASSUME CodeFound(r) PROVE MayTurn(r, "asking", {})
  BY <1>1, <1>2, <1>3 DEF CodeFound, MayTurn, Placed, ExposedStopped, Running
<1>4. ASSUME RefreshPasses(r), strict PROVE MayTurn(r, "asking", {})
  BY <1>1, <1>2, <1>4 DEF RefreshPasses, MayTurn, Placed, ExposedStopped, CopyMet, Running
<1>5. ASSUME RefreshPasses(r), ~strict PROVE MayTurn(r, "minting", {})
  BY <1>1, <1>2, <1>5 DEF RefreshPasses, MayTurn, Placed, Running
<1>6. ASSUME CodeUnknown(r) \/ StopsWaiting(r) \/ RefreshRevoked(r)
      PROVE  MayTurn(r, "refused", {})
  BY <1>1, <1>2, <1>6 DEF CodeUnknown, StopsWaiting, RefreshRevoked, MayTurn, Placed,
                          ExposedStopped, CopyMet, Running
<1>7. ASSUME FamilyClear(r) PROVE MayTurn(r, "spending", {})
  BY <1>1, <1>2, <1>7 DEF FamilyClear, MayTurn, Placed, ExposedStopped, CopyMet, Running
<1>8. ASSUME MintFails(r) PROVE MayTurn(r, "failed", {})
  BY <1>1, <1>2, <1>8 DEF MintFails, MayTurn, Placed, ExposedStopped, CopyMet, Running
<1>9. PICK to \in GrantStages : Goes(r, to) /\ MayTurn(r, to, {})
  BY <1>1, <1>3, <1>4, <1>5, <1>6, <1>7, <1>8 DEF GrantStages, Running
<1>10. Turns(r, to, {})
  BY <1>1, <1>2, <1>9, GoesTurns
<1> QED BY <1>1, <1>2, <1>9, <1>10 DEF GoesOn, Redeems, GrantTypes

(* The steps that write rows.                                              *)
LEMMA WritingTurns ==
  ASSUME GrantInv, NEW r \in Request,
         (strict /\ CodeReplayed(r)) \/ RefreshReplayed(r) \/ FamilyBarred(r) \/ Signs(r)
  PROVE  \E to \in GrantStages, rows \in SUBSET Facts : GoesOn(r, to, rows)
<1>1. /\ UNCHANGED <<strict, family, db, spent, barred, faults, given, exposed>>
  BY DEF CodeReplayed, RefreshReplayed, FamilyBarred, Signs
<1>2. /\ Placed(r) /\ GrantTypes /\ ExposedStopped(r) /\ CopyMet(r) /\ Recorded(r) /\ HasClaim(r)
      /\ Buying(r)
  BY RequestFacts
<1>3. PICK to \in GrantStages, rows \in SUBSET Facts :
        WritesRows(r, rows, to) /\ MayTurn(r, to, rows) /\ Redeems(r, to, rows)
  <2>1. CASE strict /\ CodeReplayed(r)
    <3>1. PICK c \in Token : WritesRows(r, {Revoked(c)}, "refused")
      BY <2>1 DEF CodeReplayed, Purchases
    <3>2. {Revoked(c)} \in SUBSET Facts
      BY DEF Facts
    <3>3. MayTurn(r, "refused", {Revoked(c)})
      BY <1>1, <1>2, <2>1 DEF CodeReplayed, MayTurn, Placed, ExposedStopped, Running
    <3>4. Redeems(r, "refused", {Revoked(c)})
      BY DEF Redeems, Redeemed, Revoked
    <3> QED BY <3>1, <3>2, <3>3, <3>4 DEF GrantStages
  <2>2. CASE RefreshReplayed(r)
    <3> DEFINE R == {Revoked(t) : t \in Members(r)}
    <3>1. WritesRows(r, R, "marking") /\ Presents(r) # Code
      BY <2>2 DEF RefreshReplayed, RevokesMembers
    <3>2. R \in SUBSET Facts /\ Redeems(r, "marking", R)
      BY <1>2, <3>1, MembersMinted DEF Redeems
    <3> HIDE DEF R
    <3>3. MayTurn(r, "marking", R)
      BY <1>1, <1>2, <2>2 DEF RefreshReplayed, MayTurn, Placed, Running
    <3> QED BY <3>1, <3>2, <3>3 DEF GrantStages, Running
  <2>3. CASE FamilyBarred(r)
    <3> DEFINE R == {Revoked(t) : t \in Members(r)}
    <3>1. WritesRows(r, R, "refused") /\ Presents(r) # Code
      BY <2>3 DEF FamilyBarred, RevokesMembers
    <3>2. R \in SUBSET Facts /\ Redeems(r, "refused", R)
      BY <1>2, <3>1, MembersMinted DEF Redeems
    <3> HIDE DEF R
    <3>3. MayTurn(r, "refused", R)
      BY <1>1, <1>2, <2>3 DEF FamilyBarred, MayTurn, Placed, CopyMet, Running
    <3> QED BY <3>1, <3>2, <3>3 DEF GrantStages, Running
  <2>4. CASE Signs(r)
    <3>1. Stage(r) = "signing" /\ WritesRows(r, Retires(r), "held") /\ grant[r].child \in Token
      BY <1>2, <2>4 DEF Signs, Placed
    <3>2. Presents(r) # Code => Presents(r) \in Token
      BY RequestFacts, <3>1 DEF Running
    <3>3. Retires(r) \in SUBSET Facts /\ Redeems(r, "held", Retires(r))
      <4>1. CASE Presents(r) = Code
        <5>1. Retires(r) = {Used, Redeemed(grant[r].child)}
          BY <4>1 DEF Retires
        <5>2. {Used, Redeemed(grant[r].child)} \in SUBSET Facts
          BY <3>1 DEF Facts
        <5>3. \A c \in Token : Redeemed(c) \in {Used, Redeemed(grant[r].child)}
                => c = grant[r].child
          BY DEF Redeemed, Used
        <5> QED BY <3>1, <4>1, <5>1, <5>2, <5>3 DEF Redeems
      <4>2. CASE Presents(r) # Code
        <5>1. Retires(r) \subseteq {Revoked(Presents(r)), Rotated(Presents(r))}
          BY <4>2 DEF Retires
        <5>2. {Revoked(Presents(r)), Rotated(Presents(r))} \in SUBSET Facts
          BY <3>2, <4>2 DEF Facts
        <5>3. \A c \in Token : Redeemed(c) \notin {Revoked(Presents(r)), Rotated(Presents(r))}
          BY DEF Redeemed, Revoked, Rotated
        <5> QED BY <5>1, <5>2, <5>3 DEF Redeems
      <4> QED BY <4>1, <4>2
    <3>4. MayTurn(r, "held", Retires(r))
      <4>1. Presents(r) = Code => Purchased(grant[r].child)'
        <5>1. SUFFICES ASSUME Presents(r) = Code PROVE Redeemed(grant[r].child) \in facts'[At(r)]
          BY <1>2, <3>1 DEF Purchased, Placed, WritesRows, GrantTypes, GrantSet, Running
        <5>2. Redeemed(grant[r].child) \in Retires(r)
          BY <5>1 DEF Retires
        <5>3. At(r) \in Server
          BY <1>2, <3>1 DEF Placed, Running
        <5> QED BY <1>2, <3>1, <5>2, <5>3 DEF WritesRows, GrantTypes
      <4>2. strict /\ faults' = 0 /\ Presents(r) # Code => Rotated(Presents(r)) \in Retires(r)
        BY <1>1, <1>2, <3>1 DEF Recorded, Running, Retires
      <4>3. strict /\ faults' = 0 /\ Presents(r) # Code => ~grant[r].copy
        BY <1>1, <1>2, <3>1 DEF CopyMet
      <4>4. ~(strict /\ grant[r].exposed /\ ~grant[r].late)
        BY <1>2, <3>1 DEF ExposedStopped
      <4> QED BY <1>1, <3>1, <4>1, <4>2, <4>3, <4>4 DEF MayTurn, Running
    <3> QED BY <3>1, <3>3, <3>4 DEF GrantStages, Running
  <2> QED BY <2>1, <2>2, <2>3, <2>4
<1>4. Turns(r, to, rows)
  BY <1>2, <1>3, WritesTurns
<1> QED BY <1>1, <1>2, <1>3, <1>4 DEF GoesOn, GrantTypes

(* The steps that claim, mark a family, or find the store silent.          *)
LEMMA StoreTurns ==
  ASSUME GrantInv, NEW r \in Request,
         Marks(r) \/ Spends(r) \/ AlreadySpent(r) \/ StoreSilent(r)
  PROVE  \E to \in GrantStages, rows \in SUBSET Facts : GoesOn(r, to, rows)
<1>1. /\ UNCHANGED <<strict, family, db, given, exposed>>
  BY DEF Marks, Spends, AlreadySpent, StoreSilent
<1>2. /\ Placed(r) /\ GrantTypes /\ ExposedStopped(r) /\ CopyMet(r) /\ Recorded(r)
      /\ Presents(r) \in 0..MaxTokens /\ faults \in Nat
  BY RequestFacts DEF GrantTypes
<1>3. CASE Marks(r)
  <2>1. /\ Goes(r, "refused") /\ facts' = facts /\ spent' = spent /\ faults' = faults
        /\ barred' = barred \cup {FamilyOf(r)} /\ Stage(r) = "marking"
    BY <1>3 DEF Marks
  <2>2. Presents(r) # Code /\ FamilyOf(r) \in Token
    BY <1>2, <2>1, RequestFacts DEF Placed, Running
  <2>3. MayTurn(r, "refused", {})
    BY <1>2, <2>1, <2>2 DEF MayTurn, Placed, Running
  <2>4. Turns(r, "refused", {})
    BY <1>2, <2>1, GoesTurns DEF GrantStages
  <2>5. /\ Redeems(r, "refused", {}) /\ barred \subseteq barred' /\ barred' \subseteq Token
        /\ faults <= faults' /\ faults' \in Nat
    BY <1>2, <2>1, <2>2 DEF Redeems, GrantTypes
  <2>6. GoesOn(r, "refused", {})
    BY <1>1, <1>2, <2>1, <2>3, <2>4, <2>5 DEF GoesOn, GrantTypes
  <2> QED BY <2>6 DEF GrantStages
<1>4. CASE Spends(r)
  <2>1. /\ Goes(r, "minting") /\ facts' = facts /\ barred' = barred /\ faults' = faults
        /\ spent' = [spent EXCEPT ![Presents(r)] = r] /\ spent[Presents(r)] = Nobody
        /\ (Stage(r) = "asking" /\ Presents(r) = Code) \/ Stage(r) = "spending"
    BY <1>4 DEF Spends, Spending, Unspent
  <2>2. MayTurn(r, "minting", {})
    BY <1>1, <1>2, <2>1 DEF MayTurn, Placed, ExposedStopped, CopyMet, Running, GrantTypes
  <2>3. Turns(r, "minting", {})
    BY <1>2, <2>1, GoesTurns DEF GrantStages, Running
  <2>4. /\ spent' \in [0..MaxTokens -> Request \cup {Nobody, Before}]
        /\ \A t \in 0..MaxTokens : spent'[t] = spent[t] \/ spent[t] = Nobody
    BY <1>2, <2>1 DEF GrantTypes
  <2>5. Redeems(r, "minting", {}) /\ barred' \subseteq Token
    BY <1>2, <2>1 DEF Redeems, GrantTypes
  <2>6. barred \subseteq barred' /\ faults <= faults' /\ faults' \in Nat
    BY <1>2, <2>1
  <2>7. GoesOn(r, "minting", {})
    BY <1>1, <2>2, <2>3, <2>4, <2>5, <2>6 DEF GoesOn
  <2> QED BY <2>7 DEF GrantStages, Running
<1>5. CASE AlreadySpent(r)
  <2>1. /\ spent' = spent /\ barred' = barred /\ faults' = faults
        /\ (Stage(r) = "asking" /\ Presents(r) = Code) \/ Stage(r) = "spending"
    BY <1>5 DEF AlreadySpent, Spending
  <2>2. CASE Presents(r) = Code
    <3>1. Goes(r, "waiting") /\ facts' = facts
      BY <1>5, <2>2 DEF AlreadySpent
    <3>2. MayTurn(r, "waiting", {})
      BY <1>1, <1>2, <2>1, <2>2 DEF MayTurn, Placed, ExposedStopped, Running
    <3>3. Turns(r, "waiting", {})
      BY <1>2, <3>1, GoesTurns DEF GrantStages, Running
    <3> QED BY <1>1, <1>2, <2>1, <3>2, <3>3 DEF GoesOn, Redeems, GrantTypes, GrantStages, Running
  <2>3. CASE Presents(r) # Code
    <3> DEFINE R == {Revoked(t) : t \in Members(r)}
    <3>1. WritesRows(r, R, "marking")
      BY <1>5, <2>3 DEF AlreadySpent, RevokesMembers
    <3>2. R \in SUBSET Facts /\ Redeems(r, "marking", R)
      BY <1>2, <2>3, MembersMinted DEF Redeems
    <3> HIDE DEF R
    <3>3. MayTurn(r, "marking", R)
      BY <1>1, <1>2, <2>1, <2>3 DEF MayTurn, Placed, Running
    <3>4. Turns(r, "marking", R)
      BY <1>2, <3>1, <3>2, WritesTurns DEF GrantStages, Running
    <3> QED BY <1>1, <1>2, <2>1, <3>2, <3>3, <3>4 DEF GoesOn, GrantTypes, GrantStages, Running
  <2> QED BY <2>2, <2>3
<1>6. CASE StoreSilent(r)
  <2>1. /\ Goes(r, "refused") /\ facts' = facts /\ barred' = barred /\ faults' = faults + 1
        /\ \/ spent' = spent
           \/ spent[Presents(r)] = Nobody /\ spent' = [spent EXCEPT ![Presents(r)] = r]
        /\ Stage(r) \in {"asking", "spending", "marking"}
    BY <1>6 DEF StoreSilent, Spending, Unspent
  <2>2. faults' # 0 /\ faults' \in Nat /\ faults <= faults'
    BY <1>2, <2>1
  <2>3. spent[Presents(r)] = r => spent'[Presents(r)] = r
    BY <1>2, <2>1 DEF GrantTypes
  <2>4. MayTurn(r, "refused", {})
    BY <1>1, <1>2, <2>1, <2>2, <2>3 DEF MayTurn, Placed, Running
  <2>5. Turns(r, "refused", {})
    BY <1>2, <2>1, GoesTurns DEF GrantStages
  <2>6. /\ spent' \in [0..MaxTokens -> Request \cup {Nobody, Before}]
        /\ \A t \in 0..MaxTokens : spent'[t] = spent[t] \/ spent[t] = Nobody
    BY <1>2, <2>1 DEF GrantTypes
  <2>7. Redeems(r, "refused", {}) /\ barred' \subseteq Token
    BY <1>2, <2>1 DEF Redeems, GrantTypes
  <2>8. barred \subseteq barred'
    BY <2>1
  <2>9. GoesOn(r, "refused", {})
    BY <1>1, <2>2, <2>4, <2>5, <2>6, <2>7, <2>8 DEF GoesOn
  <2> QED BY <2>9 DEF GrantStages
<1> QED BY <1>3, <1>4, <1>5, <1>6

(* Going on keeps the invariant: rows are only added, and a claim that is   *)
(* held stays where it is.                                                 *)
LEMMA GoesOnKept ==
  ASSUME GrantInv, NEW r \in Request, NEW to \in GrantStages, NEW rows \in SUBSET Facts,
         GoesOn(r, to, rows)
  PROVE  GrantInv'
<1>1. /\ GrantTypes /\ MintOrder /\ OneBought /\ OneFamily /\ ExposedBarred /\ GivenRecorded
      /\ Turns(r, to, rows) /\ MayTurn(r, to, rows) /\ Redeems(r, to, rows)
      /\ UNCHANGED <<strict, family, db, given, exposed>>
      /\ barred \subseteq barred' /\ faults <= faults' /\ faults' \in Nat /\ faults \in Nat
  BY DEF GrantInv, GoesOn, GrantTypes
<1>2. /\ Placed(r) /\ At(r) \in Server /\ Presents(r) \in 0..MaxTokens
      /\ Stage(r) \in Running \ {"held"} /\ Stage(r)' = to
  BY <1>1, RequestFacts DEF MayTurn, Placed, Turns
<1>3. GrantTypes'
  <2>1. facts' \in [Server -> SUBSET Facts]
    BY <1>1, <1>2 DEF Turns, GrantTypes
  <2> QED BY <1>1, <2>1 DEF GoesOn, Turns, GrantTypes
<1>4. \A n \in Server : facts[n] \subseteq facts'[n] /\ facts'[n] \subseteq facts[n] \cup rows
  BY <1>1, <1>2 DEF Turns, GrantTypes
<1>5. Grows
  BY <1>1 DEF Grows
<1>6. \A c : Purchased(c) => Purchased(c)'
  BY <1>1, <1>4 DEF Purchased
<1>7. CalmBefore
  <2>1. \A q \in Request : grant'[q].gone = grant[q].gone
    BY <1>1 DEF Turns, OthersStay, Keeps
  <2>2. Calm' => Calm
    BY <1>1, <2>1 DEF Calm
  <2> QED BY <1>6, <2>2 DEF CalmBefore
<1>8. \A t \in 0..MaxTokens : spent'[t] = spent[t] \/ spent[t] = Nobody
  BY DEF GoesOn
<1>9. ASSUME NEW q \in Request PROVE RequestInv(q)'
  <2>1. CASE q = r
    BY <1>1, <1>3, <1>5, <1>7, <2>1, RequestFacts, TurnKept
  <2>2. CASE q # r
    <3>1. grant'[q] = grant[q]
      BY <1>1, <2>2 DEF Turns, OthersStay
    <3>2. RequestInv(q) /\ Placed(q) /\ Presents(q) \in 0..MaxTokens
      BY RequestFacts
    <3>3. Leaves(q)
      BY <1>4, <1>8, <3>2, GrantConstants DEF Leaves, Placed, Nobody
    <3> QED BY <1>1, <1>3, <1>5, <1>7, <3>1, <3>2, <3>3, OthersKept
  <2> QED BY <2>1, <2>2
<1>10. \A c \in Token : Purchased(c)' =>
         \/ Purchased(c)
         \/ c = grant[r].child /\ Presents(r) = Code /\ Stage(r) = "signing" /\ to = "held"
  BY <1>1, <1>4 DEF Purchased, Redeems
<1>11. MintOrder'
  <2>1. \A t \in Token : (t \in given \/ Purchased(t))' => family'[t] # 0
    BY <1>1, <1>2, <1>10 DEF MintOrder, Placed
  <2> QED BY <1>1, <2>1 DEF MintOrder
<1>12. ASSUME NEW p \in Request, Stage(p) \in {"held", "done"} \/ Stage(p) = "done"
       PROVE  p # r /\ grant'[p] = grant[p] /\ Stage(p)' = Stage(p) /\ Presents(p)' = Presents(p)
  <2>1. p # r
    BY <1>2, <1>12 DEF Running
  <2> QED BY <1>1, <2>1 DEF Turns, OthersStay, Stage, Presents
<1>13. \A t \in 0..MaxTokens : spent[t] # Nobody => spent'[t] = spent[t]
  BY <1>8
<1>14. OneBought'
  <2> SUFFICES ASSUME ~strict, Calm', NEW c \in Token, Purchased(c)'
               PROVE  \/ spent'[Code] = Before /\ c = 1
                      \/ \E p \in Request : /\ spent'[Code] = p /\ Presents(p)' = Code
                                            /\ Stage(p)' \in {"held", "done"}
                                            /\ grant'[p].child = c
    BY <1>1 DEF OneBought
  <2>1. Calm /\ Code \in 0..MaxTokens
    BY <1>7, GrantConstants DEF CalmBefore, Code
  <2>2. CASE Purchased(c)
    BY <1>1, <1>12, <1>13, <2>1, <2>2, GrantConstants DEF OneBought, Nobody, Before
  <2>3. CASE c = grant[r].child /\ Presents(r) = Code /\ Stage(r) = "signing" /\ to = "held"
    <3>1. spent[Code] = r
      BY <2>1, <2>3, RequestFacts DEF Buying
    <3>2. spent'[Code] = r
      BY <1>1, <2>3, <3>1 DEF MayTurn
    <3> QED BY <1>1, <1>2, <2>3, <3>2 DEF Turns, Keeps
  <2> QED BY <1>10, <2>2, <2>3
<1>15. OneFamily'
  <2>1. strict /\ given # {} => \/ spent[Code] = Before
                                \/ \E p \in Request : spent[Code] = p /\ Stage(p) = "done"
    BY <1>1 DEF OneFamily
  <2>2. strict /\ given # {} => \/ spent'[Code] = Before
                                \/ \E p \in Request : spent'[Code] = p /\ Stage(p)' = "done"
    BY <1>12, <1>13, <2>1, GrantConstants DEF Code, Before, Nobody
  <2> QED BY <1>1, <2>2 DEF OneFamily
<1>16. ExposedBarred'
  BY <1>1 DEF ExposedBarred
<1>17. GivenRecorded'
  BY <1>1 DEF GivenRecorded
<1> QED BY <1>3, <1>9, <1>11, <1>14, <1>15, <1>16, <1>17 DEF GrantInv

-----------------------------------------------------------------------------
(* The other steps.                                                        *)

(* What is said of all requests together, when no token is minted, given   *)
(* out or bought, and what was answered or has bought stays as it was.     *)
Quiet ==
  /\ Grows /\ CalmBefore /\ family' = family /\ given' = given
  /\ \A c \in Token : Purchased(c)' => Purchased(c)
  /\ spent[Code] = Before => spent'[Code] = Before
  /\ \A p \in Request : Stage(p) = "done" \/ (Calm' /\ Stage(p) = "held") =>
       /\ grant'[p].stage = grant[p].stage /\ grant'[p].child = grant[p].child
       /\ Presents(p)' = Presents(p)
       /\ spent[Code] = p => spent'[Code] = p

LEMMA QuietKept ==
  ASSUME GrantInv, Quiet
  PROVE  MintOrder' /\ OneBought' /\ OneFamily' /\ GivenRecorded'
         /\ (exposed' = exposed => ExposedBarred')
<1>1. /\ MintOrder /\ OneBought /\ OneFamily /\ ExposedBarred /\ GivenRecorded
      /\ Grows /\ CalmBefore /\ family' = family /\ given' = given /\ strict' = strict
      /\ faults \in Nat /\ faults' \in Nat /\ faults <= faults' /\ db \subseteq db'
      /\ barred \subseteq barred'
  BY DEF GrantInv, Quiet, Grows, GrantTypes
<1>2. MintOrder'
  BY <1>1 DEF MintOrder, Quiet
<1>3. OneBought'
  <2> SUFFICES ASSUME ~strict, Calm', NEW c \in Token, Purchased(c)'
               PROVE  \/ spent'[Code] = Before /\ c = 1
                      \/ \E p \in Request : /\ spent'[Code] = p /\ Presents(p)' = Code
                                            /\ Stage(p)' \in {"held", "done"}
                                            /\ grant'[p].child = c
    BY <1>1 DEF OneBought
  <2>1. \/ spent[Code] = Before /\ c = 1
        \/ \E p \in Request : /\ spent[Code] = p /\ Presents(p) = Code
                              /\ Stage(p) \in {"held", "done"} /\ grant[p].child = c
    BY <1>1 DEF OneBought, CalmBefore, Quiet
  <2> QED BY <2>1 DEF Quiet, Stage
<1>4. OneFamily'
  <2>1. strict /\ given # {} => \/ spent'[Code] = Before
                                \/ \E p \in Request : spent'[Code] = p /\ Stage(p)' = "done"
    BY <1>1 DEF OneFamily, Quiet, Stage
  <2> QED BY <1>1, <2>1 DEF OneFamily
<1>5. GivenRecorded'
  BY <1>1 DEF GivenRecorded
<1>6. exposed' = exposed => ExposedBarred'
  BY <1>1 DEF ExposedBarred
<1> QED BY <1>2, <1>3, <1>4, <1>5, <1>6

(* A request that is over has nothing left to keep.                        *)
LEMMA OverKept ==
  ASSUME NEW q \in Request, NEW b \in BOOLEAN,
         grant'[q] = Over \/ grant'[q] = [Over EXCEPT !.gone = b]
  PROVE  RequestInv(q)'
<1>1. /\ Stage(q)' = "over" /\ grant'[q].copy = FALSE /\ grant'[q].exposed = FALSE
  BY NewIsRequest DEF Over, NewRequest, Stage
<1> QED BY <1>1 DEF RequestInv, Placed, HasClaim, Buying, Descends, ExposedStopped, Recorded,
                    CopyMet, Running

(* The memories only grow, and nothing else happens.                       *)
LEMMA ServersKept ==
  ASSUME GrantInv, (\E r \in Request : Pulls(r)) \/ (\E n \in Server : Commits(n))
  PROVE  GrantInv'
<1>1. /\ UNCHANGED <<strict, family, spent, barred, grant, faults, given, exposed>>
      /\ GrantTypes /\ db \subseteq db'
  BY DEF Pulls, Commits, GrantInv
<1>2. /\ GrantTypes' /\ \A n \in Server : facts[n] \subseteq facts'[n]
      /\ \A c \in Token : Purchased(c)' <=> Purchased(c)
  <2>1. CASE \E r \in Request : Pulls(r)
    <3>1. PICK r \in Request : Pulls(r)
      BY <2>1
    <3>2. At(r) \in Server /\ facts' = [facts EXCEPT ![At(r)] = facts[At(r)] \cup db] /\ db' = db
      BY <3>1, RequestFacts DEF Pulls, Placed, Running
    <3>3. facts' \in [Server -> SUBSET Facts]
      BY <1>1, <3>2 DEF GrantTypes
    <3>4. \A n \in Server : facts[n] \subseteq facts'[n] /\ facts'[n] \subseteq facts[n] \cup db
      BY <1>1, <3>2 DEF GrantTypes
    <3> QED BY <1>1, <3>2, <3>3, <3>4 DEF GrantTypes, Purchased
  <2>2. CASE \E n \in Server : Commits(n)
    <3>1. PICK n \in Server : db' = db \cup facts[n] /\ facts' = facts
      BY <2>2 DEF Commits
    <3>2. db' \in SUBSET Facts
      BY <1>1, <3>1 DEF GrantTypes
    <3> QED BY <1>1, <3>1, <3>2 DEF GrantTypes, Purchased
  <2> QED BY <2>1, <2>2
<1>3. Grows /\ CalmBefore
  BY <1>1, <1>2 DEF Grows, CalmBefore, Calm, GrantTypes
<1>4. Quiet
  BY <1>1, <1>2, <1>3 DEF Quiet, Presents
<1>5. ASSUME NEW q \in Request PROVE RequestInv(q)'
  <2>1. RequestInv(q) /\ Placed(q) /\ MintOrder
    BY RequestFacts DEF GrantInv
  <2>2. Leaves(q)
    BY <1>1, <1>2, <2>1 DEF Leaves, Placed
  <2> QED BY <1>1, <1>2, <1>3, <2>1, <2>2, OthersKept
<1> QED BY <1>1, <1>2, <1>4, <1>5, QuietKept DEF GrantInv

LEMMA CrashesKept ==
  ASSUME GrantInv, NEW n \in Server, Crashes(n)
  PROVE  GrantInv'
<1>1. /\ UNCHANGED <<strict, family, db, spent, barred, given, exposed>>
      /\ GrantTypes /\ MintOrder /\ faults' = faults + 1 /\ faults \in Nat
      /\ facts' = [facts EXCEPT ![n] = db]
  BY DEF Crashes, GrantInv, GrantTypes
<1>2. \A q \in Request : grant'[q] = IF At(q) = n /\ Stage(q) \in Running THEN Over ELSE grant[q]
  BY DEF Crashes
<1>3. GrantTypes'
  <2>1. facts' \in [Server -> SUBSET Facts]
    BY <1>1 DEF GrantTypes
  <2>2. grant' \in [Request -> GrantSet]
    BY <1>1, NewIsRequest DEF Crashes, GrantTypes
  <2> QED BY <1>1, <2>1, <2>2 DEF GrantTypes
<1>4. \A c \in Token : Purchased(c)' => Purchased(c)
  BY <1>1 DEF Purchased, GrantTypes
<1>5. Grows /\ ~Calm' /\ CalmBefore
  BY <1>1 DEF Grows, Calm, CalmBefore
<1>6. Quiet
  <2>1. \A p \in Request : Stage(p) = "done" => grant'[p] = grant[p]
    BY <1>2 DEF Running
  <2> QED BY <1>1, <1>4, <1>5, <2>1 DEF Quiet, Presents
<1>7. ASSUME NEW q \in Request PROVE RequestInv(q)'
  <2>1. CASE At(q) = n /\ Stage(q) \in Running
    BY <1>2, <2>1, OverKept
  <2>2. CASE ~(At(q) = n /\ Stage(q) \in Running)
    <3>1. RequestInv(q) /\ Placed(q) /\ grant'[q] = grant[q]
      BY <1>2, <2>2, RequestFacts
    <3>2. Leaves(q)
      BY <1>1, <2>2, <3>1 DEF Leaves, Placed, GrantTypes
    <3> QED BY <1>1, <1>3, <1>5, <3>1, <3>2, OthersKept
  <2> QED BY <2>1, <2>2
<1> QED BY <1>1, <1>3, <1>6, <1>7, QuietKept DEF GrantInv

LEMMA ArrivesKept ==
  ASSUME GrantInv, NEW r \in Request, NEW n \in Server, NEW t \in 0..MaxTokens,
         Arrives(r, n, t) \/ ArrivesLate(r, n, t)
  PROVE  GrantInv'
<1>1. PICK isLate \in BOOLEAN : /\ Comes(r, n, t, isLate)
                                /\ isLate <=> ~Arrives(r, n, t)
                                /\ isLate => faults' = faults + 1 /\ facts' = facts
                                /\ ~isLate => /\ faults' = faults
                                              /\ facts' = [facts EXCEPT ![n] = facts[n] \cup db]
  <2>1. CASE Arrives(r, n, t)
    BY <2>1 DEF Arrives
  <2>2. CASE ~Arrives(r, n, t)
    BY <2>2 DEF ArrivesLate
  <2> QED BY <2>1, <2>2
<1>2. /\ UNCHANGED <<strict, family, db, spent, barred, given, exposed>>
      /\ GrantTypes /\ MintOrder /\ faults \in Nat /\ Stage(r) = "new" /\ t \in given \cup {Code}
      /\ faults' \in Nat /\ faults <= faults' /\ (faults' = 0 => faults = 0 /\ ~isLate)
  <2>1. UNCHANGED <<strict, family, db, spent, barred, given, exposed>>
    BY DEF Arrives, ArrivesLate
  <2>2. GrantTypes /\ MintOrder /\ faults \in Nat
    BY DEF GrantInv, GrantTypes
  <2>3. Stage(r) = "new" /\ t \in given \cup {Code}
    BY <1>1 DEF Comes
  <2>4. faults' \in Nat /\ faults <= faults' /\ (faults' = 0 => faults = 0 /\ ~isLate)
    BY <1>1, <2>2
  <2> QED BY <2>1, <2>2, <2>3, <2>4
<1>3. /\ grant[r] = NewRequest /\ grant[r].gone = FALSE /\ grant[r].owes = {}
      /\ grant[r].child = 0
  BY <1>2, RequestFacts, NewIsRequest DEF Placed
<1> DEFINE g == grant'[r]
<1>4. /\ g \in GrantSet /\ g.stage = "arrived" /\ g.at = n /\ g.token = t /\ g.late = isLate
      /\ g.gone = FALSE /\ g.copy = (Delivered(t) # {}) /\ g.exposed = (t \in exposed)
      /\ \A q \in Request : q # r => grant'[q] = grant[q]
      /\ grant' \in [Request -> GrantSet]
  <2> DEFINE G1 == [[[grant[r] EXCEPT !.stage = "arrived"] EXCEPT !.at = n] EXCEPT !.token = t]
  <2> DEFINE G == [[[G1 EXCEPT !.late = isLate] EXCEPT !.copy = (Delivered(t) # {})]
                      EXCEPT !.exposed = (t \in exposed)]
  <2>1. grant' = [grant EXCEPT ![r] = G]
    BY <1>1, <1>2 DEF Comes, GrantTypes
  <2>2. grant[r] \in GrantSet /\ "arrived" \in GrantStages
    BY <1>2 DEF GrantTypes, GrantStages, Running
  <2>5. G1 \in GrantSet
    BY <2>2 DEF GrantSet
  <2>6. G1.stage = "arrived" /\ G1.at = n /\ G1.token = t /\ G1.gone = grant[r].gone
    BY <2>2 DEF GrantSet
  <2> HIDE DEF G1
  <2>7. \A x, y, z \in BOOLEAN :
          [[[G1 EXCEPT !.late = x] EXCEPT !.copy = y] EXCEPT !.exposed = z] \in GrantSet
    BY <2>5 DEF GrantSet
  <2>8. (Delivered(t) # {}) \in BOOLEAN /\ (t \in exposed) \in BOOLEAN
    OBVIOUS
  <2>3. G \in GrantSet
    BY <2>7, <2>8, Zenon
  <2>4. /\ G.stage = "arrived" /\ G.at = n /\ G.token = t /\ G.late = isLate
        /\ G.gone = grant[r].gone /\ G.copy = (Delivered(t) # {}) /\ G.exposed = (t \in exposed)
    BY <2>5, <2>6 DEF GrantSet
  <2> HIDE DEF G
  <2> QED BY <1>2, <1>3, <2>1, <2>3, <2>4 DEF GrantTypes
<1>5. /\ Stage(r)' = "arrived" /\ At(r)' = n /\ Presents(r)' = t
  BY <1>4 DEF Stage, At, Presents
<1>6. /\ facts' \in [Server -> SUBSET Facts] /\ GrantTypes'
      /\ \A m \in Server : facts[m] \subseteq facts'[m] /\ facts'[m] \subseteq facts[m] \cup db
      /\ ~isLate => db \subseteq facts'[n]
  <2>1. facts' \in [Server -> SUBSET Facts]
    BY <1>1, <1>2 DEF GrantTypes
  <2>2. /\ \A m \in Server : facts[m] \subseteq facts'[m] /\ facts'[m] \subseteq facts[m] \cup db
        /\ ~isLate => db \subseteq facts'[n]
    BY <1>1, <1>2 DEF GrantTypes
  <2> QED BY <1>2, <1>4, <2>1, <2>2 DEF GrantTypes
<1> HIDE DEF g
<1>7. \A c \in Token : Purchased(c)' <=> Purchased(c)
  BY <1>2, <1>6 DEF Purchased
<1>8. Grows /\ CalmBefore
  <2>1. \A q \in Request : grant'[q].gone = grant[q].gone
    BY <1>3, <1>4 DEF g
  <2> QED BY <1>2, <1>7, <2>1 DEF Grows, CalmBefore, Calm
<1>9. Quiet
  <2>1. \A p \in Request : Stage(p) = "done" \/ Stage(p) = "held" => grant'[p] = grant[p]
    BY <1>2, <1>4
  <2> QED BY <1>2, <1>7, <1>8, <2>1 DEF Quiet, Presents
<1>10. RequestInv(r)'
  <2>1. Known(r)' = facts'[n]
    BY <1>5 DEF Known
  <2>2. Placed(r)'
    BY <1>2, <1>4, <1>5 DEF Placed, Running, g
  <2>3. HasClaim(r)' /\ Buying(r)' /\ Descends(r)'
    BY <1>5 DEF HasClaim, Buying, Descends
  <2>4. ExposedStopped(r)'
    <3> SUFFICES ASSUME strict, t \in exposed, ~isLate
                 PROVE  t # Code /\ (Revoked(t) \in facts'[n] \/ family[t] \in barred)
      BY <1>2, <1>4, <1>5, <2>1 DEF ExposedStopped, IsRevoked, FamilyOf, g
    <3> QED BY <1>2, <1>6 DEF GrantInv, ExposedBarred
  <2>5. strict /\ faults' = 0 /\ t # Code => Record(t) \in facts'[n]
    BY <1>2, <1>6 DEF GrantInv, GivenRecorded
  <2>6. Recorded(r)'
    BY <1>2, <1>5, <2>1, <2>5 DEF Recorded
  <2>7. strict /\ faults' = 0 /\ t # Code /\ Delivered(t) # {} => Rotated(t) \in facts'[n]
    <3> SUFFICES ASSUME strict, faults = 0, t # Code, NEW q \in Delivered(t), ~isLate
                 PROVE  Rotated(t) \in db
      BY <1>2, <1>6
    <3> QED BY RequestFacts DEF Delivered, Recorded
  <2>8. CopyMet(r)'
    BY <1>2, <1>4, <1>5, <2>1, <2>7 DEF CopyMet, g
  <2> QED BY <2>2, <2>3, <2>4, <2>6, <2>8 DEF RequestInv
<1>11. ASSUME NEW q \in Request, q # r PROVE RequestInv(q)'
  <2>1. RequestInv(q) /\ Placed(q) /\ grant'[q] = grant[q]
    BY <1>4, <1>11, RequestFacts
  <2>2. Leaves(q)
    BY <1>2, <1>6, <2>1 DEF Leaves, Placed
  <2> QED BY <1>2, <1>6, <1>8, <2>1, <2>2, OthersKept
<1> QED BY <1>2, <1>6, <1>9, <1>10, <1>11, QuietKept DEF GrantInv

(* With the mode off, a code presented again is answered with what it      *)
(* bought.                                                                 *)
LEMMA AnsweredAgainKept ==
  ASSUME GrantInv, NEW r \in Request, ~strict, CodeReplayed(r)
  PROVE  GrantInv'
<1>1. PICK c \in Token : /\ Redeemed(c) \in Known(r)
                         /\ grant' = [grant EXCEPT ![r].stage = "held", ![r].child = c]
  BY DEF CodeReplayed, Purchases
<1>2. /\ UNCHANGED <<strict, family, facts, db, spent, barred, faults, given, exposed>>
      /\ GrantTypes /\ MintOrder /\ faults \in Nat /\ Stage(r) \in {"arrived", "waiting"}
      /\ Presents(r) = Code
  BY DEF CodeReplayed, GrantInv, GrantTypes
<1>3. Placed(r) /\ At(r) \in Server /\ grant[r].gone = FALSE /\ grant[r] \in GrantSet
  BY <1>2, RequestFacts DEF Placed, Running, GrantSet
<1>4. /\ grant' \in [Request -> GrantSet] /\ \A q \in Request : q # r => grant'[q] = grant[q]
      /\ grant'[r].stage = "held" /\ grant'[r].child = c /\ grant'[r].token = Code
      /\ grant'[r].at = At(r) /\ grant'[r].gone = FALSE
  <2> DEFINE G == [[grant[r] EXCEPT !.stage = "held"] EXCEPT !.child = c]
  <2>1. grant' = [grant EXCEPT ![r] = G]
    BY <1>1, <1>2 DEF GrantTypes
  <2>2. "held" \in GrantStages /\ c \in 0..MaxTokens
    BY GrantConstants DEF GrantStages, Running, Token
  <2>3. G \in GrantSet
    BY <1>3, <2>2 DEF GrantSet
  <2>4. G.stage = "held" /\ G.child = c /\ G.token = Code /\ G.at = At(r) /\ G.gone = FALSE
    BY <1>2, <1>3 DEF GrantSet, At, Presents
  <2> HIDE DEF G
  <2> QED BY <1>2, <2>1, <2>3, <2>4 DEF GrantTypes
<1>5. GrantTypes'
  BY <1>2, <1>4 DEF GrantTypes
<1>6. \A x : Purchased(x)' <=> Purchased(x)
  BY <1>2 DEF Purchased
<1>7. Grows /\ CalmBefore
  <2>1. \A q \in Request : grant'[q].gone = grant[q].gone
    BY <1>3, <1>4
  <2> QED BY <1>2, <1>6, <2>1 DEF Grows, CalmBefore, Calm
<1>8. Quiet
  <2>1. \A p \in Request : Stage(p) = "done" \/ Stage(p) = "held" => grant'[p] = grant[p]
    BY <1>2, <1>4
  <2> QED BY <1>2, <1>6, <1>7, <2>1 DEF Quiet, Presents
<1>9. RequestInv(r)'
  <2>1. Purchased(c) /\ family[c] # 0
    BY <1>1, <1>2, <1>3 DEF Purchased, MintOrder, Known
  <2>2. Stage(r)' = "held" /\ At(r)' = At(r) /\ Presents(r)' = Code
    BY <1>4 DEF Stage, At, Presents
  <2>3. Placed(r)'
    BY <1>2, <1>3, <1>4, <2>1, <2>2 DEF Placed, Running
  <2>4. Buying(r)'
    BY <1>4, <1>6, <2>1, <2>2 DEF Buying
  <2> QED BY <1>2, <2>2, <2>3, <2>4 DEF RequestInv, HasClaim, Descends, ExposedStopped,
                                        Recorded, CopyMet
<1>10. ASSUME NEW q \in Request, q # r PROVE RequestInv(q)'
  <2>1. RequestInv(q) /\ Leaves(q) /\ grant'[q] = grant[q]
    BY <1>2, <1>4, <1>10, RequestFacts DEF Leaves
  <2> QED BY <1>2, <1>5, <1>7, <2>1, OthersKept
<1> QED BY <1>2, <1>5, <1>8, <1>9, <1>10, QuietKept DEF GrantInv

LEMMA NextToken ==
  ASSUME GrantTypes, MintOrder, MintedTokens # Token
  PROVE  LET c == Cardinality(MintedTokens) + 1
         IN  c \in Token /\ family[c] = 0 /\ \A t \in Token : family[t] # 0 <=> t <= c - 1
<1>1. PICK k \in 0..MaxTokens : \A t \in Token : family[t] # 0 <=> t <= k
  BY DEF MintOrder
<1>2. MintedTokens = 1..k
  BY <1>1, GrantConstants DEF MintedTokens, Token
<1>3. Cardinality(MintedTokens) = k
  BY <1>2, FS_Interval
<1>4. k # MaxTokens
  BY <1>2 DEF Token
<1> QED BY <1>1, <1>3, <1>4, GrantConstants DEF Token

LEMMA MintsKept ==
  ASSUME GrantInv, NEW r \in Request, Mints(r)
  PROVE  GrantInv'
<1> DEFINE c == Cardinality(MintedTokens) + 1
<1>1. /\ UNCHANGED <<strict, db, spent, barred, faults, given, exposed>>
      /\ Stage(r) = "minting"
      /\ family' = [family EXCEPT ![c] = FamilyFor(r, c)]
      /\ facts' = [facts EXCEPT ![At(r)] = facts[At(r)] \cup {Record(c)}]
      /\ grant' = [grant EXCEPT ![r].stage = "signing", ![r].child = c,
                                ![r].owes = grant[r].owes \cup {Record(c)}]
  BY DEF Mints, NoteRefreshIssued
<1>2. /\ GrantTypes /\ MintOrder /\ OneBought /\ OneFamily /\ ExposedBarred /\ GivenRecorded
      /\ faults \in Nat
  BY DEF GrantInv, GrantTypes
<1>3. c \in Token /\ family[c] = 0 /\ \A t \in Token : family[t] # 0 <=> t <= c - 1
  BY <1>2, NextToken DEF Mints
<1> HIDE DEF c
<1>4. /\ Placed(r) /\ At(r) \in Server /\ Presents(r) \in 0..MaxTokens /\ grant[r] \in GrantSet
      /\ Presents(r) \in given \cup {Code} /\ grant[r].gone = FALSE
      /\ Presents(r) # Code => Presents(r) \in Token /\ FamilyOf(r) \in Token
  <2>1. Placed(r) /\ Presents(r) \in 0..MaxTokens /\ grant[r] \in GrantSet
    BY RequestFacts
  <2>2. grant[r].gone = FALSE
    BY <1>1, <2>1 DEF Placed, GrantSet
  <2> QED BY <1>1, <2>1, <2>2, RequestFacts DEF Placed, Running
<1>5. FamilyFor(r, c) \in Token
  BY <1>3, <1>4 DEF FamilyFor
<1>6. Record(c) \in Facts
  BY <1>3 DEF Facts
<1>7. /\ grant' \in [Request -> GrantSet] /\ \A q \in Request : q # r => grant'[q] = grant[q]
      /\ grant'[r].stage = "signing" /\ grant'[r].child = c /\ grant'[r].token = Presents(r)
      /\ grant'[r].at = At(r) /\ grant'[r].gone = FALSE
      /\ grant'[r].late = grant[r].late /\ grant'[r].copy = grant[r].copy
      /\ grant'[r].exposed = grant[r].exposed /\ Record(c) \in grant'[r].owes
  <2> DEFINE G == [[[grant[r] EXCEPT !.stage = "signing"] EXCEPT !.child = c]
                     EXCEPT !.owes = grant[r].owes \cup {Record(c)}]
  <2>1. grant' = [grant EXCEPT ![r] = G]
    BY <1>1, <1>2 DEF GrantTypes
  <2>2. "signing" \in GrantStages /\ c \in 0..MaxTokens
    BY <1>3, GrantConstants DEF GrantStages, Running, Token
  <2>3. grant[r].owes \cup {Record(c)} \in SUBSET Facts
    BY <1>4, <1>6 DEF GrantSet
  <2>4. \A w \in SUBSET Facts :
          [[[grant[r] EXCEPT !.stage = "signing"] EXCEPT !.child = c] EXCEPT !.owes = w]
            \in GrantSet
    BY <1>4, <2>2 DEF GrantSet
  <2>5. G \in GrantSet
    BY <2>3, <2>4, Zenon
  <2>6. /\ G.stage = "signing" /\ G.child = c /\ G.token = Presents(r) /\ G.at = At(r)
        /\ G.gone = FALSE /\ G.late = grant[r].late /\ G.copy = grant[r].copy
        /\ G.exposed = grant[r].exposed /\ Record(c) \in G.owes
    BY <1>4 DEF GrantSet, At, Presents
  <2> HIDE DEF G
  <2> QED BY <1>2, <2>1, <2>5, <2>6 DEF GrantTypes
<1>8. /\ facts' \in [Server -> SUBSET Facts] /\ Record(c) \in facts'[At(r)]
      /\ \A n \in Server : /\ facts[n] \subseteq facts'[n]
                            /\ facts'[n] \subseteq facts[n] \cup {Record(c)}
  <2>1. facts' \in [Server -> SUBSET Facts]
    BY <1>1, <1>2, <1>4, <1>6 DEF GrantTypes
  <2> QED BY <1>1, <1>2, <1>4, <2>1 DEF GrantTypes
<1>9. /\ family' \in [Token -> 0..MaxTokens] /\ family'[c] = FamilyFor(r, c)
      /\ \A t \in Token : t # c => family'[t] = family[t]
  BY <1>1, <1>2, <1>3, <1>5, GrantConstants DEF GrantTypes, Token
<1>10. GrantTypes'
  BY <1>1, <1>2, <1>7, <1>8, <1>9 DEF GrantTypes
<1>11. \A x \in Token : Purchased(x)' <=> Purchased(x)
  BY <1>1, <1>8 DEF Purchased, Redeemed, Record
<1>12. Grows /\ CalmBefore
  <2>1. \A q \in Request : grant'[q].gone = grant[q].gone
    BY <1>4, <1>7
  <2>2. Calm' => Calm
    BY <1>1, <2>1 DEF Calm
  <2>3. \A t \in Token : family[t] # 0 => family'[t] = family[t]
    BY <1>3, <1>9
  <2>4. Grows
    BY <1>1, <1>2, <2>3 DEF Grows
  <2> QED BY <1>11, <2>2, <2>4 DEF CalmBefore
<1>13. MintOrder'
  <2>1. c \in 0..MaxTokens /\ \A t \in Token : family'[t] # 0 <=> t <= c
    BY <1>3, <1>5, <1>9, GrantConstants DEF Token
  <2>2. \A t \in Token : (t \in given \/ Purchased(t))' => family'[t] # 0
    BY <1>1, <1>2, <1>3, <1>9, <1>11 DEF MintOrder
  <2> QED BY <2>1, <2>2 DEF MintOrder
<1>14. \A p \in Request : Stage(p) \in {"held", "done"} => grant'[p] = grant[p]
  BY <1>1, <1>7
<1>15. \A t \in given : t \in Token /\ family'[t] = family[t]
  BY <1>2, <1>3, <1>9 DEF MintOrder, GrantTypes
<1>16. OneBought'
  <2> SUFFICES ASSUME ~strict, Calm', NEW x \in Token, Purchased(x)'
               PROVE  \/ spent'[Code] = Before /\ x = 1
                      \/ \E p \in Request : /\ spent'[Code] = p /\ Presents(p)' = Code
                                            /\ Stage(p)' \in {"held", "done"}
                                            /\ grant'[p].child = x
    BY <1>1 DEF OneBought
  <2>1. \/ spent[Code] = Before /\ x = 1
        \/ \E p \in Request : /\ spent[Code] = p /\ Presents(p) = Code
                              /\ Stage(p) \in {"held", "done"} /\ grant[p].child = x
    BY <1>2, <1>11, <1>12 DEF OneBought, CalmBefore
  <2> QED BY <1>1, <1>14, <2>1 DEF Stage, Presents
<1>17. OneFamily'
  <2>1. strict /\ given # {} => \/ spent[Code] = Before
                                \/ \E p \in Request : spent[Code] = p /\ Stage(p)' = "done"
    BY <1>2, <1>14 DEF OneFamily, Stage
  <2> QED BY <1>1, <1>2, <1>15, <2>1 DEF OneFamily
<1>18. ExposedBarred' /\ GivenRecorded'
  BY <1>1, <1>2, <1>15 DEF ExposedBarred, GivenRecorded
<1>19. RequestInv(r)'
  <2>1. /\ HasClaim(r) /\ Buying(r) /\ ExposedStopped(r) /\ Recorded(r) /\ CopyMet(r)
    BY RequestFacts
  <2>2. Stage(r)' = "signing" /\ At(r)' = At(r) /\ Presents(r)' = Presents(r)
        /\ Known(r)' = facts'[At(r)] /\ Known(r) \subseteq Known(r)'
    BY <1>4, <1>7, <1>8 DEF Stage, At, Presents, Known
  <2>3. Placed(r)'
    BY <1>1, <1>3, <1>4, <1>5, <1>7, <1>8, <1>9, <2>2, GrantConstants DEF Placed, Running, Token
  <2>4. HasClaim(r)' /\ Buying(r)'
    BY <1>1, <1>4, <1>7, <1>12, <2>1, <2>2 DEF HasClaim, Buying, CalmBefore
  <2>5. Descends(r)'
    <3>1. Presents(r) # Code => FamilyOf(r)' = FamilyOf(r)
      BY <1>4, <1>15, <2>2 DEF FamilyOf
    <3> QED BY <1>7, <1>9, <2>2, <3>1 DEF Descends, FamilyFor
  <2>6. ExposedStopped(r)' /\ CopyMet(r)'
    BY <1>1, <1>7, <2>1, <2>2 DEF ExposedStopped, CopyMet
  <2>7. Recorded(r)'
    BY <1>1, <1>7, <2>1, <2>2 DEF Recorded, Running
  <2> QED BY <2>3, <2>4, <2>5, <2>6, <2>7 DEF RequestInv
<1>20. ASSUME NEW q \in Request, q # r PROVE RequestInv(q)'
  <2>1. RequestInv(q) /\ Placed(q) /\ grant'[q] = grant[q]
    BY <1>7, <1>20, RequestFacts
  <2>2. Leaves(q)
    BY <1>1, <1>8, <2>1 DEF Leaves, Placed
  <2> QED BY <1>2, <1>10, <1>12, <2>1, <2>2, OthersKept
<1> QED BY <1>10, <1>13, <1>16, <1>17, <1>18, <1>19, <1>20 DEF GrantInv

LEMMA AnswersKept ==
  ASSUME GrantInv, NEW r \in Request, Answers(r)
  PROVE  GrantInv'
<1> DEFINE c == grant[r].child
<1>1. /\ UNCHANGED <<strict, family, facts, db, spent, barred, exposed>>
      /\ Stage(r) = "held" /\ ~grant[r].gone
      /\ grant' = [grant EXCEPT ![r].stage = "done", ![r].owes = {}]
      /\ given' = given \cup {c}
  BY DEF Answers
<1>2. /\ GrantTypes /\ MintOrder /\ OneBought /\ OneFamily /\ ExposedBarred /\ GivenRecorded
      /\ faults \in Nat
  BY DEF GrantInv, GrantTypes
<1>3. faults' \in Nat /\ faults <= faults' /\ (faults' = 0 => grant[r].owes \subseteq db)
  BY <1>2 DEF Answers
<1>4. /\ Placed(r) /\ At(r) \in Server /\ Presents(r) \in 0..MaxTokens /\ grant[r] \in GrantSet
      /\ Presents(r) \in given \cup {Code} /\ c \in Token /\ family[c] # 0
  BY <1>1, RequestFacts DEF Placed, Running
<1> HIDE DEF c
<1>5. /\ grant' \in [Request -> GrantSet] /\ \A q \in Request : q # r => grant'[q] = grant[q]
      /\ grant'[r].stage = "done" /\ grant'[r].child = c /\ grant'[r].token = Presents(r)
      /\ grant'[r].at = At(r) /\ grant'[r].gone = grant[r].gone
      /\ grant'[r].late = grant[r].late /\ grant'[r].copy = grant[r].copy
      /\ grant'[r].exposed = grant[r].exposed
  <2> DEFINE G == [[grant[r] EXCEPT !.stage = "done"] EXCEPT !.owes = {}]
  <2>1. grant' = [grant EXCEPT ![r] = G]
    BY <1>1, <1>2 DEF GrantTypes
  <2>2. "done" \in GrantStages /\ {} \in SUBSET Facts
    BY DEF GrantStages
  <2>3. G \in GrantSet
    BY <1>4, <2>2 DEF GrantSet
  <2>4. /\ G.stage = "done" /\ G.child = c /\ G.token = Presents(r) /\ G.at = At(r)
        /\ G.gone = grant[r].gone /\ G.late = grant[r].late /\ G.copy = grant[r].copy
        /\ G.exposed = grant[r].exposed
    BY <1>4 DEF GrantSet, At, Presents, c
  <2> HIDE DEF G
  <2> QED BY <1>2, <2>1, <2>3, <2>4 DEF GrantTypes
<1>6. given' \in SUBSET Token /\ GrantTypes'
  <2>1. given' \in SUBSET Token
    BY <1>1, <1>2, <1>4 DEF GrantTypes
  <2> QED BY <1>1, <1>2, <1>3, <1>5, <2>1 DEF GrantTypes
<1>7. \A x \in Token : Purchased(x)' <=> Purchased(x)
  BY <1>1 DEF Purchased
<1>8. Grows /\ CalmBefore
  <2>1. \A q \in Request : grant'[q].gone = grant[q].gone
    BY <1>5
  <2>2. Calm' => Calm
    BY <1>2, <1>3, <2>1 DEF Calm
  <2>3. Grows
    BY <1>1, <1>2, <1>3 DEF Grows
  <2> QED BY <1>7, <2>2, <2>3 DEF CalmBefore
<1>9. Stage(r)' = "done" /\ At(r)' = At(r) /\ Presents(r)' = Presents(r)
  BY <1>5 DEF Stage, At, Presents
<1>10. /\ HasClaim(r) /\ Buying(r) /\ ExposedStopped(r) /\ Recorded(r) /\ CopyMet(r) /\ Descends(r)
  BY RequestFacts
<1>11. MintOrder'
  BY <1>1, <1>2, <1>4, <1>7 DEF MintOrder
<1>12. OneBought'
  <2>1. \A p \in Request : Stage(p) \in {"held", "done"} =>
          /\ Stage(p)' \in {"held", "done"} /\ grant'[p].child = grant[p].child
          /\ Presents(p)' = Presents(p)
    BY <1>5, <1>9 DEF Stage, Presents, c
  <2> QED BY <1>1, <1>2, <1>7, <1>8, <2>1 DEF OneBought, CalmBefore
<1>13. strict => /\ Presents(r) = Code => given = {} /\ spent[Code] = r
                 /\ Presents(r) # Code => Presents(r) \in given /\ family[c] = family[Presents(r)]
  <2>1. strict /\ Presents(r) = Code => spent[Code] = r
    BY <1>1, <1>10 DEF HasClaim
  <2>2. strict /\ Presents(r) = Code => given = {}
    BY <1>1, <1>2, <2>1, GrantConstants DEF OneFamily, Before
  <2>3. strict /\ Presents(r) # Code => Presents(r) \in given /\ family[c] = family[Presents(r)]
    BY <1>1, <1>4, <1>10 DEF Descends, FamilyFor, FamilyOf, c
  <2> QED BY <2>1, <2>2, <2>3
<1>14. OneFamily'
  <2> SUFFICES ASSUME strict PROVE OneFamily'
    BY <1>1 DEF OneFamily
  <2>1. \A t, u \in given' : family[t] = family[u]
    BY <1>1, <1>2, <1>13 DEF OneFamily
  <2>2. \/ spent[Code] = Before \/ \E p \in Request : spent[Code] = p /\ Stage(p)' = "done"
    <3>1. CASE Presents(r) = Code
      BY <1>9, <1>13, <3>1
    <3>2. CASE Presents(r) # Code
      <4>1. \/ spent[Code] = Before \/ \E p \in Request : spent[Code] = p /\ Stage(p) = "done"
        BY <1>2, <1>13, <3>2 DEF OneFamily
      <4>2. \A p \in Request : Stage(p) = "done" => Stage(p)' = "done"
        BY <1>5, <1>9 DEF Stage
      <4> QED BY <4>1, <4>2
    <3> QED BY <3>1, <3>2
  <2> QED BY <1>1, <2>1, <2>2 DEF OneFamily
<1>15. ExposedBarred'
  BY <1>1, <1>2, <1>13 DEF ExposedBarred
<1>16. strict /\ faults' = 0 => /\ Record(c) \in db
                                /\ Presents(r) # Code => Rotated(Presents(r)) \in db
  BY <1>1, <1>2, <1>3, <1>10 DEF Recorded, c
<1>17. GivenRecorded'
  BY <1>1, <1>2, <1>3, <1>16 DEF GivenRecorded
<1>18. RequestInv(r)'
  <2>1. Placed(r)'
    BY <1>1, <1>4, <1>5, <1>9 DEF Placed, Running
  <2>2. HasClaim(r)' /\ Buying(r)'
    BY <1>1, <1>4, <1>5, <1>7, <1>8, <1>9, <1>10 DEF HasClaim, Buying, CalmBefore, c
  <2>3. Descends(r)'
    BY <1>9 DEF Descends
  <2>4. ExposedStopped(r)' /\ CopyMet(r)'
    BY <1>1, <1>2, <1>3, <1>5, <1>9, <1>10 DEF ExposedStopped, CopyMet
  <2>5. Recorded(r)'
    BY <1>1, <1>9, <1>16 DEF Recorded, Running
  <2> QED BY <2>1, <2>2, <2>3, <2>4, <2>5 DEF RequestInv
<1>19. ASSUME NEW q \in Request, q # r PROVE RequestInv(q)'
  <2>1. RequestInv(q) /\ grant'[q] = grant[q] /\ Leaves(q)
    BY <1>1, <1>5, <1>19, RequestFacts DEF Leaves
  <2> QED BY <1>2, <1>6, <1>8, <2>1, OthersKept
<1> QED BY <1>6, <1>11, <1>12, <1>14, <1>15, <1>17, <1>18, <1>19 DEF GrantInv

LEMMA ClosesKept ==
  ASSUME GrantInv, NEW r \in Request, Closes(r)
  PROVE  GrantInv'
<1>1. /\ UNCHANGED <<strict, family, facts, db, spent, barred, faults, given, exposed>>
      /\ Stage(r) \in {"signing", "held"} /\ grant' = [grant EXCEPT ![r].gone = TRUE]
  BY DEF Closes
<1>2. GrantTypes /\ MintOrder /\ faults \in Nat /\ grant[r] \in GrantSet /\ RequestInv(r)
  BY RequestFacts DEF GrantInv, GrantTypes
<1>3. /\ grant' \in [Request -> GrantSet] /\ \A q \in Request : q # r => grant'[q] = grant[q]
      /\ grant'[r].stage = grant[r].stage /\ grant'[r].child = grant[r].child
      /\ grant'[r].token = grant[r].token /\ grant'[r].at = grant[r].at
      /\ grant'[r].late = grant[r].late /\ grant'[r].copy = grant[r].copy
      /\ grant'[r].exposed = grant[r].exposed /\ grant'[r].owes = grant[r].owes
      /\ grant'[r].gone = TRUE
  BY <1>1, <1>2 DEF GrantTypes, GrantSet
<1>4. GrantTypes'
  BY <1>1, <1>2, <1>3 DEF GrantTypes
<1>5. ~Calm' /\ Grows /\ CalmBefore
  BY <1>1, <1>2, <1>3 DEF Calm, Grows, CalmBefore
<1>6. Quiet
  <2>1. \A p \in Request : Stage(p) = "done" => grant'[p] = grant[p]
    BY <1>1, <1>3
  <2> QED BY <1>1, <1>5, <2>1 DEF Quiet, Purchased, Presents
<1>7. RequestInv(r)'
  <2>1. Stage(r)' = Stage(r) /\ At(r)' = At(r) /\ Presents(r)' = Presents(r)
    BY <1>3 DEF Stage, At, Presents
  <2>2. Placed(r)'
    BY <1>1, <1>2, <1>3, <2>1 DEF RequestInv, Placed, Known
  <2>3. HasClaim(r)' /\ Buying(r)' /\ Descends(r)'
    BY <1>3, <1>5 DEF HasClaim, Buying, Descends
  <2>4. ExposedStopped(r)' /\ CopyMet(r)' /\ Recorded(r)'
    BY <1>1, <1>2, <1>3, <2>1 DEF RequestInv, ExposedStopped, CopyMet, Recorded, Known, IsRevoked,
                                  FamilyOf
  <2> QED BY <2>2, <2>3, <2>4 DEF RequestInv
<1>8. ASSUME NEW q \in Request, q # r PROVE RequestInv(q)'
  <2>1. RequestInv(q) /\ grant'[q] = grant[q] /\ Leaves(q)
    BY <1>1, <1>3, <1>8, RequestFacts DEF Leaves
  <2> QED BY <1>2, <1>4, <1>5, <2>1, OthersKept
<1> QED BY <1>1, <1>4, <1>6, <1>7, <1>8, QuietKept DEF GrantInv

(* A claim goes back only from a request that will not be answered, or     *)
(* whose client is not there to be.                                        *)
LEMMA GivesBackKept ==
  ASSUME GrantInv, NEW r \in Request, GivesBack(r)
  PROVE  GrantInv'
<1>1. /\ UNCHANGED <<strict, family, facts, db, barred, faults, given, exposed>>
      /\ Stage(r) = "failed" \/ grant[r].gone
      /\ spent[Presents(r)] = r /\ spent' = [spent EXCEPT ![Presents(r)] = Nobody]
  BY DEF GivesBack, Unsuccessful
<1>2. /\ GrantTypes /\ MintOrder /\ faults \in Nat /\ grant[r] \in GrantSet /\ RequestInv(r)
      /\ Presents(r) \in 0..MaxTokens /\ Placed(r)
  BY RequestFacts DEF GrantInv, GrantTypes
<1>3. /\ grant' \in [Request -> GrantSet] /\ \A q \in Request : q # r => grant'[q] = grant[q]
      /\ grant'[r].gone = grant[r].gone
      /\ \/ grant'[r] = [Over EXCEPT !.gone = grant[r].gone]
         \/ grant'[r] = grant[r] /\ Stage(r) \notin {"failed", "held"}
  <2>1. CASE Stage(r) \in {"failed", "held"}
    <3>1. grant' = [grant EXCEPT ![r] = [Over EXCEPT !.gone = grant[r].gone]]
      BY <2>1 DEF GivesBack
    <3>2. grant[r].gone \in BOOLEAN
      BY <1>2 DEF GrantSet
    <3>3. [Over EXCEPT !.gone = grant[r].gone] \in GrantSet
      BY <3>2, NewIsRequest
    <3>4. [Over EXCEPT !.gone = grant[r].gone].gone = grant[r].gone
      BY NewIsRequest DEF GrantSet
    <3> QED BY <1>2, <3>1, <3>3, <3>4 DEF GrantTypes
  <2>2. CASE Stage(r) \notin {"failed", "held"}
    BY <1>2, <2>2 DEF GivesBack, GrantTypes
  <2> QED BY <2>1, <2>2
<1>4. spent' \in [0..MaxTokens -> Request \cup {Nobody, Before}] /\ GrantTypes'
  <2>1. spent' \in [0..MaxTokens -> Request \cup {Nobody, Before}]
    BY <1>1, <1>2 DEF GrantTypes
  <2> QED BY <1>1, <1>2, <1>3, <2>1 DEF GrantTypes
<1>5. Grows /\ CalmBefore /\ \A x : Purchased(x)' <=> Purchased(x)
  <2>1. \A x : Purchased(x)' <=> Purchased(x)
    BY <1>1 DEF Purchased
  <2>2. \A q \in Request : grant'[q].gone = grant[q].gone
    BY <1>3
  <2> QED BY <1>1, <1>2, <2>1, <2>2 DEF Grows, CalmBefore, Calm
<1>6. \A t \in 0..MaxTokens : spent[t] # r => spent'[t] = spent[t]
  BY <1>1, <1>2 DEF GrantTypes
<1>7. Quiet
  <2>1. \A p \in Request : Stage(p) = "done" \/ (Calm' /\ Stage(p) = "held") =>
          p # r /\ grant'[p] = grant[p]
    BY <1>1, <1>2, <1>3 DEF Placed, Calm
  <2>2. Code \in 0..MaxTokens /\ r # Before
    BY GrantConstants DEF Code, Before
  <2> QED BY <1>1, <1>5, <1>6, <2>1, <2>2 DEF Quiet, Presents
<1>8. RequestInv(r)'
  <2>1. CASE grant'[r] = [Over EXCEPT !.gone = grant[r].gone]
    <3>1. grant[r].gone \in BOOLEAN
      BY <1>2 DEF GrantSet
    <3> QED BY <2>1, <3>1, OverKept
  <2>2. CASE grant'[r] = grant[r] /\ Stage(r) \notin {"failed", "held"}
    <3>1. Stage(r)' = Stage(r) /\ At(r)' = At(r) /\ Presents(r)' = Presents(r) /\ grant[r].gone
      BY <1>1, <2>2 DEF Stage, At, Presents
    <3>2. Placed(r)'
      BY <1>1, <1>2, <2>2, <3>1 DEF Placed, Known
    <3>3. HasClaim(r)' /\ Buying(r)' /\ Descends(r)'
      BY <2>2, <3>1 DEF HasClaim, Buying, Descends, Calm
    <3>4. ExposedStopped(r)' /\ CopyMet(r)' /\ Recorded(r)'
      BY <1>1, <1>2, <2>2, <3>1 DEF RequestInv, ExposedStopped, CopyMet, Recorded, Known,
                                    IsRevoked, FamilyOf
    <3> QED BY <3>2, <3>3, <3>4 DEF RequestInv
  <2> QED BY <1>3, <2>1, <2>2
<1>9. ASSUME NEW q \in Request, q # r PROVE RequestInv(q)'
  <2>1. RequestInv(q) /\ grant'[q] = grant[q] /\ Presents(q) \in 0..MaxTokens
    BY <1>3, <1>9, RequestFacts
  <2>2. Leaves(q)
    BY <1>1, <1>6, <1>9, <2>1 DEF Leaves
  <2> QED BY <1>2, <1>4, <1>5, <2>1, <2>2, OthersKept
<1> QED BY <1>1, <1>4, <1>7, <1>8, <1>9, QuietKept DEF GrantInv

LEMMA RefusesKept ==
  ASSUME GrantInv, NEW r \in Request, Refuses(r)
  PROVE  GrantInv'
<1>1. /\ UNCHANGED <<strict, family, facts, db, spent, barred, faults, given>>
      /\ Stage(r) = "refused" /\ grant[r].owes \subseteq db
      /\ exposed' = exposed \cup {t \in Token : Revoked(t) \in grant[r].owes}
                    \cup {t \in Token : Presents(r) # Code /\ FamilyOf(r) \in barred}
      /\ grant' = [grant EXCEPT ![r] = Over]
  BY DEF Refuses
<1>2. /\ GrantTypes /\ MintOrder /\ OneFamily /\ ExposedBarred /\ faults \in Nat
      /\ Placed(r) /\ Presents(r) \in given \cup {Code}
      /\ grant[r].gone = FALSE /\ grant[r] \in GrantSet
  BY <1>1, RequestFacts DEF GrantInv, GrantTypes, Placed, GrantSet
<1>3. /\ grant' \in [Request -> GrantSet] /\ \A q \in Request : q # r => grant'[q] = grant[q]
      /\ grant'[r] = Over
  BY <1>1, <1>2, NewIsRequest DEF GrantTypes
<1>4. exposed' \in SUBSET (0..MaxTokens) /\ GrantTypes'
  <2>1. exposed' \in SUBSET (0..MaxTokens)
    <3>1. Token \subseteq 0..MaxTokens
      BY GrantConstants DEF Token
    <3>2. exposed \subseteq 0..MaxTokens
      BY <1>2 DEF GrantTypes
    <3>3. exposed' \subseteq exposed \cup Token
      BY <1>1
    <3> QED BY <3>1, <3>2, <3>3
  <2> QED BY <1>1, <1>2, <1>3, <2>1 DEF GrantTypes
<1>5. Grows /\ CalmBefore /\ \A x : Purchased(x)' <=> Purchased(x)
  <2>1. \A x : Purchased(x)' <=> Purchased(x)
    BY <1>1 DEF Purchased
  <2>2. \A q \in Request : grant'[q].gone = grant[q].gone
    BY <1>2, <1>3, NewIsRequest DEF Over, NewRequest
  <2> QED BY <1>1, <1>2, <2>1, <2>2 DEF Grows, CalmBefore, Calm
<1>6. Quiet
  <2>1. \A p \in Request : Stage(p) = "done" \/ Stage(p) = "held" => grant'[p] = grant[p]
    BY <1>1, <1>3
  <2> QED BY <1>1, <1>5, <2>1 DEF Quiet, Presents
<1>7. ExposedBarred'
  <2> SUFFICES ASSUME strict, NEW t \in exposed'
               PROVE  /\ t # Code
                      /\ \/ Revoked(t) \in db
                         \/ given # {} /\ \A u \in given : family[u] \in barred
    BY <1>1 DEF ExposedBarred
  <2>1. CASE t \in exposed
    BY <1>2, <2>1 DEF ExposedBarred
  <2>2. CASE t \in Token /\ Revoked(t) \in grant[r].owes
    BY <1>1, <2>2 DEF Token, Code
  <2>3. CASE t \in Token /\ Presents(r) # Code /\ FamilyOf(r) \in barred
    BY <1>2, <2>3 DEF OneFamily, FamilyOf, Token, Code
  <2> QED BY <1>1, <2>1, <2>2, <2>3
<1>8. ASSUME NEW q \in Request PROVE RequestInv(q)'
  <2>1. CASE q = r
    BY <1>3, <2>1, OverKept
  <2>2. CASE q # r
    <3>1. RequestInv(q) /\ grant'[q] = grant[q] /\ Leaves(q)
      BY <1>1, <1>3, <2>2, RequestFacts DEF Leaves
    <3> QED BY <1>2, <1>4, <1>5, <3>1, OthersKept
  <2> QED BY <2>1, <2>2
<1> QED BY <1>4, <1>6, <1>7, <1>8, QuietKept DEF GrantInv

-----------------------------------------------------------------------------
(* Every step keeps the invariant.                                         *)

LEMMA GrantStep == GrantInv /\ [GrantNext]_gvars => GrantInv'
<1> SUFFICES ASSUME GrantInv, [GrantNext]_gvars PROVE GrantInv'
  OBVIOUS
<1>1. CASE UNCHANGED gvars
  <2>1. UNCHANGED <<strict, family, facts, db, spent, barred, grant, faults, given, exposed>>
    BY <1>1 DEF gvars
  <2>2. /\ GrantTypes /\ MintOrder /\ Grows /\ CalmBefore /\ Quiet /\ GrantTypes'
    BY <2>1 DEF GrantInv, GrantTypes, Grows, CalmBefore, Calm, Purchased, Quiet, Presents
  <2>3. ASSUME NEW q \in Request PROVE RequestInv(q)'
    BY <2>1, <2>2, RequestFacts, OthersKept DEF Leaves
  <2> QED BY <2>1, <2>2, <2>3, QuietKept DEF GrantInv
<1>2. ASSUME NEW r \in Request, NEW n \in Server, NEW t \in 0..MaxTokens,
             Arrives(r, n, t) \/ ArrivesLate(r, n, t)
      PROVE  GrantInv'
  BY <1>2, ArrivesKept
<1>3. ASSUME NEW r \in Request,
             \/ CodeFound(r) \/ CodeUnknown(r) \/ StopsWaiting(r) \/ RefreshRevoked(r)
             \/ RefreshPasses(r) \/ FamilyClear(r) \/ MintFails(r)
      PROVE  GrantInv'
  <2>1. {} \in SUBSET Facts
    OBVIOUS
  <2> QED BY <1>3, <2>1, QuietTurns, GoesOnKept
<1>4. ASSUME NEW r \in Request,
             (strict /\ CodeReplayed(r)) \/ RefreshReplayed(r) \/ FamilyBarred(r) \/ Signs(r)
      PROVE  GrantInv'
  BY <1>4, WritingTurns, GoesOnKept
<1>5. ASSUME NEW r \in Request, Marks(r) \/ Spends(r) \/ AlreadySpent(r) \/ StoreSilent(r)
      PROVE  GrantInv'
  BY <1>5, StoreTurns, GoesOnKept
<1>6. ASSUME NEW r \in Request, ~strict, CodeReplayed(r) PROVE GrantInv'
  BY <1>6, AnsweredAgainKept
<1>7. ASSUME NEW r \in Request, Pulls(r) PROVE GrantInv'
  BY <1>7, ServersKept
<1>8. ASSUME NEW r \in Request, Mints(r) PROVE GrantInv'
  BY <1>8, MintsKept
<1>9. ASSUME NEW r \in Request, Answers(r) PROVE GrantInv'
  BY <1>9, AnswersKept
<1>10. ASSUME NEW r \in Request, Closes(r) PROVE GrantInv'
  BY <1>10, ClosesKept
<1>11. ASSUME NEW r \in Request, GivesBack(r) PROVE GrantInv'
  BY <1>11, GivesBackKept
<1>12. ASSUME NEW r \in Request, Refuses(r) PROVE GrantInv'
  BY <1>12, RefusesKept
<1>13. ASSUME NEW n \in Server, Commits(n) PROVE GrantInv'
  BY <1>13, ServersKept
<1>14. ASSUME NEW n \in Server, Crashes(n) PROVE GrantInv'
  BY <1>14, CrashesKept
<1> QED BY <1>1, <1>2, <1>3, <1>4, <1>5, <1>6, <1>7, <1>8, <1>9, <1>10, <1>11, <1>12, <1>13,
           <1>14 DEF GrantNext

LEMMA GrantAlways == GrantSpec => []GrantInv
BY StartsIn, GrantStep, PTL DEF GrantSpec

-----------------------------------------------------------------------------
(* The theorems.                                                           *)

(* The endpoint's state keeps its types: a request that signs has a token  *)
(* that was minted and recorded at its server.                             *)
THEOREM GrantTyping == GrantSpec => []GrantTypeOK
<1>1. GrantInv => GrantTypeOK
  BY InvariantImplies
<1> QED BY <1>1, GrantAlways, PTL

(* In RFC 9700 mode at most one token set is answered for what is          *)
(* presented, whatever fails on the way (spendCode, spendRefreshToken).    *)
THEOREM OneSetAnswered == GrantSpec => []OneTokenSet
<1>1. GrantInv => OneTokenSet
  BY InvariantImplies
<1> QED BY <1>1, GrantAlways, PTL

(* With the mode off, a code's later answers are its first, while no       *)
(* client goes away and nothing fails (replayOrRefuseRedemption).          *)
THEOREM LaterAnswersSame == GrantSpec => []SameAnswer
<1>1. GrantInv => SameAnswer
  BY InvariantImplies
<1> QED BY <1>1, GrantAlways, PTL

(* What a replay's answer said was revoked buys nothing for a request that *)
(* comes later and was caught up (revokeFamily, checkRefreshRequest).      *)
THEOREM RevokedIsSpent == GrantSpec => []RevokedBuysNothing
<1>1. GrantInv => RevokedBuysNothing
  BY InvariantImplies
<1> QED BY <1>1, GrantAlways, PTL

(* A refresh token presented again after its rotation was answered has its *)
(* family revoked, while nothing fails (checkRefreshRequest).              *)
THEOREM CopiesCaught == GrantSpec => []ReplayCaught
<1>1. GrantInv => ReplayCaught
  BY InvariantImplies
<1> QED BY <1>1, GrantAlways, PTL
=============================================================================
