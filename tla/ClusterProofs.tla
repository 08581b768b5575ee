--------------------------- MODULE ClusterProofs ----------------------------
(***************************************************************************)
(* What Cluster promises for any number of nodes, leases and connections,  *)
(* proved: types, then the fence and the refinement of FencedLease, then   *)
(* the one writer of active-passive mode.                                  *)
(***************************************************************************)
EXTENDS Cluster, TLAPS

-----------------------------------------------------------------------------
(* Type correctness.                                                       *)

LEMMA NoTokensType == NoTokens \in [Lease -> Nat]
BY DEF NoTokens

LEMMA IdleType == ASSUME ClusterAssumption PROVE Idle \in Statement
BY NoTokensType DEF ClusterAssumption, Idle, Statement, Ops

LEMMA SetType ==
  ASSUME NEW n \in Node, NEW c \in Conn, NEW s \in Statement,
         conn \in [Node -> [Conn -> Statement]], Set(n, c, s)
  PROVE  conn' \in [Node -> [Conn -> Statement]]
BY DEF Set

LEMMA FrontGoneType ==
  ASSUME ClusterAssumption, TypeOK, NEW n \in Node, FrontGone(n)
  PROVE  /\ conn' \in [Node -> [Conn -> Statement]]
         /\ phase' \in [Node -> Phase]
         /\ held' \in [Node -> [Lease -> Nat]]
<1>1. conn' \in [Node -> [Conn -> Statement]]
  <2> DEFINE g == [c \in Conn |-> IF c \in FrontConn THEN Idle ELSE conn[n][c]]
  <2>1. g \in [Conn -> Statement]
    BY IdleType DEF TypeOK
  <2>2. conn' = [conn EXCEPT ![n] = g]
    BY DEF FrontGone
  <2> QED BY <2>1, <2>2 DEF TypeOK
<1>2. phase' \in [Node -> Phase]
  BY DEF TypeOK, FrontGone, Phase
<1>3. held' \in [Node -> [Lease -> Nat]]
  BY NoTokensType DEF TypeOK, FrontGone
<1> QED BY <1>1, <1>2, <1>3

LEMMA WorkersGoneType ==
  ASSUME ClusterAssumption, TypeOK, NEW n \in Node, WorkersGone(n)
  PROVE  /\ conn' \in [Node -> [Conn -> Statement]]
         /\ workers' \in [Node -> BOOLEAN]
         /\ inherited' \in [Node -> Nat]
<1>1. conn' \in [Node -> [Conn -> Statement]]
  <2> DEFINE g == [c \in Conn |-> IF c \in WorkerConn THEN Idle ELSE conn[n][c]]
  <2>1. g \in [Conn -> Statement]
    BY IdleType DEF TypeOK
  <2>2. conn' = [conn EXCEPT ![n] = g]
    BY DEF WorkersGone
  <2> QED BY <2>1, <2>2 DEF TypeOK
<1>2. workers' \in [Node -> BOOLEAN] /\ inherited' \in [Node -> Nat]
  BY DEF TypeOK, WorkersGone
<1> QED BY <1>1, <1>2

LEMMA LearnType ==
  ASSUME ClusterAssumption, TypeOK, NEW n \in Node, NEW c \in Conn, Learn(n, c)
  PROVE  /\ held' \in [Node -> [Lease -> Nat]]
         /\ phase' \in [Node -> Phase]
         /\ workers' \in [Node -> BOOLEAN]
         /\ inherited' \in [Node -> Nat]
<1> DEFINE l == conn[n][c].name
           t == conn[n][c].tok[l]
<1>1. l \in Lease /\ t \in Nat
  BY DEF TypeOK, Statement
<1> QED BY <1>1 DEF TypeOK, Learn, Phase

LEMMA LeaseRecordType ==
  ASSUME NEW r \in LeaseRecord
  PROVE  /\ [r EXCEPT !.live = FALSE] \in LeaseRecord
         /\ [r EXCEPT !.early = FALSE] \in LeaseRecord
BY DEF LeaseRecord

LEMMA StatementType ==
  ASSUME NEW s \in Statement
  PROVE  /\ [s EXCEPT !.alive = FALSE] \in Statement
         /\ \A t \in [Lease -> Nat] : [s EXCEPT !.tok = t] \in Statement
BY DEF Statement

LEMMA TokenType ==
  ASSUME NEW s \in Statement, NEW l \in Lease, NEW t \in Nat
  PROVE  [s EXCEPT !.tok[l] = t] \in Statement
BY DEF Statement

LEMMA InitType == ASSUME ClusterAssumption, Init PROVE TypeOK
<1>1. lease \in [Lease -> LeaseRecord]
  <2>1. [holder : Node, token : {0}, live : {FALSE}, early : {FALSE}] \subseteq LeaseRecord
    <3> SUFFICES ASSUME NEW r \in [holder : Node, token : {0}, live : {FALSE}, early : {FALSE}]
                 PROVE  r \in LeaseRecord
      OBVIOUS
    <3>1. /\ r = [holder |-> r.holder, token |-> r.token, live |-> r.live, early |-> r.early]
          /\ r.holder \in Node /\ r.token = 0 /\ r.live = FALSE /\ r.early = FALSE
      OBVIOUS
    <3> DEFINE h == r.holder
    <3>2. r = [holder |-> h, token |-> 0, live |-> FALSE, early |-> FALSE] /\ h \in Node
      BY <3>1
    <3> HIDE DEF h
    <3> QED BY <3>2 DEF LeaseRecord
  <2> QED BY <2>1 DEF Init
<1>2. conn \in [Node -> [Conn -> Statement]]
  BY IdleType DEF Init
<1>3. tenure \in [Lease -> Seq(Node)] /\ written \in [Lease -> Nat]
  BY DEF Init
<1>4. /\ held \in [Node -> [Lease -> Nat]] /\ workers \in [Node -> BOOLEAN]
      /\ inherited \in [Node -> Nat] /\ deposed \in [Node -> BOOLEAN]
  BY NoTokensType DEF Init
<1>5. row \in [Node -> {"none", "live", "gone"}] /\ phase \in [Node -> Phase]
  BY DEF Init, Phase
<1> QED BY <1>1, <1>2, <1>3, <1>4, <1>5 DEF TypeOK

LEMMA NodeStepType ==
  ASSUME ClusterAssumption, TypeOK, NEW n \in Node, NodeStep(n)
  PROVE  TypeOK'
<1>1. CASE Join(n)
  BY <1>1 DEF Join, TypeOK, Phase
<1>2. CASE Leave(n)
  BY <1>2, WorkersGoneType DEF Leave, TypeOK, Phase, store
<1>3. CASE Left(n)
  <2>1. row' \in [Node -> {"none", "live", "gone"}] /\ lease' \in [Lease -> LeaseRecord]
    <3> DEFINE mine == {l \in Lease : lease[l].holder = n}
    <3>1. CASE /\ row' = [row EXCEPT ![n] = "gone"]
               /\ lease' = [l \in Lease |-> IF l \in mine
                              THEN ExpiredNow(lease[l]) ELSE lease[l]]
      <4>1. row' \in [Node -> {"none", "live", "gone"}]
        BY <3>1 DEF TypeOK
      <4>2. \A l \in Lease : ExpiredNow(lease[l]) \in LeaseRecord
        BY LeaseRecordType DEF TypeOK, ExpiredNow
      <4>3. lease' \in [Lease -> LeaseRecord]
        BY <3>1, <4>2 DEF TypeOK
      <4> QED BY <4>1, <4>3
    <3>2. CASE UNCHANGED <<row, lease>>
      BY <3>2 DEF TypeOK
    <3> QED BY <1>3, <3>1, <3>2 DEF Left
  <2> QED BY <1>3, <2>1, FrontGoneType DEF Left, TypeOK
<1>4. CASE Killed(n)
  BY <1>4, FrontGoneType DEF Killed, TypeOK, store
<1>5. CASE WorkersExit(n)
  BY <1>5, WorkersGoneType DEF WorkersExit, TypeOK, store, process
<1>6. CASE ExpireRow(n)
  BY <1>6 DEF ExpireRow, TypeOK, process
<1> QED BY <1>1, <1>2, <1>3, <1>4, <1>5, <1>6 DEF NodeStep

LEMMA SendsType ==
  ASSUME ClusterAssumption, TypeOK, NEW n \in Node, NEW c \in Conn, Sends(n, c)
  PROVE  TypeOK'
<1> USE DEF store, process
<1>1. CASE AttemptService(n, c)
  <2>1. [Idle EXCEPT !.op = "ask"] \in Statement
    BY IdleType DEF Statement, Ops
  <2> QED BY <1>1, <2>1, SetType DEF AttemptService, TypeOK
<1>2. ASSUME NEW l \in Lease, AskRole(n, c, l) PROVE TypeOK'
  <2>1. [Idle EXCEPT !.op = "ask", !.name = l] \in Statement
    BY IdleType DEF Statement, Ops
  <2> QED BY <1>2, <2>1, SetType DEF AskRole, TypeOK
<1>3. CASE Beat(n, c)
  <2>1. [Idle EXCEPT !.op = "beat"] \in Statement
    BY IdleType DEF Statement, Ops
  <2> QED BY <1>3, <2>1, SetType DEF Beat, TypeOK
<1>4. CASE Begin(n, c)
  <2>1. ServiceToken(n, c) \in Nat
    BY DEF ServiceToken, TypeOK, ClusterAssumption
  <2>2. [Idle EXCEPT !.op = "begun",
                     !.tok = [NoTokens EXCEPT ![Service] = ServiceToken(n, c)]] \in Statement
    BY <2>1, IdleType, NoTokensType DEF Statement, Ops
  <2> QED BY <1>4, <2>2, SetType DEF Begin, TypeOK
<1>5. CASE BeginWithLease(n, c)
  <2> DEFINE l == conn[n][c].name
  <2>1. ServiceToken(n, c) \in Nat /\ l \in Lease /\ conn[n][c].tok[l] \in Nat
    BY DEF ServiceToken, TypeOK, ClusterAssumption, Statement
  <2>2. [Idle EXCEPT !.op = "begun",
          !.tok = [NoTokens EXCEPT ![l] = conn[n][c].tok[l],
                                   ![Service] = ServiceToken(n, c)]] \in Statement
    BY <2>1, IdleType, NoTokensType DEF Statement, Ops
  <2> QED BY <1>5, <2>2, SetType, LearnType DEF BeginWithLease, TypeOK
<1> QED BY <1>1, <1>2, <1>3, <1>4, <1>5 DEF Sends

LEMMA ProceedsType ==
  ASSUME ClusterAssumption, TypeOK, NEW n \in Node, NEW c \in Conn, Proceeds(n, c)
  PROVE  TypeOK'
<1> USE DEF store, process
<1> DEFINE s == conn[n][c]
           l == s.name
<1>0. s \in Statement /\ l \in Lease /\ s.tok \in [Lease -> Nat]
  BY DEF TypeOK, Statement
<1>1. CASE AskEvaluated(n, c)
  <2>1. [s EXCEPT !.op = IF row[n] = "live" THEN "take" ELSE "told",
                  !.alive = row[n] = "live"] \in Statement
    BY <1>0 DEF Statement, Ops
  <2> QED BY <1>1, <2>1, SetType DEF AskEvaluated, TypeOK
<1>2. CASE AskTaken(n, c)
  <2> DEFINE told == [s EXCEPT !.op = "told", !.alive = FALSE]
  <2>1. told \in Statement
    BY <1>0 DEF Statement, Ops
  <2>2. lease[l] \in LeaseRecord /\ lease[l].token \in Nat
    BY <1>0 DEF TypeOK, LeaseRecord
  <2>3. /\ [told EXCEPT !.tok[l] = lease[l].token] \in Statement
        /\ [told EXCEPT !.tok[l] = lease[l].token + 1] \in Statement
    <3>1. lease[l].token + 1 \in Nat
      BY <2>2
    <3>2. \A t \in Nat : [told EXCEPT !.tok[l] = t] \in Statement
      BY <1>0, <2>1, TokenType
    <3> HIDE DEF told, l
    <3> QED BY <2>2, <3>1, <3>2
  <2>4. conn' \in [Node -> [Conn -> Statement]]
    BY <1>2, <2>1, <2>3, SetType DEF AskTaken, TypeOK, NextToken
  <2>5. lease' \in [Lease -> LeaseRecord]
    <3>1. (~s.alive) \in BOOLEAN
      OBVIOUS
    <3>2. CASE lease' = [lease EXCEPT ![l].early = ~s.alive]
      BY <1>0, <2>2, <3>1, <3>2 DEF TypeOK, LeaseRecord
    <3>3. CASE lease' = [lease EXCEPT ![l] = [holder |-> n, token |-> NextToken(l),
                                              live |-> TRUE, early |-> ~s.alive]]
      <4>1. [holder |-> n, token |-> NextToken(l), live |-> TRUE,
             early |-> ~s.alive] \in LeaseRecord
        BY <2>2, <3>1 DEF LeaseRecord, NextToken
      <4> QED BY <1>0, <3>3, <4>1 DEF TypeOK
    <3>4. CASE lease' = lease
      BY <3>4 DEF TypeOK
    <3> QED BY <1>2, <3>2, <3>3, <3>4 DEF AskTaken
  <2>6. tenure' \in [Lease -> Seq(Node)]
    <3>1. CASE tenure' = [tenure EXCEPT ![l] = Append(@, n)]
      BY <1>0, <3>1 DEF TypeOK
    <3>2. CASE tenure' = tenure
      BY <3>2 DEF TypeOK
    <3> QED BY <1>2, <3>1, <3>2 DEF AskTaken
  <2> QED BY <1>2, <2>4, <2>5, <2>6 DEF AskTaken, TypeOK
<1>3. CASE AskAnswered(n, c)
  BY <1>3, IdleType, SetType, LearnType DEF AskAnswered, TypeOK
<1>4. CASE BeatExecuted(n, c)
  <2> DEFINE renewed == {k \in Lease : HoldsRow(n, k)}
             beaten == [Idle EXCEPT !.op = "beaten", !.alive = TRUE,
                !.tok = [k \in Lease |-> IF k \in renewed THEN lease[k].token ELSE 0]]
             g == [d \in Conn |-> IF d = c THEN beaten
                                  ELSE IF conn[n][d].op = "take"
                                  THEN [conn[n][d] EXCEPT !.alive = FALSE]
                                  ELSE conn[n][d]]
             r == [k \in Lease |-> IF k \in renewed THEN [lease[k] EXCEPT !.early = FALSE]
                                                    ELSE lease[k]]
  <2>1. beaten \in Statement
    BY IdleType DEF TypeOK, Statement, Ops, LeaseRecord
  <2>2. g \in [Conn -> Statement]
    <3>1. \A d \in Conn : [conn[n][d] EXCEPT !.alive = FALSE] \in Statement
      BY StatementType DEF TypeOK
    <3>2. \A d \in Conn : conn[n][d] \in Statement
      BY DEF TypeOK
    <3> HIDE DEF beaten
    <3> QED BY <2>1, <3>1, <3>2
  <2>3. r \in [Lease -> LeaseRecord]
    <3>1. \A k \in Lease : [lease[k] EXCEPT !.early = FALSE] \in LeaseRecord
      BY LeaseRecordType DEF TypeOK
    <3> QED BY <3>1 DEF TypeOK
  <2>4. [Idle EXCEPT !.op = "beaten"] \in Statement
    BY IdleType DEF Statement, Ops
  <2>5. CASE row[n] = "live"
    <3>1. conn' = [conn EXCEPT ![n] = g] /\ lease' = r
      BY <1>4, <2>5 DEF BeatExecuted
    <3>2. conn' \in [Node -> [Conn -> Statement]]
      BY <2>2, <3>1 DEF TypeOK
    <3> HIDE DEF r, g
    <3> QED BY <1>4, <2>3, <3>1, <3>2 DEF BeatExecuted, TypeOK
  <2>6. CASE row[n] # "live"
    BY <1>4, <2>4, <2>6, SetType DEF BeatExecuted, TypeOK
  <2> QED BY <2>5, <2>6
<1>5. CASE BeatAnswered(n, c)
  <2>1. CASE FrontGone(n)
    <3>1. deposed' \in [Node -> BOOLEAN]
      BY <1>5 DEF BeatAnswered, TypeOK
    <3> QED BY <1>5, <2>1, <3>1, FrontGoneType DEF BeatAnswered, TypeOK
  <2>2. CASE ~FrontGone(n)
    <3> DEFINE lost == LostIn(n, s)
    <3>1. [k \in Lease |-> IF k \in lost THEN 0 ELSE held[n][k]] \in [Lease -> Nat]
      BY DEF TypeOK
    <3>2. held' \in [Node -> [Lease -> Nat]]
      BY <1>5, <2>2, <3>1 DEF BeatAnswered, TypeOK
    <3>3. Set(n, c, Idle) /\ UNCHANGED <<phase, deposed>>
      BY <1>5, <2>2 DEF BeatAnswered
    <3> QED BY <1>5, <3>2, <3>3, IdleType, SetType DEF BeatAnswered, TypeOK
  <2> QED BY <2>1, <2>2
<1>6. CASE FencePassed(n, c)
  <2>1. [s EXCEPT !.op = "checked"] \in Statement
    BY <1>0 DEF Statement, Ops
  <2> QED BY <1>6, <2>1, SetType DEF FencePassed, TypeOK
<1>7. CASE Fenced(n, c)
  <2>1. CASE FrontGone(n)
    <3>1. UNCHANGED <<workers, inherited>> \/ WorkersGone(n)
      BY <1>7 DEF Fenced
    <3>2. /\ conn' \in [Node -> [Conn -> Statement]] /\ workers' \in [Node -> BOOLEAN]
          /\ inherited' \in [Node -> Nat]
      BY <2>1, <3>1, FrontGoneType, WorkersGoneType DEF TypeOK
    <3> QED BY <1>7, <2>1, <3>2, FrontGoneType DEF Fenced, TypeOK
  <2>2. CASE WorkersGone(n)
    <3>1. phase' \in [Node -> Phase] /\ held' \in [Node -> [Lease -> Nat]]
      <4> DEFINE g == [k \in Lease |-> IF k \in Lost(n, c) /\ held[n][k] = s.tok[k]
                                       THEN 0 ELSE held[n][k]]
      <4>1. g \in [Lease -> Nat]
        BY DEF TypeOK
      <4>2. \/ FrontGone(n)
            \/ UNCHANGED <<phase, held>>
            \/ UNCHANGED phase /\ held' = [held EXCEPT ![n] = g]
        BY <1>7 DEF Fenced
      <4> HIDE DEF g
      <4> QED BY <4>1, <4>2, FrontGoneType DEF TypeOK
    <3> QED BY <1>7, <2>2, <3>1, WorkersGoneType DEF Fenced, TypeOK
  <2>3. CASE ~FrontGone(n) /\ ~WorkersGone(n)
    <3> DEFINE g == [k \in Lease |-> IF k \in Lost(n, c) /\ held[n][k] = s.tok[k]
                                     THEN 0 ELSE held[n][k]]
    <3>1. g \in [Lease -> Nat]
      BY DEF TypeOK
    <3>2. held' = [held EXCEPT ![n] = g] \/ held' = held
      BY <1>7, <2>3 DEF Fenced
    <3>3. held' \in [Node -> [Lease -> Nat]]
      BY <3>1, <3>2 DEF TypeOK
    <3>4. Set(n, c, Idle) /\ UNCHANGED <<phase, workers, inherited>>
      BY <1>7, <2>3 DEF Fenced
    <3> HIDE DEF g
    <3> QED BY <1>7, <3>3, <3>4, IdleType, SetType DEF Fenced, TypeOK
  <2> QED BY <2>1, <2>2, <2>3
<1>8. CASE Commit(n, c)
  <2>1. written' \in [Lease -> Nat]
    BY <1>0, <1>8 DEF Commit, TypeOK
  <2> QED BY <1>8, <2>1, IdleType, SetType DEF Commit, TypeOK
<1> QED BY <1>1, <1>2, <1>3, <1>4, <1>5, <1>6, <1>7, <1>8 DEF Proceeds

LEMMA FailsType ==
  ASSUME ClusterAssumption, TypeOK, NEW n \in Node, NEW c \in Conn, Fails(n, c)
  PROVE  TypeOK'
<1> USE DEF store, process
<1>1. CASE AskLost(n, c)
  BY <1>1, IdleType, SetType DEF AskLost, TypeOK
<1>2. CASE BeatLost(n, c)
  BY <1>2, IdleType, SetType, FrontGoneType DEF BeatLost, TypeOK
<1>3. CASE Rollback(n, c)
  BY <1>3, IdleType, SetType DEF Rollback, TypeOK
<1> QED BY <1>1, <1>2, <1>3 DEF Fails

LEMMA TypeStep == ASSUME ClusterAssumption, TypeOK, [Next]_vars PROVE TypeOK'
<1>1. ASSUME NEW l \in Lease, ExpireLease(l) PROVE TypeOK'
  <2>1. lease' = [lease EXCEPT ![l] = [@ EXCEPT !.live = FALSE]]
    BY <1>1 DEF ExpireLease, TypeOK
  <2>2. lease[l] \in LeaseRecord
    BY DEF TypeOK
  <2>3. [lease[l] EXCEPT !.live = FALSE] \in LeaseRecord
    BY <2>2 DEF LeaseRecord
  <2>4. lease' \in [Lease -> LeaseRecord]
    BY <2>1, <2>3 DEF TypeOK
  <2>5. UNCHANGED <<row, phase, deposed, held, workers, inherited, conn, tenure, written>>
    BY <1>1 DEF ExpireLease, process
  <2> QED BY <2>4, <2>5 DEF TypeOK
<1>2. CASE UNCHANGED vars
  BY <1>2 DEF TypeOK, vars
<1> QED BY <1>1, <1>2, NodeStepType, SendsType, ProceedsType, FailsType
        DEF Next, Works, Stopped

(* The tables, the processes and the connections keep the types the code   *)
(* gives them, for every number of nodes, leases and connections.          *)
THEOREM TypeCorrect == Spec => []TypeOK
BY InitType, TypeStep, ClusterAssumption, PTL DEF Spec

-----------------------------------------------------------------------------
(* The fence: what a transaction was checked against holds until it ends,  *)
(* commits follow the tenures, and the cluster implements FencedLease.     *)

(* A new tenure of l: the one step that changes a holder or a token. *)
Grants(n, l) ==
  /\ ~ShareLocked(l)
  /\ ~lease[l].live
  /\ lease'[l].holder = n /\ lease'[l].token = lease[l].token + 1
  /\ \A k \in Lease \ {l} : lease'[k] = lease[k]
  /\ tenure' = [tenure EXCEPT ![l] = Append(@, n)]
  /\ UNCHANGED written

SameTenures ==
  /\ UNCHANGED tenure
  /\ \A l \in Lease : /\ lease'[l].holder = lease[l].holder
                      /\ lease'[l].token = lease[l].token
                      /\ lease'[l].live => lease[l].live

WrittenBound == \A l \in Lease : written[l] <= lease[l].token

IInv == TypeOK /\ LeaseRow /\ FenceHolds /\ WrittenBound

-----------------------------------------------------------------------------
(* What a step does to one connection.                                     *)

LEMMA SetAt ==
  ASSUME TypeOK, NEW n \in Node, NEW c \in Conn, NEW s, Set(n, c, s),
         NEW m \in Node, NEW d \in Conn
  PROVE  conn'[m][d] = IF m = n /\ d = c THEN s ELSE conn[m][d]
BY DEF Set, TypeOK

LEMMA FrontGoneAt ==
  ASSUME TypeOK, NEW n \in Node, FrontGone(n), NEW m \in Node, NEW d \in Conn
  PROVE  conn'[m][d] = IF m = n /\ d \in FrontConn THEN Idle ELSE conn[m][d]
BY DEF FrontGone, TypeOK

LEMMA WorkersGoneAt ==
  ASSUME TypeOK, NEW n \in Node, WorkersGone(n), NEW m \in Node, NEW d \in Conn
  PROVE  conn'[m][d] = IF m = n /\ d \in WorkerConn THEN Idle ELSE conn[m][d]
BY DEF WorkersGone, TypeOK

(* The heartbeat's execution: its own connection is answered, and waiting  *)
(* acquisitions only lose their flag.                                      *)
LEMMA BeatExecutedAt ==
  ASSUME ClusterAssumption, TypeOK, NEW n \in Node, NEW c \in Conn, BeatExecuted(n, c),
         NEW m \in Node, NEW d \in Conn
  PROVE  \/ conn'[m][d] = conn[m][d]
         \/ /\ conn[m][d].op = "take" /\ conn'[m][d].op = "take"
            /\ conn'[m][d].tok = conn[m][d].tok
         \/ /\ m = n /\ d = c /\ conn'[m][d].op = "beaten"
            /\ \A l \in Lease : \/ conn'[m][d].tok[l] = 0
                               \/ (HoldsRow(n, l) /\ conn'[m][d].tok[l] = lease[l].token)
<1> DEFINE b == [Idle EXCEPT !.op = "beaten", !.alive = TRUE,
                   !.tok = [l \in Lease |-> IF l \in {k \in Lease : HoldsRow(n, k)}
                                            THEN lease[l].token ELSE 0]]
           g == [e \in Conn |-> IF e = c THEN b
                                ELSE IF conn[n][e].op = "take"
                                THEN [conn[n][e] EXCEPT !.alive = FALSE]
                                ELSE conn[n][e]]
<1>1. CASE row[n] = "live"
  <2>1. conn' = [conn EXCEPT ![n] = g]
    BY <1>1 DEF BeatExecuted
  <2>2. /\ b.op = "beaten"
        /\ \A l \in Lease : b.tok[l] = 0 \/ (HoldsRow(n, l) /\ b.tok[l] = lease[l].token)
    BY DEF Idle
  <2>3. conn[m][d] \in Statement
    BY DEF TypeOK
  <2> HIDE DEF b
  <2>4. \/ conn'[m][d] = conn[m][d]
        \/ m = n /\ d = c /\ conn'[m][d] = b
        \/ conn[m][d].op = "take" /\ conn'[m][d] = [conn[m][d] EXCEPT !.alive = FALSE]
    BY <2>1 DEF TypeOK
  <2>5. LET q == [conn[m][d] EXCEPT !.alive = FALSE]
        IN  q.op = conn[m][d].op /\ q.tok = conn[m][d].tok
    BY <2>3 DEF Statement
  <2>6. CASE m = n /\ d = c /\ conn'[m][d] = b
    BY <2>2, <2>6
  <2>7. CASE conn[m][d].op = "take" /\ conn'[m][d] = [conn[m][d] EXCEPT !.alive = FALSE]
    BY <2>5, <2>7
  <2> QED BY <2>4, <2>6, <2>7
<1>2. CASE row[n] # "live"
  <2>1. Set(n, c, [Idle EXCEPT !.op = "beaten"])
    BY <1>2 DEF BeatExecuted
  <2> DEFINE q == [Idle EXCEPT !.op = "beaten"]
  <2>2. q.op = "beaten" /\ \A l \in Lease : q.tok[l] = 0
    BY DEF Idle, NoTokens
  <2>3. Set(n, c, q)
    BY <2>1
  <2> HIDE DEF q
  <2>4. conn'[m][d] = IF m = n /\ d = c THEN q ELSE conn[m][d]
    BY <2>3, SetAt
  <2> QED BY <2>2, <2>4
<1> QED BY <1>1, <1>2

-----------------------------------------------------------------------------
(* What a step does to the leases, and to the checked transactions.        *)

LEMMA LeaseStep ==
  ASSUME ClusterAssumption, TypeOK, [Next]_vars
  PROVE  SameTenures \/ \E n \in Node, l \in Lease : Grants(n, l)
<1>1. ASSUME UNCHANGED <<lease, tenure>> PROVE SameTenures
  BY <1>1 DEF SameTenures
<1>2. ASSUME NEW n \in Node, NodeStep(n) PROVE SameTenures
  <2>1. CASE Left(n)
    <3>1. \A l \in Lease : \/ lease'[l] = lease[l]
                           \/ lease'[l] = ExpiredNow(lease[l])
      BY <2>1 DEF Left
    <3>2. \A l \in Lease : lease[l] \in LeaseRecord
      BY DEF TypeOK
    <3> QED BY <2>1, <3>1, <3>2 DEF Left, SameTenures, ExpiredNow, LeaseRecord
  <2>2. CASE ~Left(n)
    BY <1>2, <2>2, <1>1 DEF NodeStep, Join, Leave, Killed, WorkersExit, ExpireRow, store
  <2> QED BY <2>1, <2>2
<1>3. ASSUME NEW n \in Node, NEW c \in Conn, Sends(n, c) PROVE SameTenures
  BY <1>3, <1>1 DEF Sends, AttemptService, AskRole, Beat, Begin, BeginWithLease, store
<1>4. ASSUME NEW n \in Node, NEW c \in Conn, Proceeds(n, c)
      PROVE  SameTenures \/ \E l \in Lease : Grants(n, l)
  <2> DEFINE l == conn[n][c].name
  <2>0. l \in Lease /\ lease[l] \in LeaseRecord
    BY DEF TypeOK, Statement
  <2>1. CASE AskTaken(n, c)
    <3>1. CASE lease' = [lease EXCEPT ![l].early = ~conn[n][c].alive] /\ UNCHANGED tenure
      BY <2>0, <3>1 DEF TypeOK, LeaseRecord, SameTenures
    <3>2. CASE /\ Free(l)
               /\ lease' = [lease EXCEPT ![l] = [holder |-> n, token |-> NextToken(l),
                                live |-> TRUE, early |-> ~conn[n][c].alive]]
               /\ tenure' = [tenure EXCEPT ![l] = Append(@, n)]
      <4>0. ~ShareLocked(l) /\ UNCHANGED written
        BY <2>1 DEF AskTaken
      <4> HIDE DEF l
      <4>1. lease'[l] = [holder |-> n, token |-> NextToken(l), live |-> TRUE,
                         early |-> ~conn[n][c].alive]
        BY <2>0, <3>2 DEF TypeOK
      <4>2. \A k \in Lease \ {l} : lease'[k] = lease[k]
        BY <2>0, <3>2 DEF TypeOK
      <4>4. Grants(n, l)
        BY <3>2, <4>0, <4>1, <4>2 DEF Grants, Free, NextToken
      <4> QED BY <2>0, <4>4
    <3>3. CASE UNCHANGED <<lease, tenure>>
      BY <1>1, <3>3
    <3> QED BY <2>1, <3>1, <3>2, <3>3 DEF AskTaken
  <2>2. CASE BeatExecuted(n, c)
    <3>1. \A k \in Lease : \/ lease'[k] = lease[k]
                           \/ lease'[k] = [lease[k] EXCEPT !.early = FALSE]
      BY <2>2 DEF BeatExecuted
    <3>2. \A k \in Lease : lease[k] \in LeaseRecord
      BY DEF TypeOK
    <3>3. \A r \in LeaseRecord : LET q == [r EXCEPT !.early = FALSE] IN
            q.holder = r.holder /\ q.token = r.token /\ q.live = r.live
      BY DEF LeaseRecord
    <3>4. UNCHANGED tenure
      BY <2>2 DEF BeatExecuted
    <3>5. \A k \in Lease : /\ lease'[k].holder = lease[k].holder
                           /\ lease'[k].token = lease[k].token
                           /\ lease'[k].live = lease[k].live
      BY <3>1, <3>2, <3>3
    <3> QED BY <3>4, <3>5 DEF SameTenures
  <2>3. CASE ~AskTaken(n, c) /\ ~BeatExecuted(n, c)
    BY <1>4, <2>3, <1>1 DEF Proceeds, AskEvaluated, AskAnswered, BeatAnswered, FencePassed,
                            Fenced, Commit, store
  <2> QED BY <2>1, <2>2, <2>3
<1>5. ASSUME NEW n \in Node, NEW c \in Conn, Fails(n, c) PROVE SameTenures
  BY <1>5, <1>1 DEF Fails, AskLost, BeatLost, Rollback, store
<1>6. ASSUME NEW l \in Lease, ExpireLease(l) PROVE SameTenures
  <2>1. lease[l] \in LeaseRecord
    BY DEF TypeOK
  <2> QED BY <1>6, <2>1 DEF ExpireLease, TypeOK, LeaseRecord, SameTenures
<1>7. CASE UNCHANGED vars
  BY <1>1, <1>7 DEF vars
<1> QED BY <1>1, <1>2, <1>3, <1>4, <1>5, <1>6, <1>7 DEF Next, Works, Stopped, vars

LEMMA WrittenStep ==
  ASSUME [Next]_vars, ~ UNCHANGED written
  PROVE  \E n \in Node, c \in Conn : Commit(n, c)
<1> USE DEF store, process
<1>1. ASSUME NEW n \in Node, NodeStep(n) PROVE UNCHANGED written
  BY <1>1 DEF NodeStep, Join, Leave, Left, Killed, WorkersExit, ExpireRow
<1>2. ASSUME NEW n \in Node, NEW c \in Conn, Sends(n, c) PROVE UNCHANGED written
  BY <1>2 DEF Sends, AttemptService, AskRole, Beat, Begin, BeginWithLease
<1>3. ASSUME NEW n \in Node, NEW c \in Conn, Proceeds(n, c)
      PROVE  UNCHANGED written \/ Commit(n, c)
  BY <1>3 DEF Proceeds, AskEvaluated, AskTaken, AskAnswered, BeatExecuted, BeatAnswered,
              FencePassed, Fenced
<1>4. ASSUME NEW n \in Node, NEW c \in Conn, Fails(n, c) PROVE UNCHANGED written
  BY <1>4 DEF Fails, AskLost, BeatLost, Rollback
<1>5. ASSUME NEW l \in Lease, ExpireLease(l) PROVE UNCHANGED written
  BY <1>5 DEF ExpireLease
<1> QED BY <1>1, <1>2, <1>3, <1>4, <1>5 DEF Next, Works, Stopped, vars

(* A checked transaction was checked before, or passes the fence now. *)
LEMMA CheckedStep ==
  ASSUME ClusterAssumption, TypeOK, [Next]_vars, NEW m \in Node, NEW d \in Conn,
         conn'[m][d].op = "checked"
  PROVE  conn'[m][d] = conn[m][d] \/ (FencePassed(m, d) /\ UNCHANGED lease)
<1> USE DEF store, process
<1> DEFINE Kept == conn'[m][d] = conn[m][d]
<1>1. ASSUME NEW n \in Node, NEW c \in Conn, NEW s, s.op # "checked", Set(n, c, s)
      PROVE  Kept
  BY <1>1 DEF Set, TypeOK
<1>2. ASSUME NEW n \in Node, FrontGone(n) \/ WorkersGone(n) PROVE Kept
  <2>1. ASSUME FrontGone(n)
        PROVE  conn'[m][d] = IF m = n /\ d \in FrontConn THEN Idle ELSE conn[m][d]
    BY <2>1 DEF FrontGone, TypeOK
  <2>2. ASSUME WorkersGone(n)
        PROVE  conn'[m][d] = IF m = n /\ d \in WorkerConn THEN Idle ELSE conn[m][d]
    BY <2>2 DEF WorkersGone, TypeOK
  <2> QED BY <1>2, <2>1, <2>2 DEF Idle
<1>3. Idle.op # "checked"
  BY DEF Idle
<1>4. ASSUME UNCHANGED conn PROVE Kept
  BY <1>4
<1>5. ASSUME NEW n \in Node, NodeStep(n) PROVE Kept
  BY <1>5, <1>2, <1>4 DEF NodeStep, Join, Leave, Left, Killed, WorkersExit, ExpireRow
<1>6. ASSUME NEW n \in Node, NEW c \in Conn, Sends(n, c) PROVE Kept
  <2>1. ASSUME AttemptService(n, c) PROVE Kept
    BY <2>1, <1>1 DEF AttemptService, Idle
  <2>2. ASSUME NEW l \in Lease, AskRole(n, c, l) PROVE Kept
    BY <2>2, <1>1 DEF AskRole, Idle
  <2>3. ASSUME Beat(n, c) PROVE Kept
    BY <2>3, <1>1 DEF Beat, Idle
  <2>4. ASSUME Begin(n, c) PROVE Kept
    BY <2>4, <1>1 DEF Begin, Idle
  <2>5. ASSUME BeginWithLease(n, c) PROVE Kept
    BY <2>5, <1>1 DEF BeginWithLease, Idle
  <2> QED BY <1>6, <2>1, <2>2, <2>3, <2>4, <2>5 DEF Sends
<1>7. ASSUME NEW n \in Node, NEW c \in Conn, Proceeds(n, c)
      PROVE  Kept \/ (FencePassed(m, d) /\ UNCHANGED lease)
  <2> DEFINE s == conn[n][c]
  <2>0. s \in Statement
    BY DEF TypeOK
  <2>1. ASSUME AskEvaluated(n, c) PROVE Kept
    <3>1. [s EXCEPT !.op = IF row[n] = "live" THEN "take" ELSE "told",
                    !.alive = row[n] = "live"].op # "checked"
      BY <2>0 DEF Statement
    <3> QED BY <2>1, <3>1, <1>1 DEF AskEvaluated
  <2>2. ASSUME AskTaken(n, c) PROVE Kept
    <3> DEFINE told == [s EXCEPT !.op = "told", !.alive = FALSE]
    <3>1. told.op = "told" /\ \A l \in Lease : \A t : [told EXCEPT !.tok[l] = t].op = "told"
      BY <2>0 DEF Statement
    <3>2. s.name \in Lease
      BY <2>0 DEF Statement
    <3> HIDE DEF told
    <3>3. \/ Set(n, c, told)
          \/ \E t : Set(n, c, [told EXCEPT !.tok[s.name] = t])
      BY <2>2 DEF AskTaken, told
    <3> QED BY <3>1, <3>2, <3>3, <1>1
  <2>3. ASSUME AskAnswered(n, c) PROVE Kept
    BY <2>3, <1>1, <1>3 DEF AskAnswered
  <2>4. ASSUME BeatExecuted(n, c) PROVE Kept
    <3>1. CASE row[n] = "live"
      <4> DEFINE b == [Idle EXCEPT !.op = "beaten", !.alive = TRUE,
                        !.tok = [l \in Lease |-> IF l \in {k \in Lease : HoldsRow(n, k)}
                                                 THEN lease[l].token ELSE 0]]
                 g == [e \in Conn |-> IF e = c THEN b
                                      ELSE IF conn[n][e].op = "take"
                                      THEN [conn[n][e] EXCEPT !.alive = FALSE]
                                      ELSE conn[n][e]]
      <4>a. conn' = [conn EXCEPT ![n] = g]
        BY <2>4, <3>1 DEF BeatExecuted
      <4>b. b.op = "beaten"
        BY DEF Idle
      <4> HIDE DEF b
      <4>1. \/ conn'[m][d] = conn[m][d]
            \/ conn'[m][d].op = "beaten"
            \/ /\ conn[m][d].op = "take"
               /\ conn'[m][d] = [conn[m][d] EXCEPT !.alive = FALSE]
        BY <4>a, <4>b DEF TypeOK
      <4>2. conn[m][d] \in Statement
        BY DEF TypeOK
      <4> QED BY <4>1, <4>2 DEF Statement
    <3>2. CASE row[n] # "live"
      BY <2>4, <3>2, <1>1 DEF BeatExecuted, Idle
    <3> QED BY <3>1, <3>2
  <2>5. ASSUME BeatAnswered(n, c) PROVE Kept
    BY <2>5, <1>1, <1>2, <1>3 DEF BeatAnswered
  <2>6. ASSUME FencePassed(n, c) PROVE Kept \/ (FencePassed(m, d) /\ UNCHANGED lease)
    BY <2>6 DEF FencePassed, Set, TypeOK
  <2>7. ASSUME Fenced(n, c) PROVE Kept
    BY <2>7, <1>1, <1>2, <1>3 DEF Fenced
  <2>8. ASSUME Commit(n, c) PROVE Kept
    BY <2>8, <1>1, <1>3 DEF Commit
  <2> QED BY <1>7, <2>1, <2>2, <2>3, <2>4, <2>5, <2>6, <2>7, <2>8 DEF Proceeds
<1>8. ASSUME NEW n \in Node, NEW c \in Conn, Fails(n, c) PROVE Kept
  BY <1>8, <1>1, <1>2, <1>3 DEF Fails, AskLost, BeatLost, Rollback
<1>9. ASSUME NEW l \in Lease, ExpireLease(l) PROVE Kept
  BY <1>9 DEF ExpireLease
<1> QED BY <1>4, <1>5, <1>6, <1>7, <1>8, <1>9 DEF Next, Works, Stopped, vars

-----------------------------------------------------------------------------
(* The inductive invariant.                                                *)

LEMMA InvInit == ASSUME ClusterAssumption, Init PROVE IInv
<1>1. TypeOK
  BY InitType
<1>2. \A l \in Lease : lease[l].token = 0 /\ lease[l].live = FALSE
  BY DEF Init
<1>3. LeaseRow
  BY <1>2 DEF LeaseRow, Init
<1>4. FenceHolds
  BY DEF FenceHolds, Init, Idle
<1>5. WrittenBound
  BY <1>2 DEF WrittenBound, Init
<1> QED BY <1>1, <1>3, <1>4, <1>5 DEF IInv

LEMMA LeaseRowStep == ASSUME ClusterAssumption, IInv, [Next]_vars PROVE LeaseRow'
<1>0. TypeOK /\ LeaseRow /\ TypeOK'
  BY TypeStep DEF IInv
<1>1. CASE SameTenures
  BY <1>0, <1>1 DEF SameTenures, LeaseRow
<1>2. ASSUME NEW n \in Node, NEW l \in Lease, Grants(n, l) PROVE LeaseRow'
  <2>1. tenure[l] \in Seq(Node) /\ tenure'[l] = Append(tenure[l], n)
    BY <1>0, <1>2 DEF Grants, TypeOK
  <2>2. Len(tenure'[l]) = Len(tenure[l]) + 1 /\ tenure'[l][Len(tenure[l]) + 1] = n
    BY <2>1
  <2>3. lease'[l].token = Len(tenure'[l]) /\ lease'[l].holder = tenure'[l][lease'[l].token]
    BY <1>0, <1>2, <2>2 DEF Grants, LeaseRow
  <2>4. lease'[l].token > 0
    <3>1. lease[l].token \in Nat
      BY <1>0 DEF TypeOK, LeaseRecord
    <3> QED BY <1>2, <3>1 DEF Grants
  <2>5. \A k \in Lease \ {l} : lease'[k] = lease[k] /\ tenure'[k] = tenure[k]
    BY <1>0, <1>2 DEF Grants, TypeOK
  <2> QED BY <1>0, <2>3, <2>4, <2>5 DEF LeaseRow
<1> QED BY <1>0, <1>1, <1>2, LeaseStep

LEMMA FenceStep == ASSUME ClusterAssumption, IInv, [Next]_vars PROVE FenceHolds'
<1>0. TypeOK /\ FenceHolds
  BY DEF IInv
<1> SUFFICES ASSUME NEW m \in Node, NEW d \in Conn, NEW k \in Lease,
                    conn'[m][d].op = "checked", conn'[m][d].tok[k] > 0
             PROVE  lease'[k].holder = m /\ lease'[k].token = conn'[m][d].tok[k]
  BY DEF FenceHolds
<1>1. CASE conn'[m][d] = conn[m][d]
  <2>1. lease[k].holder = m /\ lease[k].token = conn[m][d].tok[k] /\ ShareLocked(k)
    BY <1>0, <1>1 DEF FenceHolds, ShareLocked
  <2>2. lease'[k].holder = lease[k].holder /\ lease'[k].token = lease[k].token
    BY <1>0, <2>1, LeaseStep DEF SameTenures, Grants
  <2> QED BY <1>1, <2>1, <2>2
<1>2. CASE FencePassed(m, d) /\ UNCHANGED lease
  <2>1. conn'[m][d] = [conn[m][d] EXCEPT !.op = "checked"]
    BY <1>0, <1>2 DEF FencePassed, Set, TypeOK
  <2>2. conn[m][d] \in Statement
    BY <1>0 DEF TypeOK
  <2>3. conn'[m][d].tok = conn[m][d].tok
    BY <2>1, <2>2 DEF Statement
  <2>4. k \notin Lost(m, d)
    BY <1>2 DEF FencePassed
  <2>5. HoldsRow(m, k) /\ lease[k].token = conn[m][d].tok[k]
    BY <2>3, <2>4 DEF Lost
  <2> QED BY <1>2, <2>3, <2>5 DEF HoldsRow
<1> QED BY <1>0, <1>1, <1>2, CheckedStep

LEMMA WrittenBoundStep == ASSUME ClusterAssumption, IInv, [Next]_vars PROVE WrittenBound'
<1>0. TypeOK /\ FenceHolds /\ WrittenBound /\ TypeOK'
  BY TypeStep DEF IInv
<1>1. \A l \in Lease : /\ lease[l].token \in Nat /\ lease'[l].token \in Nat
                       /\ written[l] \in Nat /\ lease[l].token <= lease'[l].token
  <2> TAKE l \in Lease
  <2>1. lease[l] \in LeaseRecord /\ lease'[l] \in LeaseRecord /\ written[l] \in Nat
    BY <1>0 DEF TypeOK
  <2>2. lease'[l].token = lease[l].token \/ lease'[l].token = lease[l].token + 1
    BY <1>0, LeaseStep DEF SameTenures, Grants
  <2> QED BY <2>1, <2>2 DEF LeaseRecord
<1>2. CASE UNCHANGED written
  BY <1>0, <1>1, <1>2 DEF WrittenBound
<1>3. ASSUME NEW n \in Node, NEW c \in Conn, Commit(n, c) PROVE WrittenBound'
  <2>1. \A l \in Lease : written'[l] = written[l] \/ written'[l] = lease[l].token
    BY <1>0, <1>3 DEF Commit, FenceHolds
  <2> QED BY <1>0, <1>1, <2>1 DEF WrittenBound
<1> QED BY <1>2, <1>3, WrittenStep

LEMMA InvStep == ASSUME ClusterAssumption, IInv, [Next]_vars PROVE IInv'
<1>1. TypeOK'
  BY TypeStep DEF IInv
<1> QED BY <1>1, LeaseRowStep, FenceStep, WrittenBoundStep DEF IInv

LEMMA Inductive == Spec => []IInv
BY InvInit, InvStep, ClusterAssumption, PTL DEF Spec

-----------------------------------------------------------------------------
(* What follows from it.                                                   *)

(* While a checked transaction is open, every lease it was checked against *)
(* is still this node's at that token, for any number of nodes, leases,    *)
(* connections and late answers (checkFence's FOR SHARE).                  *)
THEOREM FenceCorrect == Spec => []FenceHolds
BY Inductive, PTL DEF IInv

(* The lease row always is the last tenure granted: tokens count up across *)
(* expiry, leaving and takeover (acquireLease, leaveCluster).              *)
THEOREM LeaseRowCorrect == Spec => []LeaseRow
BY Inductive, PTL DEF IInv

LEMMA CommitInOrder ==
  ASSUME ClusterAssumption, IInv, [Next]_vars, NEW l \in Lease
  PROVE  written'[l] >= written[l]
<1>0. TypeOK /\ FenceHolds /\ WrittenBound /\ written[l] \in Nat /\ lease[l].token \in Nat
  BY DEF IInv, TypeOK, LeaseRecord
<1>1. CASE UNCHANGED written
  BY <1>0, <1>1
<1>2. ASSUME NEW n \in Node, NEW c \in Conn, Commit(n, c) PROVE written'[l] >= written[l]
  <2>1. written'[l] = written[l] \/ written'[l] = lease[l].token
    BY <1>0, <1>2 DEF Commit, FenceHolds
  <2> QED BY <1>0, <2>1 DEF WrittenBound
<1> QED BY <1>1, <1>2, WrittenStep

(* Commits under one lease come in the order of its tenures.               *)
THEOREM CommitsInOrder == Spec => CommitOrder
<1>1. ASSUME IInv, [Next]_vars PROVE [\A l \in Lease : written'[l] >= written[l]]_vars
  BY <1>1, CommitInOrder, ClusterAssumption
<1> QED BY <1>1, Inductive, PTL DEF Spec, CommitOrder

LEMMA AbstractInit == ASSUME ClusterAssumption, Init PROVE Fence!Init
BY DEF Init, Fence!Init

LEMMA AbstractStep ==
  ASSUME ClusterAssumption, IInv, [Next]_vars
  PROVE  [Fence!Next]_(Fence!vars)
<1>0. TypeOK /\ FenceHolds /\ LeaseRow
  BY DEF IInv
<1>1. CASE ~ UNCHANGED written
  <2>1. PICK n \in Node, c \in Conn : Commit(n, c)
    BY <1>1, WrittenStep
  <2> DEFINE S == {l \in Lease : conn[n][c].tok[l] > 0}
  <2>2. \A l \in S : /\ lease[l].holder = n /\ lease[l].token = conn[n][c].tok[l]
                     /\ lease[l].token = Len(tenure[l])
                     /\ lease[l].holder = tenure[l][lease[l].token]
    BY <1>0, <2>1 DEF Commit, FenceHolds, LeaseRow
  <2>3. \A l \in S : Fence!Current(l, n)
    BY <2>2 DEF Fence!Current
  <2>4. written' = [l \in Lease |-> IF l \in S THEN Len(tenure[l]) ELSE written[l]]
    BY <2>1, <2>2 DEF Commit
  <2>5. UNCHANGED tenure
    BY <2>1 DEF Commit, store
  <2>6. Fence!Write(n, S)
    BY <2>3, <2>4, <2>5 DEF Fence!Write
  <2> QED BY <2>6 DEF Fence!Next
<1>2. CASE UNCHANGED written
  <2>1. CASE SameTenures
    BY <1>2, <2>1 DEF SameTenures, Fence!vars
  <2>2. ASSUME NEW n \in Node, NEW l \in Lease, Grants(n, l) PROVE Fence!Next
    BY <2>2 DEF Grants, Fence!Grant, Fence!Next
  <2> QED BY <1>0, <2>1, <2>2, LeaseStep
<1> QED BY <1>1, <1>2

(* Every run of the cluster is a run of the abstract fenced lease: however *)
(* its clocks, messages and processes interleave, all a writer can see is  *)
(* tenures being granted and commits of the current holder.                *)
THEOREM Implements == Spec => FencedLeaseSpec
<1>1. ASSUME IInv, [Next]_vars PROVE [Fence!Next]_(Fence!vars)
  BY <1>1, AbstractStep, ClusterAssumption
<1>2. ASSUME Init PROVE Fence!Init
  BY <1>2, AbstractInit, ClusterAssumption
<1> QED BY <1>1, <1>2, Inductive, PTL DEF Spec, FencedLeaseSpec, Fence!Spec

-----------------------------------------------------------------------------
(* What a node knows of a lease.                                           *)

(* A token known before, or the one of a lease row that is this node's. *)
Known(m, l, t) ==
  \/ t = 0 \/ t = held[m][l] \/ (l = Service /\ t = inherited[m])
  \/ \E e \in Conn : t = conn[m][e].tok[l]

Source(m, l, t) == Known(m, l, t) \/ (lease'[l].holder = m /\ t = lease'[l].token)

LEMMA SetSource ==
  ASSUME TypeOK, NEW n \in Node, NEW c \in Conn, NEW s, Set(n, c, s), NEW l \in Lease,
         Source(n, l, s.tok[l]), NEW m \in Node, NEW d \in Conn
  PROVE  Source(m, l, conn'[m][d].tok[l])
<1>1. conn'[m][d] = IF m = n /\ d = c THEN s ELSE conn[m][d]
  BY SetAt
<1> QED BY <1>1 DEF Source, Known

LEMMA IdleSource == ASSUME NEW m \in Node, NEW l \in Lease PROVE Source(m, l, Idle.tok[l])
BY DEF Source, Known, Idle, NoTokens

LEMMA GoneSource ==
  ASSUME TypeOK, NEW n \in Node, FrontGone(n) \/ WorkersGone(n), NEW l \in Lease,
         NEW m \in Node, NEW d \in Conn
  PROVE  Source(m, l, conn'[m][d].tok[l])
<1>1. conn'[m][d] = conn[m][d] \/ conn'[m][d] = Idle
  BY FrontGoneAt, WorkersGoneAt
<1> QED BY <1>1, IdleSource DEF Source, Known

LEMMA BegunSource ==
  ASSUME ClusterAssumption, TypeOK, NEW n \in Node, NEW c \in Conn, NEW l \in Lease
  PROVE  Source(n, l, [NoTokens EXCEPT ![Service] = ServiceToken(n, c)][l])
<1>1. [NoTokens EXCEPT ![Service] = ServiceToken(n, c)][l]
        = IF l = Service THEN ServiceToken(n, c) ELSE 0
  BY DEF NoTokens
<1> QED BY <1>1 DEF ServiceToken, Source, Known

LEMMA ConnSource ==
  ASSUME ClusterAssumption, TypeOK, [Next]_vars, NEW m \in Node, NEW d \in Conn, NEW l \in Lease
  PROVE  Source(m, l, conn'[m][d].tok[l])
<1> DEFINE Goal == Source(m, l, conn'[m][d].tok[l])
<1>1. ASSUME UNCHANGED conn PROVE Goal
  BY <1>1 DEF Source, Known
<1>2. ASSUME NEW n \in Node, NEW c \in Conn, Set(n, c, Idle) PROVE Goal
  BY <1>2, SetSource, IdleSource
<1>3. ASSUME NEW n \in Node, NodeStep(n) PROVE Goal
  BY <1>3, <1>1, GoneSource DEF NodeStep, Join, Leave, Left, Killed, WorkersExit, ExpireRow
<1>4. ASSUME NEW n \in Node, NEW c \in Conn, Sends(n, c) PROVE Goal
  <2>1. ASSUME NEW s, Set(n, c, s), s.tok = NoTokens PROVE Goal
    <3>1. Source(n, l, s.tok[l])
      BY <2>1, IdleSource DEF Idle
    <3> QED BY <2>1, <3>1, SetSource
  <2>2. ASSUME AttemptService(n, c) PROVE Goal
    <3>1. [Idle EXCEPT !.op = "ask"].tok = NoTokens
      BY DEF Idle
    <3> QED BY <2>1, <2>2, <3>1 DEF AttemptService
  <2>3. ASSUME NEW k \in Lease, AskRole(n, c, k) PROVE Goal
    <3>1. [Idle EXCEPT !.op = "ask", !.name = k].tok = NoTokens
      BY DEF Idle
    <3> QED BY <2>1, <2>3, <3>1 DEF AskRole
  <2>4. ASSUME Beat(n, c) PROVE Goal
    <3>1. [Idle EXCEPT !.op = "beat"].tok = NoTokens
      BY DEF Idle
    <3> QED BY <2>1, <2>4, <3>1 DEF Beat
  <2>5. ASSUME Begin(n, c) PROVE Goal
    <3> DEFINE s == [Idle EXCEPT !.op = "begun",
                       !.tok = [NoTokens EXCEPT ![Service] = ServiceToken(n, c)]]
    <3>1. s.tok = [NoTokens EXCEPT ![Service] = ServiceToken(n, c)]
      BY DEF Idle
    <3> HIDE DEF s
    <3>2. Set(n, c, s)
      BY <2>5 DEF Begin, s
    <3> QED BY <3>1, <3>2, BegunSource, SetSource
  <2>6. ASSUME BeginWithLease(n, c) PROVE Goal
    <3> DEFINE k == conn[n][c].name
               s == [Idle EXCEPT !.op = "begun",
                       !.tok = [NoTokens EXCEPT ![k] = conn[n][c].tok[k],
                                                ![Service] = ServiceToken(n, c)]]
    <3>1. s.tok[l] = IF l = Service THEN ServiceToken(n, c)
                     ELSE IF l = k THEN conn[n][c].tok[l] ELSE 0
      BY DEF Idle, NoTokens
    <3> HIDE DEF s
    <3>2. Source(n, l, s.tok[l])
      BY <3>1 DEF Source, Known, ServiceToken
    <3>3. Set(n, c, s)
      BY <2>6 DEF BeginWithLease, s
    <3> QED BY <3>2, <3>3, SetSource
  <2> QED BY <1>4, <2>2, <2>3, <2>4, <2>5, <2>6 DEF Sends
<1>5. ASSUME NEW n \in Node, NEW c \in Conn, Proceeds(n, c) PROVE Goal
  <2> DEFINE s == conn[n][c]
  <2>a. s \in Statement
    BY DEF TypeOK
  <2>0. s \in Statement /\ s.name \in Lease
    BY <2>a DEF Statement
  <2>b. ASSUME NEW q, Set(n, c, q), q.tok = s.tok PROVE Goal
    <3>1. Source(n, l, q.tok[l])
      BY <2>b DEF Source, Known
    <3> QED BY <2>b, <3>1, SetSource
  <2>1. ASSUME AskEvaluated(n, c) PROVE Goal
    <3> DEFINE q == [s EXCEPT !.op = IF row[n] = "live" THEN "take" ELSE "told",
                              !.alive = row[n] = "live"]
    <3>1. q.tok = s.tok
      BY <2>0 DEF Statement
    <3> HIDE DEF q
    <3>2. Set(n, c, q)
      BY <2>1 DEF AskEvaluated, q
    <3> QED BY <2>b, <3>1, <3>2
  <2>2. ASSUME AskTaken(n, c) PROVE Goal
    <3> DEFINE told == [s EXCEPT !.op = "told", !.alive = FALSE]
               k == s.name
    <3>0. told \in Statement /\ told.tok = s.tok /\ k \in Lease
      BY <2>0 DEF Statement, Ops
    <3> HIDE DEF told
    <3>1. CASE Set(n, c, told)
      <4>1. Source(n, l, told.tok[l])
        BY <3>0 DEF Source, Known
      <4> QED BY <3>1, <4>1, SetSource
    <3>2. ASSUME NEW t, Set(n, c, [told EXCEPT !.tok[k] = t]),
                 lease'[k].holder = n, t = lease'[k].token
          PROVE  Goal
      <4> DEFINE q == [told EXCEPT !.tok[k] = t]
      <4>1. q.tok[l] = IF l = k THEN t ELSE s.tok[l]
        BY <3>0 DEF Statement
      <4> HIDE DEF q
      <4>2. Source(n, l, q.tok[l])
        BY <3>2, <4>1 DEF Source, Known
      <4>3. Set(n, c, q)
        BY <3>2 DEF q
      <4> QED BY <4>2, <4>3, SetSource
    <3>3. CASE HoldsRow(n, k) /\ Set(n, c, [told EXCEPT !.tok[k] = lease[k].token])
                 /\ \E e \in BOOLEAN : lease' = [lease EXCEPT ![k].early = e]
      <4>1. lease'[k].holder = n /\ lease'[k].token = lease[k].token
        BY <3>0, <3>3 DEF HoldsRow, TypeOK, LeaseRecord
      <4> QED BY <3>2, <3>3, <4>1
    <3>4. CASE Set(n, c, [told EXCEPT !.tok[k] = NextToken(k)])
                 /\ \E e \in BOOLEAN :
                      lease' = [lease EXCEPT ![k] = [holder |-> n, token |-> NextToken(k),
                                                     live |-> TRUE, early |-> e]]
      <4>1. lease'[k].holder = n /\ lease'[k].token = NextToken(k)
        BY <3>0, <3>4 DEF TypeOK
      <4> QED BY <3>2, <3>4, <4>1
    <3>5. (~s.alive) \in BOOLEAN
      OBVIOUS
    <3> QED BY <2>2, <3>1, <3>3, <3>4, <3>5 DEF AskTaken, told
  <2>3. ASSUME AskAnswered(n, c) \/ Commit(n, c) PROVE Goal
    BY <2>3, <1>2 DEF AskAnswered, Commit
  <2>4. ASSUME BeatExecuted(n, c) PROVE Goal
    <3>1. \/ conn'[m][d] = conn[m][d] \/ conn'[m][d].tok = conn[m][d].tok
          \/ m = n /\ \/ conn'[m][d].tok[l] = 0
                      \/ (HoldsRow(n, l) /\ conn'[m][d].tok[l] = lease[l].token)
      BY <2>4, BeatExecutedAt
    <3>2. lease'[l].holder = lease[l].holder /\ lease'[l].token = lease[l].token
      <4>1. lease'[l] = lease[l] \/ lease'[l] = [lease[l] EXCEPT !.early = FALSE]
        BY <2>4 DEF BeatExecuted
      <4>2. lease[l] \in LeaseRecord
        BY DEF TypeOK
      <4> QED BY <4>1, <4>2 DEF LeaseRecord
    <3> QED BY <3>1, <3>2 DEF Source, Known, HoldsRow
  <2>5. ASSUME BeatAnswered(n, c) PROVE Goal
    BY <2>5, <1>2, GoneSource DEF BeatAnswered
  <2>6. ASSUME FencePassed(n, c) PROVE Goal
    <3>1. [s EXCEPT !.op = "checked"].tok = s.tok
      BY <2>0 DEF Statement
    <3> QED BY <2>6, <2>b, <3>1 DEF FencePassed
  <2>7. ASSUME Fenced(n, c) PROVE Goal
    BY <2>7, <1>2, GoneSource DEF Fenced
  <2> QED BY <1>5, <2>1, <2>2, <2>3, <2>4, <2>5, <2>6, <2>7 DEF Proceeds
<1>6. ASSUME NEW n \in Node, NEW c \in Conn, Fails(n, c) PROVE Goal
  BY <1>6, <1>2, GoneSource DEF Fails, AskLost, BeatLost, Rollback
<1>7. ASSUME NEW k \in Lease, ExpireLease(k) PROVE Goal
  BY <1>7, <1>1 DEF ExpireLease
<1> QED BY <1>1, <1>3, <1>4, <1>5, <1>6, <1>7 DEF Next, Works, Stopped, vars

(* The held map and the inherited token change only by answers and losses. *)
LEMMA LearnSource ==
  ASSUME TypeOK, NEW n \in Node, NEW c \in Conn, Learn(n, c), NEW m \in Node, NEW l \in Lease
  PROVE  Known(m, l, held'[m][l]) /\ Known(m, Service, inherited'[m])
<1> DEFINE k == conn[n][c].name
           t == conn[n][c].tok[k]
<1>1. k \in Lease
  BY DEF TypeOK, Statement
<1>2. held'[m][l] = IF m = n /\ l = k /\ t > 0 THEN t ELSE held[m][l]
  BY <1>1 DEF Learn, TypeOK
<1>3. inherited'[m] = inherited[m] \/ (m = n /\ k = Service /\ inherited'[m] = t)
  BY DEF Learn, TypeOK
<1> QED BY <1>2, <1>3 DEF Known

LEMMA ProcessSource ==
  ASSUME ClusterAssumption, TypeOK, [Next]_vars, NEW m \in Node, NEW l \in Lease
  PROVE  Known(m, l, held'[m][l]) /\ Known(m, Service, inherited'[m])
<1> DEFINE Goal == Known(m, l, held'[m][l]) /\ Known(m, Service, inherited'[m])
<1> USE DEF store, process
<1>1. ASSUME held'[m][l] \in {held[m][l], 0}, inherited'[m] \in {inherited[m], 0} PROVE Goal
  BY <1>1 DEF Known
<1>2. ASSUME NEW n \in Node, FrontGone(n) PROVE held'[m][l] \in {held[m][l], 0}
  BY <1>2 DEF FrontGone, TypeOK, NoTokens
<1>3. ASSUME NEW n \in Node, WorkersGone(n) PROVE inherited'[m] \in {inherited[m], 0}
  BY <1>3 DEF WorkersGone, TypeOK
<1>4. ASSUME NEW n \in Node, NodeStep(n) PROVE Goal
  BY <1>4, <1>1, <1>2, <1>3 DEF NodeStep, Join, Leave, Left, Killed, WorkersExit, ExpireRow
<1>5. ASSUME NEW n \in Node, NEW c \in Conn, Sends(n, c) PROVE Goal
  BY <1>5, <1>1, LearnSource DEF Sends, AttemptService, AskRole, Beat, Begin, BeginWithLease
<1>6. ASSUME NEW n \in Node, NEW S \in SUBSET Lease,
             held' = [held EXCEPT ![n] = [k \in Lease |-> IF k \in S THEN 0 ELSE held[n][k]]]
      PROVE  held'[m][l] \in {held[m][l], 0}
  BY <1>6 DEF TypeOK
<1>7. ASSUME NEW n \in Node, NEW c \in Conn, Proceeds(n, c) PROVE Goal
  <2>1. CASE BeatAnswered(n, c)
    <3>1. held'[m][l] \in {held[m][l], 0}
      BY <2>1, <1>2, <1>6 DEF BeatAnswered, LostIn
    <3> QED BY <2>1, <3>1, <1>1 DEF BeatAnswered
  <2>2. CASE Fenced(n, c)
    <3>1. \/ held'[m][l] = held[m][l] \/ held'[m][l] = 0
      <4>1. CASE held' = [held EXCEPT ![n] = [k \in Lease |->
                            IF k \in Lost(n, c) /\ held[n][k] = conn[n][c].tok[k]
                            THEN 0 ELSE held[n][k]]]
        BY <4>1 DEF TypeOK
      <4> QED BY <2>2, <4>1, <1>2 DEF Fenced
    <3>2. inherited'[m] \in {inherited[m], 0}
      BY <2>2, <1>3 DEF Fenced
    <3> QED BY <3>1, <3>2, <1>1
  <2>3. CASE ~BeatAnswered(n, c) /\ ~Fenced(n, c)
    BY <1>7, <2>3, <1>1, LearnSource
       DEF Proceeds, AskEvaluated, AskTaken, AskAnswered, BeatExecuted, FencePassed, Commit
  <2> QED BY <2>1, <2>2, <2>3
<1>8. ASSUME NEW n \in Node, NEW c \in Conn, Fails(n, c) PROVE Goal
  BY <1>8, <1>1, <1>2 DEF Fails, AskLost, BeatLost, Rollback
<1>9. ASSUME NEW k \in Lease, ExpireLease(k) PROVE Goal
  BY <1>9, <1>1 DEF ExpireLease
<1> QED BY <1>1, <1>4, <1>5, <1>7, <1>8, <1>9 DEF Next, Works, Stopped, vars

LEMMA GrantedStays ==
  ASSUME ClusterAssumption, TypeOK, [Next]_vars, NEW n \in Node, NEW l \in Lease, NEW t,
         Granted(l, t, n)
  PROVE  Granted(l, t, n)'
<1>1. CASE SameTenures
  BY <1>1 DEF SameTenures, Granted
<1>2. ASSUME NEW m \in Node, NEW k \in Lease, Grants(m, k) PROVE Granted(l, t, n)'
  <2>1. tenure[k] \in Seq(Node) /\ tenure' = [tenure EXCEPT ![k] = Append(@, m)]
    BY <1>2 DEF Grants, TypeOK
  <2>2. CASE l # k
    BY <2>1, <2>2 DEF Granted, TypeOK
  <2>3. CASE l = k
    <3>1. tenure'[l] = Append(tenure[l], m) /\ tenure[l] \in Seq(Node)
      BY <2>1, <2>3 DEF TypeOK
    <3>2. Len(tenure'[l]) = Len(tenure[l]) + 1 /\ Len(tenure[l]) \in Nat
      BY <3>1
    <3>3. \A i \in 1 .. Len(tenure[l]) : tenure'[l][i] = tenure[l][i]
      BY <3>1
    <3> QED BY <3>2, <3>3 DEF Granted
  <2> QED BY <2>2, <2>3
<1> QED BY <1>1, <1>2, LeaseStep

GrantedNext(l, t, n) == t = 0 \/ (t \in 1 .. Len(tenure'[l]) /\ tenure'[l][t] = n)

LEMMA KnownTokensStep ==
  ASSUME ClusterAssumption, IInv, KnownTokens, [Next]_vars
  PROVE  KnownTokens'
<1>0. TypeOK /\ LeaseRow' /\ TypeOK'
  BY TypeStep, LeaseRowStep DEF IInv
<1>1. ASSUME NEW n \in Node, NEW l \in Lease, NEW t, Known(n, l, t) PROVE GrantedNext(l, t, n)
  <2>1. Granted(l, t, n)
    BY <1>1 DEF Known, KnownTokens, Granted
  <2> QED BY <1>0, <2>1, GrantedStays DEF Granted, GrantedNext
<1>2. ASSUME NEW n \in Node, NEW l \in Lease, NEW t, Source(n, l, t) PROVE GrantedNext(l, t, n)
  <2>1. CASE lease'[l].holder = n /\ t = lease'[l].token
    <3>1. lease'[l].token \in Nat /\ lease'[l].token = Len(tenure'[l])
      BY <1>0 DEF TypeOK, LeaseRecord, LeaseRow
    <3> QED BY <1>0, <2>1, <3>1 DEF LeaseRow, GrantedNext
  <2> QED BY <1>1, <1>2, <2>1 DEF Source
<1>3. ClusterAssumption /\ Service \in Lease
  BY DEF ClusterAssumption
<1>4. \A n \in Node, l \in Lease : /\ GrantedNext(l, held'[n][l], n)
                                /\ GrantedNext(Service, inherited'[n], n)
  BY <1>0, <1>1, <1>3, ProcessSource
<1>5. \A n \in Node, c \in Conn, l \in Lease : GrantedNext(l, conn'[n][c].tok[l], n)
  BY <1>0, <1>2, ConnSource
<1> QED BY <1>3, <1>4, <1>5 DEF KnownTokens, Granted, GrantedNext

(* Whatever a node knows of a lease names one of its own tenures, however  *)
(* late the answer it learnt it from (acquire(), beat(), attach()).        *)
THEOREM KnownTokensCorrect == Spec => []KnownTokens
<1>1. Init => KnownTokens
  BY DEF Init, KnownTokens, Granted, NoTokens, Idle
<1>2. IInv /\ KnownTokens /\ [Next]_vars => KnownTokens'
  BY KnownTokensStep, ClusterAssumption
<1> QED BY <1>1, <1>2, Inductive, PTL DEF Spec

-----------------------------------------------------------------------------
(* Active-passive mode: every transaction of a serving node carries the    *)
(* service lease in its fence, so one node writes.                         *)

(* Workers open transactions and nothing else; a node that left has none   *)
(* running; a front process serves on the service token it remembers and   *)
(* its workers on the one they inherited.                                  *)
WorkersOnlyWrite == \A n \in Node, c \in WorkerConn :
  /\ conn[n][c].op \in {"idle", "begun", "checked"}
  /\ ~workers[n] => conn[n][c].op = "idle"

WorkersOfRunning == \A n \in Node :
  workers[n] => phase[n] \in {"serving", "stopped"}

ServedUnderLease == Passive => \A n \in Node :
  /\ phase[n] = "serving" => held[n][Service] > 0
  /\ workers[n] => inherited[n] > 0

WInv == WorkersOnlyWrite /\ WorkersOfRunning /\ ServedUnderLease /\ ServiceFenced

-----------------------------------------------------------------------------
(* How a step opens a transaction.                                         *)

Open == {"begun", "checked"}

(* An open transaction was open before with the same fence, or begins now  *)
(* with the service token its process knows.                               *)
LEMMA OpenStep ==
  ASSUME ClusterAssumption, TypeOK, [Next]_vars, NEW m \in Node, NEW d \in Conn,
         conn'[m][d].op \in Open
  PROVE  \/ conn[m][d].op \in Open /\ conn'[m][d].tok = conn[m][d].tok
         \/ /\ Begin(m, d) \/ BeginWithLease(m, d)
            /\ conn'[m][d].tok[Service] = ServiceToken(m, d)
<1> USE DEF store, process, Open
<1> DEFINE Kept == conn[m][d].op \in Open /\ conn'[m][d].tok = conn[m][d].tok
           Begun == /\ Begin(m, d) \/ BeginWithLease(m, d)
                    /\ conn'[m][d].tok[Service] = ServiceToken(m, d)
<1>1. ASSUME NEW n \in Node, NEW c \in Conn, NEW s, s.op \notin Open, Set(n, c, s)
      PROVE  Kept
  BY <1>1, SetAt
<1>2. ASSUME NEW n \in Node, FrontGone(n) \/ WorkersGone(n) PROVE Kept
  <2>1. conn'[m][d] = conn[m][d] \/ conn'[m][d] = Idle
    BY <1>2, FrontGoneAt, WorkersGoneAt
  <2> QED BY <2>1 DEF Idle
<1>3. Idle.op \notin Open
  BY DEF Idle
<1>4. ASSUME UNCHANGED conn PROVE Kept
  BY <1>4
<1>5. ASSUME NEW n \in Node, NodeStep(n) PROVE Kept
  BY <1>5, <1>2, <1>4 DEF NodeStep, Join, Leave, Left, Killed, WorkersExit, ExpireRow
<1>6. ASSUME NEW n \in Node, NEW c \in Conn, Sends(n, c) PROVE Kept \/ Begun
  <2>1. ASSUME AttemptService(n, c) PROVE Kept
    BY <2>1, <1>1 DEF AttemptService, Idle
  <2>2. ASSUME NEW l \in Lease, AskRole(n, c, l) PROVE Kept
    BY <2>2, <1>1 DEF AskRole, Idle
  <2>3. ASSUME Beat(n, c) PROVE Kept
    BY <2>3, <1>1 DEF Beat, Idle
  <2>4. ASSUME Begin(n, c) PROVE Kept \/ Begun
    <3> DEFINE s == [Idle EXCEPT !.op = "begun",
                       !.tok = [NoTokens EXCEPT ![Service] = ServiceToken(n, c)]]
    <3>1. s.tok[Service] = ServiceToken(n, c)
      BY DEF Idle, NoTokens, ClusterAssumption
    <3> HIDE DEF s
    <3>2. Set(n, c, s)
      BY <2>4 DEF Begin, s
    <3> QED BY <2>4, <3>1, <3>2, SetAt
  <2>5. ASSUME BeginWithLease(n, c) PROVE Kept \/ Begun
    <3> DEFINE l == conn[n][c].name
               s == [Idle EXCEPT !.op = "begun",
                       !.tok = [NoTokens EXCEPT ![l] = conn[n][c].tok[l],
                                                ![Service] = ServiceToken(n, c)]]
    <3>1. s.tok[Service] = ServiceToken(n, c)
      BY DEF Idle, NoTokens, ClusterAssumption
    <3> HIDE DEF s
    <3>2. Set(n, c, s)
      BY <2>5 DEF BeginWithLease, s
    <3> QED BY <2>5, <3>1, <3>2, SetAt
  <2> QED BY <1>6, <2>1, <2>2, <2>3, <2>4, <2>5 DEF Sends
<1>7. ASSUME NEW n \in Node, NEW c \in Conn, Proceeds(n, c) PROVE Kept
  <2> DEFINE s == conn[n][c]
  <2>0. s \in Statement
    BY DEF TypeOK
  <2>1. ASSUME AskEvaluated(n, c) PROVE Kept
    <3>1. [s EXCEPT !.op = IF row[n] = "live" THEN "take" ELSE "told",
                    !.alive = row[n] = "live"].op \notin Open
      BY <2>0 DEF Statement
    <3> QED BY <2>1, <3>1, <1>1 DEF AskEvaluated
  <2>2. ASSUME AskTaken(n, c) PROVE Kept
    <3> DEFINE told == [s EXCEPT !.op = "told", !.alive = FALSE]
    <3>1. told.op = "told" /\ \A l \in Lease : \A t : [told EXCEPT !.tok[l] = t].op = "told"
      BY <2>0 DEF Statement
    <3>2. s.name \in Lease
      BY <2>0 DEF Statement
    <3> HIDE DEF told
    <3>3. \/ Set(n, c, told)
          \/ \E t : Set(n, c, [told EXCEPT !.tok[s.name] = t])
      BY <2>2 DEF AskTaken, told
    <3> QED BY <3>1, <3>2, <3>3, <1>1
  <2>3. ASSUME AskAnswered(n, c) PROVE Kept
    BY <2>3, <1>1, <1>3 DEF AskAnswered
  <2>4. ASSUME BeatExecuted(n, c) PROVE Kept
    BY <2>4, BeatExecutedAt
  <2>5. ASSUME BeatAnswered(n, c) PROVE Kept
    BY <2>5, <1>1, <1>2, <1>3 DEF BeatAnswered
  <2>6. ASSUME FencePassed(n, c) PROVE Kept
    <3> DEFINE q == [s EXCEPT !.op = "checked"]
    <3>1. q.tok = s.tok
      BY <2>0 DEF Statement
    <3>2. s.op = "begun" /\ Set(n, c, q)
      BY <2>6 DEF FencePassed
    <3> HIDE DEF q
    <3> QED BY <3>1, <3>2, SetAt
  <2>7. ASSUME Fenced(n, c) PROVE Kept
    BY <2>7, <1>1, <1>2, <1>3 DEF Fenced
  <2>8. ASSUME Commit(n, c) PROVE Kept
    BY <2>8, <1>1, <1>3 DEF Commit
  <2> QED BY <1>7, <2>1, <2>2, <2>3, <2>4, <2>5, <2>6, <2>7, <2>8 DEF Proceeds
<1>8. ASSUME NEW n \in Node, NEW c \in Conn, Fails(n, c) PROVE Kept
  BY <1>8, <1>1, <1>2, <1>3 DEF Fails, AskLost, BeatLost, Rollback
<1>9. ASSUME NEW l \in Lease, ExpireLease(l) PROVE Kept
  BY <1>9 DEF ExpireLease
<1> QED BY <1>4, <1>5, <1>6, <1>7, <1>8, <1>9 DEF Next, Works, Stopped, vars

-----------------------------------------------------------------------------
(* The invariant of active-passive mode.                                   *)

LEMMA WorkersOnlyWriteStep ==
  ASSUME ClusterAssumption, TypeOK, WorkersOnlyWrite, WorkersOfRunning, [Next]_vars
  PROVE  WorkersOnlyWrite'
<1> USE DEF store, process
<1> SUFFICES ASSUME NEW m \in Node, NEW d \in WorkerConn
             PROVE  /\ conn'[m][d].op \in {"idle", "begun", "checked"}
                    /\ ~workers'[m] => conn'[m][d].op = "idle"
  BY DEF WorkersOnlyWrite
<1> DEFINE Kept == conn'[m][d] = conn[m][d] /\ (workers[m] => workers'[m])
           Goal == /\ conn'[m][d].op \in {"idle", "begun", "checked"}
                   /\ ~workers'[m] => conn'[m][d].op = "idle"
<1>0. d \in Conn /\ d \notin FrontConn
  BY DEF Conn, ClusterAssumption
<1>1. ASSUME Kept PROVE Goal
  BY <1>1 DEF WorkersOnlyWrite
<1>2. ASSUME NEW n \in Node, NEW c \in Conn, NEW s, Set(n, c, s), workers' = workers,
             s = Idle \/ m # n \/ c # d
      PROVE  Goal
  <2>1. conn'[m][d] = IF m = n /\ d = c THEN s ELSE conn[m][d]
    BY <1>0, <1>2, SetAt
  <2> QED BY <1>2, <2>1 DEF Idle, WorkersOnlyWrite
<1>3. ASSUME NEW n \in Node, FrontGone(n), workers' = workers PROVE Goal
  BY <1>0, <1>3, FrontGoneAt DEF WorkersOnlyWrite
<1>4. ASSUME NEW n \in Node, WorkersGone(n) PROVE Goal
  <2>1. CASE m = n
    <3>1. conn'[m][d] = Idle
      BY <1>0, <1>4, <2>1, WorkersGoneAt
    <3> QED BY <3>1 DEF Idle
  <2>2. CASE m # n
    <3>1. conn'[m][d] = conn[m][d]
      BY <1>0, <1>4, <2>2, WorkersGoneAt
    <3>2. workers[m] => workers'[m]
      BY <1>4, <2>2 DEF WorkersGone, TypeOK
    <3> QED BY <3>1, <3>2, <1>1
  <2> QED BY <2>1, <2>2
<1>5. ASSUME NEW n \in Node, NodeStep(n) PROVE Goal
  <2>1. ASSUME Join(n) PROVE Goal
    <3>1. ~workers[n]
      BY <2>1 DEF Join, WorkersOfRunning
    <3>2. UNCHANGED conn /\ (m # n => workers'[m] = workers[m])
      BY <2>1 DEF Join, TypeOK
    <3> QED BY <1>1, <3>1, <3>2
  <2>2. ASSUME Leave(n) \/ WorkersExit(n) PROVE Goal
    BY <2>2, <1>4 DEF Leave, WorkersExit
  <2>3. ASSUME Left(n) \/ Killed(n) PROVE Goal
    BY <2>3, <1>3 DEF Left, Killed
  <2>4. ASSUME ExpireRow(n) PROVE Goal
    BY <2>4, <1>1 DEF ExpireRow
  <2> QED BY <1>5, <2>1, <2>2, <2>3, <2>4 DEF NodeStep
<1>6. ASSUME NEW n \in Node, NEW c \in Conn, Sends(n, c) PROVE Goal
  <2>1. ASSUME AttemptService(n, c) PROVE Goal
    BY <2>1, <1>0, <1>2 DEF AttemptService
  <2>2. ASSUME NEW l \in Lease, AskRole(n, c, l) PROVE Goal
    BY <2>2, <1>0, <1>2 DEF AskRole
  <2>3. ASSUME Beat(n, c) PROVE Goal
    BY <2>3, <1>0, <1>2 DEF Beat
  <2>4. ASSUME Begin(n, c) PROVE Goal
    <3> DEFINE s == [Idle EXCEPT !.op = "begun",
                       !.tok = [NoTokens EXCEPT ![Service] = ServiceToken(n, c)]]
    <3>1. s.op = "begun"
      BY DEF Idle
    <3>2. Set(n, c, s) /\ workers' = workers /\ (c \in WorkerConn => workers[n])
      BY <2>4 DEF Begin, ClusterAssumption
    <3> HIDE DEF s
    <3> QED BY <1>0, <3>1, <3>2, SetAt DEF WorkersOnlyWrite
  <2>5. ASSUME BeginWithLease(n, c) PROVE Goal
    <3>1. c # d \/ m # n
      BY <2>5 DEF BeginWithLease, WorkersOnlyWrite
    <3>2. conn'[m][d] = conn[m][d]
      BY <1>0, <2>5, <3>1, SetAt DEF BeginWithLease
    <3>3. workers[m] => workers'[m]
      BY <2>5 DEF BeginWithLease, Learn, TypeOK
    <3> QED BY <1>1, <3>2, <3>3
  <2> QED BY <1>6, <2>1, <2>2, <2>3, <2>4, <2>5 DEF Sends
<1>7. ASSUME NEW n \in Node, NEW c \in Conn, Proceeds(n, c) PROVE Goal
  <2> DEFINE s == conn[n][c]
  <2>1. ASSUME AskEvaluated(n, c) PROVE Goal
    BY <2>1, <1>2 DEF AskEvaluated, WorkersOnlyWrite
  <2>2. ASSUME AskTaken(n, c) PROVE Goal
    BY <2>2, <1>2 DEF AskTaken, WorkersOnlyWrite
  <2>3. ASSUME AskAnswered(n, c) PROVE Goal
    <3>1. conn'[m][d] = conn[m][d]
      BY <1>0, <2>3, SetAt DEF AskAnswered, WorkersOnlyWrite
    <3>2. workers[m] => workers'[m]
      BY <2>3 DEF AskAnswered, Learn, TypeOK
    <3> QED BY <1>1, <3>1, <3>2
  <2>4. ASSUME BeatExecuted(n, c) PROVE Goal
    <3>1. conn'[m][d] = conn[m][d]
      <4>1. conn[n][c].op = "beat" /\ conn[m][d].op \in {"idle", "begun", "checked"}
        BY <2>4 DEF BeatExecuted, WorkersOnlyWrite
      <4> QED BY <1>0, <2>4, <4>1, BeatExecutedAt
    <3>2. workers' = workers
      BY <2>4 DEF BeatExecuted
    <3> QED BY <1>1, <3>1, <3>2
  <2>5. ASSUME BeatAnswered(n, c) PROVE Goal
    BY <2>5, <1>2, <1>3 DEF BeatAnswered
  <2>6. ASSUME FencePassed(n, c) PROVE Goal
    <3> DEFINE q == [s EXCEPT !.op = "checked"]
    <3>1. q.op = "checked"
      <4>1. s \in Statement
        BY DEF TypeOK
      <4> QED BY <4>1 DEF Statement
    <3>2. s.op = "begun" /\ Set(n, c, q) /\ workers' = workers
      BY <2>6 DEF FencePassed
    <3> HIDE DEF q
    <3> QED BY <1>0, <3>1, <3>2, SetAt DEF WorkersOnlyWrite
  <2>7. ASSUME Fenced(n, c) PROVE Goal
    BY <2>7, <1>2, <1>3, <1>4 DEF Fenced
  <2>8. ASSUME Commit(n, c) PROVE Goal
    BY <2>8, <1>2 DEF Commit
  <2> QED BY <1>7, <2>1, <2>2, <2>3, <2>4, <2>5, <2>6, <2>7, <2>8 DEF Proceeds
<1>8. ASSUME NEW n \in Node, NEW c \in Conn, Fails(n, c) PROVE Goal
  BY <1>8, <1>2, <1>3 DEF Fails, AskLost, BeatLost, Rollback
<1>9. ASSUME NEW l \in Lease, ExpireLease(l) PROVE Goal
  BY <1>9, <1>1 DEF ExpireLease
<1>10. CASE UNCHANGED vars
  BY <1>10, <1>1 DEF vars
<1> QED BY <1>5, <1>6, <1>7, <1>8, <1>9, <1>10 DEF Next, Works, Stopped

LEMMA WorkersOfRunningStep ==
  ASSUME ClusterAssumption, TypeOK, WorkersOfRunning, [Next]_vars
  PROVE  WorkersOfRunning'
<1> USE DEF store, process
<1> SUFFICES ASSUME NEW m \in Node, workers'[m]
             PROVE  phase'[m] \in {"serving", "stopped"}
  BY DEF WorkersOfRunning
<1> DEFINE Goal == phase'[m] \in {"serving", "stopped"}
<1>1. ASSUME UNCHANGED <<phase, workers>> PROVE Goal
  BY <1>1 DEF WorkersOfRunning
<1>2. ASSUME NEW n \in Node, FrontGone(n), UNCHANGED workers PROVE Goal
  BY <1>2 DEF FrontGone, TypeOK, WorkersOfRunning
<1>3. ASSUME NEW n \in Node, WorkersGone(n), \A k \in Node : k # n => phase'[k] = phase[k]
      PROVE  Goal
  BY <1>3, WorkersGoneAt, Z3 DEF WorkersGone, TypeOK, WorkersOfRunning
<1>4. ASSUME NEW n \in Node, NEW c \in Conn, Learn(n, c) PROVE Goal
  BY <1>4 DEF Learn, TypeOK, WorkersOfRunning
<1>5. ASSUME NEW n \in Node, NodeStep(n) PROVE Goal
  <2>1. ASSUME Join(n) PROVE Goal
    BY <2>1 DEF Join, TypeOK, WorkersOfRunning
  <2>2. ASSUME Leave(n) PROVE Goal
    BY <2>2, <1>3 DEF Leave, TypeOK
  <2>3. ASSUME WorkersExit(n) PROVE Goal
    BY <2>3, <1>3 DEF WorkersExit
  <2>4. ASSUME Left(n) \/ Killed(n) PROVE Goal
    BY <2>4, <1>2 DEF Left, Killed
  <2>5. ASSUME ExpireRow(n) PROVE Goal
    BY <2>5, <1>1 DEF ExpireRow
  <2> QED BY <1>5, <2>1, <2>2, <2>3, <2>4, <2>5 DEF NodeStep
<1>6. ASSUME NEW n \in Node, NEW c \in Conn, Sends(n, c) PROVE Goal
  BY <1>6, <1>1, <1>4 DEF Sends, AttemptService, AskRole, Beat, Begin, BeginWithLease
<1>7. ASSUME NEW n \in Node, NEW c \in Conn, Proceeds(n, c) PROVE Goal
  <2>1. ASSUME Fenced(n, c) PROVE Goal
    BY <2>1, <1>1, <1>2, <1>3 DEF Fenced
  <2>2. ASSUME BeatAnswered(n, c) PROVE Goal
    BY <2>2, <1>1, <1>2 DEF BeatAnswered
  <2> QED BY <1>7, <2>1, <2>2, <1>1, <1>4 DEF Proceeds, AskEvaluated, AskTaken, AskAnswered,
             BeatExecuted, FencePassed, Commit
<1>8. ASSUME NEW n \in Node, NEW c \in Conn, Fails(n, c) PROVE Goal
  BY <1>8, <1>1, <1>2 DEF Fails, AskLost, BeatLost, Rollback
<1>9. ASSUME NEW l \in Lease, ExpireLease(l) PROVE Goal
  BY <1>9, <1>1 DEF ExpireLease
<1>10. CASE UNCHANGED vars
  BY <1>10, <1>1 DEF vars
<1> QED BY <1>5, <1>6, <1>7, <1>8, <1>9, <1>10 DEF Next, Works, Stopped

LEMMA ServedUnderLeaseStep ==
  ASSUME ClusterAssumption, TypeOK, ServedUnderLease, [Next]_vars
  PROVE  ServedUnderLease'
<1> USE DEF store, process
<1> SUFFICES ASSUME Passive, NEW m \in Node
             PROVE  /\ phase'[m] = "serving" => held'[m][Service] > 0
                    /\ workers'[m] => inherited'[m] > 0
  BY DEF ServedUnderLease, Passive
<1> DEFINE Front == phase'[m] = "serving" => held'[m][Service] > 0
           Back == workers'[m] => inherited'[m] > 0
<1>0. /\ phase[m] = "serving" => held[m][Service] > 0
      /\ workers[m] => inherited[m] > 0
      /\ Service \in Lease
  BY DEF ServedUnderLease, ClusterAssumption
<1>1. ASSUME UNCHANGED <<phase, held>> PROVE Front
  BY <1>0, <1>1
<1>2. ASSUME UNCHANGED <<workers, inherited>> PROVE Back
  BY <1>0, <1>2
<1>3. ASSUME NEW n \in Node, FrontGone(n) PROVE Front
  BY <1>0, <1>3 DEF FrontGone, TypeOK
<1>4. ASSUME NEW n \in Node, WorkersGone(n) PROVE Back
  <2>1. CASE m = n
    BY <1>4, <2>1 DEF WorkersGone, TypeOK
  <2>2. CASE m # n
    BY <1>0, <1>4, <2>2 DEF WorkersGone, TypeOK
  <2> QED BY <2>1, <2>2
<1>5. ASSUME NEW n \in Node, NEW c \in Conn, Learn(n, c) PROVE Front /\ Back
  <2> DEFINE l == conn[n][c].name
             t == conn[n][c].tok[l]
  <2>1. l \in Lease /\ t \in Nat
    <3>1. conn[n][c] \in Statement
      BY DEF TypeOK
    <3> QED BY <3>1 DEF Statement
  <2> HIDE DEF l, t
  <2>2. CASE t > 0 /\ l = Service /\ phase[n] = "standby"
    <3>1. /\ held' = [held EXCEPT ![n][l] = t] /\ phase' = [phase EXCEPT ![n] = "serving"]
          /\ workers' = [workers EXCEPT ![n] = TRUE]
          /\ inherited' = [inherited EXCEPT ![n] = t]
      BY <1>5, <2>2 DEF Learn, l, t
    <3> QED BY <1>0, <2>1, <2>2, <3>1 DEF TypeOK
  <2>3. CASE ~ (t > 0 /\ l = Service /\ phase[n] = "standby")
    <3>1. /\ \/ held' = [held EXCEPT ![n][l] = t] /\ t > 0
             \/ held' = held
          /\ UNCHANGED <<phase, workers, inherited>>
      BY <1>5, <2>3 DEF Learn, l, t
    <3>2. CASE held' = held
      BY <1>0, <3>1, <3>2
    <3>3. CASE held' = [held EXCEPT ![n][l] = t] /\ t > 0
      BY <1>0, <2>1, <3>1, <3>3 DEF TypeOK
    <3>4. UNCHANGED <<workers, inherited>>
      BY <3>1
    <3> QED BY <1>2, <3>1, <3>2, <3>3, <3>4
  <2> QED BY <2>2, <2>3
<1>6. ASSUME NEW n \in Node, NodeStep(n) PROVE Front /\ Back
  <2>1. ASSUME Join(n) PROVE Front /\ Back
    BY <1>0, <2>1 DEF Join, TypeOK
  <2>2. ASSUME Leave(n) PROVE Front /\ Back
    BY <1>0, <2>2, <1>4 DEF Leave, TypeOK
  <2>3. ASSUME WorkersExit(n) PROVE Front /\ Back
    BY <2>3, <1>1, <1>4 DEF WorkersExit
  <2>4. ASSUME Left(n) \/ Killed(n) PROVE Front /\ Back
    BY <2>4, <1>2, <1>3 DEF Left, Killed
  <2>5. ASSUME ExpireRow(n) PROVE Front /\ Back
    BY <2>5, <1>1, <1>2 DEF ExpireRow
  <2> QED BY <1>6, <2>1, <2>2, <2>3, <2>4, <2>5 DEF NodeStep
<1>7. ASSUME NEW n \in Node, NEW c \in Conn, Sends(n, c) PROVE Front /\ Back
  BY <1>7, <1>1, <1>2, <1>5 DEF Sends, AttemptService, AskRole, Beat, Begin, BeginWithLease
<1>8. ASSUME NEW n \in Node, NEW c \in Conn, Proceeds(n, c) PROVE Front /\ Back
  <2>1. ASSUME BeatAnswered(n, c) PROVE Front
    <3>1. CASE FrontGone(n)
      BY <3>1, <1>3
    <3>2. CASE UNCHANGED process
      BY <3>2, <1>1
    <3>3. CASE /\ ~Deposes(n, LostIn(n, conn[n][c]))
               /\ held' = [held EXCEPT ![n] = [l \in Lease |->
                      IF l \in LostIn(n, conn[n][c]) THEN 0 ELSE held[n][l]]]
               /\ UNCHANGED <<phase, deposed>>
      <4>1. m = n /\ phase[m] = "serving" => Service \notin LostIn(n, conn[n][c])
        BY <3>3 DEF Deposes, Running
      <4> QED BY <1>0, <3>3, <4>1 DEF TypeOK
    <3> QED BY <2>1, <3>1, <3>2, <3>3 DEF BeatAnswered
  <2>2. ASSUME Fenced(n, c) PROVE Front
    <3>1. CASE FrontGone(n)
      BY <3>1, <1>3
    <3>2. CASE UNCHANGED <<phase, held>>
      BY <3>2, <1>1
    <3>3. CASE /\ Service \notin Lost(n, c)
               /\ held' = [held EXCEPT ![n] = [l \in Lease |->
                         IF l \in Lost(n, c) /\ held[n][l] = conn[n][c].tok[l]
                         THEN 0 ELSE held[n][l]]]
               /\ UNCHANGED phase
      BY <1>0, <3>3 DEF TypeOK
    <3> QED BY <2>2, <3>1, <3>2, <3>3 DEF Fenced
  <2>3. ASSUME Fenced(n, c) PROVE Back
    BY <2>3, <1>2, <1>4 DEF Fenced
  <2>4. ASSUME BeatAnswered(n, c) PROVE Back
    BY <2>4, <1>2 DEF BeatAnswered
  <2> QED BY <1>8, <2>1, <2>2, <2>3, <2>4, <1>1, <1>2, <1>5 DEF Proceeds, AskEvaluated,
             AskTaken, AskAnswered, BeatExecuted, FencePassed, Commit
<1>9. ASSUME NEW n \in Node, NEW c \in Conn, Fails(n, c) PROVE Front /\ Back
  BY <1>9, <1>1, <1>2, <1>3 DEF Fails, AskLost, BeatLost, Rollback
<1>10. ASSUME NEW l \in Lease, ExpireLease(l) PROVE Front /\ Back
  BY <1>10, <1>1, <1>2 DEF ExpireLease
<1>11. CASE UNCHANGED vars
  BY <1>11, <1>1, <1>2 DEF vars
<1> QED BY <1>6, <1>7, <1>8, <1>9, <1>10, <1>11 DEF Next, Works, Stopped

LEMMA LeavingEnds ==
  ASSUME ClusterAssumption, TypeOK, [Next]_vars, NEW m \in Node,
         phase[m] = "leaving", phase'[m] # "leaving"
  PROVE  FrontGone(m)
<1> USE DEF store, process
<1>1. ASSUME NEW n \in Node, FrontGone(n) PROVE FrontGone(m)
  BY <1>1 DEF FrontGone, TypeOK
<1>2. ASSUME UNCHANGED phase PROVE FALSE
  BY <1>2
<1>3. ASSUME NEW n \in Node, NodeStep(n) PROVE FrontGone(m)
  BY <1>1, <1>2, <1>3 DEF NodeStep, Join, Leave, Left, Killed, WorkersExit, ExpireRow,
                          Running, TypeOK
<1>4. ASSUME NEW n \in Node, NEW c \in Conn, Learn(n, c) PROVE FALSE
  BY <1>4 DEF Learn, TypeOK
<1>5. ASSUME NEW n \in Node, NEW c \in Conn, Sends(n, c) PROVE FALSE
  BY <1>5, <1>2, <1>4 DEF Sends, AttemptService, AskRole, Beat, Begin, BeginWithLease
<1>6. ASSUME NEW n \in Node, NEW c \in Conn, Proceeds(n, c) PROVE FrontGone(m)
  <2>1. ASSUME BeatAnswered(n, c) PROVE FrontGone(m)
    BY <2>1, <1>1, <1>2 DEF BeatAnswered
  <2>2. ASSUME Fenced(n, c) PROVE FrontGone(m)
    BY <2>2, <1>1, <1>2 DEF Fenced
  <2> QED BY <1>6, <2>1, <2>2, <1>2, <1>4 DEF Proceeds, AskEvaluated, AskTaken,
             AskAnswered, BeatExecuted, FencePassed, Commit
<1>7. ASSUME NEW n \in Node, NEW c \in Conn, Fails(n, c) PROVE FrontGone(m)
  BY <1>7, <1>1, <1>2 DEF Fails, AskLost, BeatLost, Rollback
<1>8. ASSUME NEW l \in Lease, ExpireLease(l) PROVE FALSE
  BY <1>8, <1>2 DEF ExpireLease
<1> QED BY <1>2, <1>3, <1>5, <1>6, <1>7, <1>8 DEF Next, Works, Stopped, vars

LEMMA ServiceFencedStep ==
  ASSUME ClusterAssumption, TypeOK, WInv, [Next]_vars
  PROVE  ServiceFenced'
<1> USE DEF store, process
<1> SUFFICES ASSUME Passive, NEW m \in Node, NEW d \in Conn,
                    conn'[m][d].op \in Open, phase'[m] # "leaving"
             PROVE  conn'[m][d].tok[Service] > 0
  BY DEF ServiceFenced, Passive, Open
<1>1. CASE Begin(m, d) \/ BeginWithLease(m, d)
  <2>1. phase[m] = "serving" /\ d \in FrontConn => held[m][Service] > 0
    BY DEF WInv, ServedUnderLease
  <2>2. \/ d \in WorkerConn /\ workers[m]
        \/ d \notin WorkerConn /\ phase[m] = "serving" /\ d \in FrontConn
    <3>1. CASE Begin(m, d)
      BY <3>1 DEF Begin, ClusterAssumption
    <3>2. CASE BeginWithLease(m, d)
      <4>1. conn[m][d].op = "told" /\ phase[m] = "serving"
        BY <3>2 DEF BeginWithLease
      <4>2. d \notin WorkerConn
        BY <4>1 DEF WInv, WorkersOnlyWrite
      <4> QED BY <4>1, <4>2 DEF Conn
    <3> QED BY <1>1, <3>1, <3>2
  <2>3. ServiceToken(m, d) > 0
    BY <2>1, <2>2 DEF ServiceToken, WInv, ServedUnderLease
  <2>4. conn[m][d].op \notin Open
    BY <1>1 DEF Begin, BeginWithLease, Idle, Open
  <2> QED BY <2>3, <2>4, OpenStep
<1>2. CASE conn[m][d].op \in Open /\ conn'[m][d].tok = conn[m][d].tok
  <2>1. CASE phase[m] # "leaving"
    BY <1>2, <2>1 DEF WInv, ServiceFenced, Open
  <2>2. CASE phase[m] = "leaving"
    <3>1. d \in FrontConn
      BY <1>2, <2>2 DEF WInv, WorkersOnlyWrite, WorkersOfRunning, Conn, Open
    <3>2. FrontGone(m)
      BY <2>2, LeavingEnds
    <3> QED BY <3>1, <3>2, FrontGoneAt DEF Idle, Open
  <2> QED BY <2>1, <2>2
<1> QED BY <1>1, <1>2, OpenStep

LEMMA WritersStep == ASSUME ClusterAssumption, TypeOK, WInv, [Next]_vars PROVE WInv'
BY WorkersOnlyWriteStep, WorkersOfRunningStep, ServedUnderLeaseStep, ServiceFencedStep
   DEF WInv

LEMMA WritersInit == ASSUME ClusterAssumption, Init PROVE WInv
BY DEF Init, WInv, WorkersOnlyWrite, WorkersOfRunning, ServedUnderLease, ServiceFenced,
       Idle, Conn

-----------------------------------------------------------------------------
(* In active-passive mode no transaction of a serving node, its workers or *)
(* a standby is open without the service lease in its fence.               *)
THEOREM ServiceFencedAlways == Spec => []ServiceFenced
<1>1. ASSUME TypeOK, WInv, [Next]_vars PROVE WInv'
  BY <1>1, WritersStep, ClusterAssumption
<1> QED BY <1>1, WritersInit, TypeCorrect, ClusterAssumption, PTL DEF Spec, WInv

LEMMA OneWriterFollows == ASSUME FenceHolds, ServiceFenced, ClusterAssumption PROVE OneWriter
<1> SUFFICES ASSUME Passive, NEW n \in Node, NEW m \in Node, CanCommit(n), CanCommit(m),
                    phase[n] # "leaving", phase[m] # "leaving"
             PROVE  n = m
  BY DEF OneWriter
<1>1. PICK c \in Conn : conn[n][c].op = "checked"
  BY DEF CanCommit
<1>2. PICK d \in Conn : conn[m][d].op = "checked"
  BY DEF CanCommit
<1>3. conn[n][c].tok[Service] > 0 /\ conn[m][d].tok[Service] > 0 /\ Service \in Lease
  BY <1>1, <1>2 DEF ServiceFenced, ClusterAssumption
<1>4. lease[Service].holder = n /\ lease[Service].holder = m
  BY <1>1, <1>2, <1>3 DEF FenceHolds
<1> QED BY <1>4

(* Of any number of nodes that believe themselves active, at most one has  *)
(* a transaction that can commit, shutdowns apart.                         *)
THEOREM OneWriterCorrect == Spec => []OneWriter
BY ServiceFencedAlways, FenceCorrect, OneWriterFollows, ClusterAssumption, PTL
=============================================================================
