------------------------------ MODULE Cluster ------------------------------
(***************************************************************************)
(* Membership, leases and the fence: cluster/cluster.js and the statements *)
(* of persistence/persistence_postgres.js it decides with.                 *)
(*                                                                         *)
(* A node is one container start (its id is a fresh UUID), so a node that  *)
(* exits never comes back.  Every statement of a node travels over one of  *)
(* its pooled connections and is modelled in its stages: sent, executed by *)
(* the database, answered.  Answers of different connections reach the     *)
(* process in any order, and an answer may never arrive.                   *)
(*                                                                         *)
(* Times are abstract: "expires_at > clock_timestamp()" is the flag live / *)
(* the row value "live", and the clock passing an expiry is the action     *)
(* ExpireRow or ExpireLease.  A row can expire at any moment (its node was *)
(* stalled).  A lease outlives its holder's row, being granted after the   *)
(* row was renewed and renewed with it - unless its expiry was computed    *)
(* before the row's last renewal, which is what the flag early says: an    *)
(* acquireLease that waited for the row's lock across a heartbeat.         *)
(***************************************************************************)
EXTENDS Naturals, Sequences

CONSTANTS Node,        \* container starts
          Lease,       \* lease names
          Service,     \* 'service', the lease active-passive mode is about
          Role,        \* leases led through lead(): campaigned for while serving
          EarlyRole,   \* those registered at require time: campaigned for by a standby too
          FrontConn,   \* pooled connections of a front process
          WorkerConn,  \* pooled connections of a node's request workers
          Mode,        \* "active-passive" or "active-active"
          MaxToken     \* bound: no lease is granted more often than this

ASSUME ClusterAssumption ==
  /\ Service \in Lease
  /\ Role \subseteq Lease \ {Service}
  /\ EarlyRole \subseteq Role
  /\ FrontConn \cap WorkerConn = {}
  /\ Mode \in {"active-passive", "active-active"}
  /\ MaxToken \in Nat

VARIABLES
  row,        \* sts_cluster_nodes: [Node -> {"none", "live", "gone"}]
  lease,      \* sts_cluster_leases: [Lease -> [holder, token, live, early]]; token 0: no row
  phase,      \* the front process of each node
  deposed,    \* whether it exited because it had lost the service lease (0006)
  held,       \* cluster.js's held map: [Node -> [Lease -> token]]; 0: absent
  workers,    \* whether the node's request workers run
  inherited,  \* the service token they were forked with
  conn,       \* [Node -> [connection -> the statement or transaction on it]]
  tenure,     \* history: the nodes granted each lease, in order
  written     \* history: the token of the last commit guarded by each lease

store == <<row, lease, tenure>>
process == <<phase, deposed, held>>
vars == <<row, lease, phase, deposed, held, workers, inherited, conn, tenure, written>>

Conn == FrontConn \cup WorkerConn
NoTokens == [l \in Lease |-> 0]
Idle == [op |-> "idle", name |-> Service, alive |-> FALSE, tok |-> NoTokens]
Passive == Mode = "active-passive"
RunningStandby(n) == phase[n] = "standby"   \* mutant: no heartbeat once it serves
Running(n) == phase[n] \in {"standby", "serving"}

Ops == {"idle", "ask", "take", "told", "beat", "beaten", "begun", "checked"}
Statement == [op : Ops, name : Lease, alive : BOOLEAN, tok : [Lease -> Nat]]
LeaseRecord == [holder : Node, token : Nat, live : BOOLEAN, early : BOOLEAN]
Phase == {"off", "standby", "serving", "parting", "leaving", "stopped"}

TypeOK ==
  /\ row \in [Node -> {"none", "live", "gone"}]
  /\ lease \in [Lease -> LeaseRecord]
  /\ phase \in [Node -> Phase]
  /\ deposed \in [Node -> BOOLEAN]
  /\ held \in [Node -> [Lease -> Nat]]
  /\ workers \in [Node -> BOOLEAN]
  /\ inherited \in [Node -> Nat]
  /\ conn \in [Node -> [Conn -> Statement]]
  /\ tenure \in [Lease -> Seq(Node)]
  /\ written \in [Lease -> Nat]

Init ==
  /\ row = [n \in Node |-> "none"]
  /\ lease \in [Lease -> [holder : Node, token : {0}, live : {FALSE}, early : {FALSE}]]
  /\ phase = [n \in Node |-> "off"]
  /\ deposed = [n \in Node |-> FALSE]
  /\ held = [n \in Node |-> NoTokens]
  /\ workers = [n \in Node |-> FALSE]
  /\ inherited = [n \in Node |-> 0]
  /\ conn = [n \in Node |-> [c \in Conn |-> Idle]]
  /\ tenure = [l \in Lease |-> <<>>]
  /\ written = [l \in Lease |-> 0]

-----------------------------------------------------------------------------
(* Helpers.                                                                *)

Set(n, c, what) == conn' = [conn EXCEPT ![n][c] = what]

(* FOR SHARE, held from the fence check to the end of the transaction. *)
ShareLockedNot(l) == FALSE      \* mutant: a plain SELECT in checkFence
ShareLocked(l) == \E m \in Node, c \in Conn : /\ conn[m][c].op = "checked"
                                              /\ conn[m][c].tok[l] > 0

HoldsRow(n, l) == lease[l].holder = n /\ lease[l].live /\ lease[l].token > 0

(* acquireLease's WHERE and CASE: a lease that has expired may be taken,   *)
(* and a new tenure gets the next token.                                   *)
FreeOnce(l) == lease[l].token = 0                  \* mutant: no ON CONFLICT branch
Free(l) == ~lease[l].live

SameToken(l) == IF lease[l].token = 0 THEN 1 ELSE lease[l].token   \* mutant: no bump
NextToken(l) == lease[l].token + 1

(* leaveCluster's effect on a lease row. *)
GivenBack(r) == [r EXCEPT !.live = FALSE, !.token = @ - 1]   \* mutant: the token too
Deleted(r) == [r EXCEPT !.live = FALSE, !.token = 0]   \* mutant: DELETE
ExpiredNow(r) == [r EXCEPT !.live = FALSE]

(* process.exit(): the front process's memory and connections go with it. *)
FrontGone(n) ==
  /\ phase' = [phase EXCEPT ![n] = "stopped"]
  /\ held' = [held EXCEPT ![n] = NoTokens]
  /\ conn' = [conn EXCEPT ![n] = [c \in Conn |-> IF c \in FrontConn THEN Idle
                                                 ELSE conn[n][c]]]

WorkersGone(n) ==
  /\ workers' = [workers EXCEPT ![n] = FALSE]
  /\ inherited' = [inherited EXCEPT ![n] = 0]
  /\ conn' = [conn EXCEPT ![n] = [c \in Conn |-> IF c \in WorkerConn THEN Idle
                                                 ELSE conn[n][c]]]

-----------------------------------------------------------------------------
(* Joining.                                                                *)

(* gate() and join(): the row is written; an active-passive node then      *)
(* waits for the service lease, an active-active one goes on to serve.     *)
Join(n) ==
  /\ phase[n] = "off"
  /\ row' = [row EXCEPT ![n] = "live"]
  /\ phase' = [phase EXCEPT ![n] = IF Passive THEN "standby" ELSE "serving"]
  /\ workers' = [workers EXCEPT ![n] = ~Passive]
  /\ UNCHANGED <<lease, deposed, held, inherited, conn, tenure, written>>

-----------------------------------------------------------------------------
(* Asking for a lease: acquire() and acquireLease.                         *)

(* A standby's attempt() loop has one request in the air at a time. *)
AttemptService(n, c) ==
  /\ phase[n] = "standby"
  /\ c \in FrontConn
  /\ conn[n][c] = Idle
  /\ \A d \in FrontConn : ~ (conn[n][d].op \in {"ask", "take", "told"}
                             /\ conn[n][d].name = Service)
  /\ Set(n, c, [Idle EXCEPT !.op = "ask"])
  /\ UNCHANGED <<store, process, workers, inherited, written>>

(* campaign() from a heartbeat, lead() and withLease(), which asks whether *)
(* or not the lease is held.                                               *)
AskRole(n, c, l) ==
  /\ \/ phase[n] = "serving" /\ l \in Role
     \/ phase[n] = "standby" /\ l \in EarlyRole
  /\ c \in FrontConn
  /\ conn[n][c] = Idle
  /\ Set(n, c, [Idle EXCEPT !.op = "ask", !.name = l])
  /\ UNCHANGED <<store, process, workers, inherited, written>>

(* The INSERT's SELECT: is the node's own row live?  Evaluated once, before *)
(* the conflicting lease row is locked.                                    *)
AskEvaluated(n, c) ==
  /\ conn[n][c].op = "ask"
  /\ Set(n, c, [conn[n][c] EXCEPT !.op = IF row[n] = "live" THEN "take" ELSE "told",
                                  !.alive = row[n] = "live"])
  /\ UNCHANGED <<store, process, workers, inherited, written>>

(* ON CONFLICT DO UPDATE ... WHERE, under the lease row's lock: taken when *)
(* expired or already this node's; a live tenure of this node keeps its    *)
(* token, any other gets the next one.                                     *)
AskTaken(n, c) ==
  LET l == conn[n][c].name
      told == [conn[n][c] EXCEPT !.op = "told", !.alive = FALSE]
      early == ~conn[n][c].alive   \* a heartbeat renewed the row since
  IN /\ conn[n][c].op = "take"
     /\ ~ShareLocked(l)
     /\ \/ /\ HoldsRow(n, l)
           /\ lease' = [lease EXCEPT ![l].early = early]
           /\ Set(n, c, [told EXCEPT !.tok[l] = lease[l].token])
           /\ UNCHANGED tenure
        \/ /\ Free(l)
           /\ lease[l].token < MaxToken
           /\ lease' = [lease EXCEPT ![l] = [holder |-> n, token |-> NextToken(l),
                                             live |-> TRUE, early |-> early]]
           /\ tenure' = [tenure EXCEPT ![l] = Append(@, n)]
           /\ Set(n, c, [told EXCEPT !.tok[l] = NextToken(l)])
        \/ /\ ~HoldsRow(n, l)
           /\ Free(l) => lease[l].token = MaxToken   \* the bound
           /\ Set(n, c, told)
           /\ UNCHANGED <<lease, tenure>>
     /\ UNCHANGED <<row, process, workers, inherited, written>>

(* acquire()'s answer: a held lease is remembered at the answered token.   *)
(* The service lease ends a standby's wait; the workers it then forks      *)
(* inherit the token.                                                      *)
Learn(n, c) ==
  LET l == conn[n][c].name
      t == conn[n][c].tok[l]
      active == t > 0 /\ l = Service /\ phase[n] = "standby"
  IN /\ held' = IF t > 0 THEN [held EXCEPT ![n][l] = t] ELSE held
     /\ phase' = IF active THEN [phase EXCEPT ![n] = "serving"] ELSE phase
     /\ workers' = IF active THEN [workers EXCEPT ![n] = TRUE] ELSE workers
     /\ inherited' = IF active THEN [inherited EXCEPT ![n] = t] ELSE inherited

AskAnswered(n, c) ==
  /\ conn[n][c].op = "told"
  /\ Learn(n, c)
  /\ Set(n, c, Idle)
  /\ UNCHANGED <<store, deposed, written>>

(* The statement fails, before or after the database executed it. *)
AskLost(n, c) ==
  /\ conn[n][c].op \in {"ask", "take", "told"}
  /\ Set(n, c, Idle)
  /\ UNCHANGED <<store, process, workers, inherited, written>>

-----------------------------------------------------------------------------
(* The heartbeat: beat() and heartbeat.                                    *)

(* Armed again only when the previous one has finished. *)
Beat(n, c) ==
  /\ Running(n)
  /\ c \in FrontConn
  /\ conn[n][c] = Idle
  /\ \A d \in FrontConn : conn[n][d].op \notin {"beat", "beaten"}
  /\ Set(n, c, [Idle EXCEPT !.op = "beat"])
  /\ UNCHANGED <<store, process, workers, inherited, written>>

(* One statement renews the row if it is live and has not been left, and   *)
(* with it every live lease of this holder.  A lease row's UPDATE waits    *)
(* for the share locks on it, this node's own transactions' included.      *)
BeatExecuted(n, c) ==
  LET renewed == {l \in Lease : HoldsRow(n, l)}
  IN /\ conn[n][c].op = "beat"
     /\ \/ /\ row[n] = "live"
           /\ \A l \in renewed : ~ShareLocked(l)
           /\ lease' = [l \in Lease |-> IF l \in renewed
                                         THEN [lease[l] EXCEPT !.early = FALSE]
                                         ELSE lease[l]]
           /\ conn' = [conn EXCEPT ![n] = [d \in Conn |->
                IF d = c
                THEN [Idle EXCEPT !.op = "beaten", !.alive = TRUE,
                        !.tok = [l \in Lease |-> IF l \in renewed
                                                 THEN lease[l].token ELSE 0]]
                ELSE IF conn[n][d].op = "take"
                THEN [conn[n][d] EXCEPT !.alive = FALSE]
                ELSE conn[n][d]]]
        \/ /\ row[n] # "live"
           /\ Set(n, c, [Idle EXCEPT !.op = "beaten"])
           /\ UNCHANGED lease
     /\ UNCHANGED <<row, tenure, process, workers, inherited, written>>

(* The leases this node believes it holds and the answer does not renew. *)
LostIn(n, b) == {l \in Lease : held[n][l] > 0 /\ b.tok[l] # held[n][l]}

DeposesNever(n, lost) == FALSE                      \* mutant: dropped as a role is
Deposes(n, lost) == Passive /\ Service \in lost /\ Running(n)

(* The answer: not alive, or the service lease missing from it, is an      *)
(* exit; any other lease not renewed at the held token is let go.          *)
BeatAnswered(n, c) ==
  LET b == conn[n][c]
      lost == LostIn(n, b)
  IN /\ b.op = "beaten"
     /\ \/ /\ ~b.alive /\ Running(n)
           /\ FrontGone(n)
           /\ UNCHANGED deposed
        \/ /\ b.alive /\ Deposes(n, lost)
           /\ FrontGone(n)
           /\ deposed' = [deposed EXCEPT ![n] = TRUE]
        \/ /\ b.alive /\ ~Deposes(n, lost)
           /\ held' = [held EXCEPT ![n] = [l \in Lease |-> IF l \in lost THEN 0
                                                           ELSE held[n][l]]]
           /\ Set(n, c, Idle)
           /\ UNCHANGED <<phase, deposed>>
        \/ /\ ~b.alive /\ ~Running(n)
           /\ Set(n, c, Idle)
           /\ UNCHANGED process
     /\ UNCHANGED <<store, workers, inherited, written>>

(* The heartbeat fails: retried at the next beat, or an exit once the row  *)
(* has gone unrenewed for a lifetime less one beat.                        *)
BeatLost(n, c) ==
  /\ conn[n][c].op \in {"beat", "beaten"}
  /\ \/ /\ Set(n, c, Idle)
        /\ UNCHANGED <<phase, held>>
     \/ /\ Running(n)
        /\ FrontGone(n)
  /\ UNCHANGED <<store, deposed, workers, inherited, written>>

-----------------------------------------------------------------------------
(* Fenced transactions: fenceFor(), checkFence(), withTransaction() and    *)
(* whenFenced().                                                           *)

ServiceTokenOfFront(n, c) == IF Passive THEN held[n][Service] ELSE 0
                             \* mutant: attach() does not set the inherited token
ServiceToken(n, c) ==
  IF ~Passive THEN 0 ELSE IF c \in WorkerConn THEN inherited[n] ELSE held[n][Service]

(* BEGIN in a serving process: the fence is read from its own memory. *)
Begin(n, c) ==
  /\ \/ c \in FrontConn /\ phase[n] \in {"serving", "leaving"}
     \/ c \in WorkerConn /\ workers[n]
  /\ conn[n][c] = Idle
  /\ Set(n, c, [Idle EXCEPT !.op = "begun",
                            !.tok = [NoTokens EXCEPT ![Service] = ServiceToken(n, c)]])
  /\ UNCHANGED <<store, process, workers, inherited, written>>

(* withLease(): the lease was granted, and the transaction fn opens is     *)
(* fenced by the token of that answer besides the node's own fence.        *)
BeginWithLease(n, c) ==
  LET l == conn[n][c].name
  IN /\ conn[n][c].op = "told"
     /\ phase[n] = "serving"
     /\ l # Service
     /\ conn[n][c].tok[l] > 0
     /\ Learn(n, c)
     /\ Set(n, c, [Idle EXCEPT !.op = "begun",
          !.tok = [NoTokens EXCEPT ![l] = conn[n][c].tok[l],
                                   ![Service] = ServiceToken(n, c)]])
     /\ UNCHANGED <<store, deposed, written>>

(* The leases of the fence that this node no longer has at that token. *)
Lost(n, c) == {l \in Lease : /\ conn[n][c].tok[l] > 0
                             /\ ~ (HoldsRow(n, l) /\ lease[l].token = conn[n][c].tok[l])}

(* Membership by a plain SELECT, then the leases FOR SHARE. *)
FencePassed(n, c) ==
  /\ conn[n][c].op = "begun"
  /\ row[n] = "live"
  /\ Lost(n, c) = {}
  /\ Set(n, c, [conn[n][c] EXCEPT !.op = "checked"])
  /\ UNCHANGED <<store, process, workers, inherited, written>>

(* Rolled back.  A lease other than the service one is only let go of; the *)
(* membership or the service lease gone is an exit of the process that     *)
(* wrote, the front process or a worker.                                   *)
Fenced(n, c) ==
  LET fatal == row[n] # "live" \/ Service \in Lost(n, c)
  IN /\ conn[n][c].op = "begun"
     /\ row[n] # "live" \/ Lost(n, c) # {}
     /\ \/ /\ fatal /\ c \in FrontConn /\ phase[n] # "leaving"
           /\ FrontGone(n)
           /\ UNCHANGED <<workers, inherited>>
        \/ /\ fatal /\ c \in WorkerConn
           /\ WorkersGone(n)
           /\ UNCHANGED <<phase, held>>
        \/ /\ ~fatal
           /\ held' = [held EXCEPT ![n] = [l \in Lease |->
                         IF l \in Lost(n, c) /\ held[n][l] = conn[n][c].tok[l]
                         THEN 0 ELSE held[n][l]]]
           /\ Set(n, c, Idle)
           /\ UNCHANGED <<phase, workers, inherited>>
        \/ /\ fatal /\ c \in FrontConn /\ phase[n] = "leaving"
           /\ Set(n, c, Idle)
           /\ UNCHANGED <<phase, held, workers, inherited>>
     /\ UNCHANGED <<store, deposed, written>>

Commit(n, c) ==
  /\ conn[n][c].op = "checked"
  /\ written' = [l \in Lease |-> IF conn[n][c].tok[l] > 0 THEN conn[n][c].tok[l]
                                                         ELSE written[l]]
  /\ Set(n, c, Idle)
  /\ UNCHANGED <<store, process, workers, inherited>>

Rollback(n, c) ==
  /\ conn[n][c].op \in {"begun", "checked"}
  /\ Set(n, c, Idle)
  /\ UNCHANGED <<store, process, workers, inherited, written>>

-----------------------------------------------------------------------------
(* Leaving, dying, and the database clock.                                 *)

(* A shutdown: the request workers are drained, then leave() stops the     *)
(* heartbeat.  A node that served still answers requests ("leaving"); a    *)
(* standby never did ("parting").                                          *)
Leave(n) ==
  /\ Running(n)
  /\ phase' = [phase EXCEPT ![n] = IF @ = "serving" THEN "leaving" ELSE "parting"]
  /\ WorkersGone(n)
  /\ UNCHANGED <<store, deposed, held, written>>

(* leaveCluster: the row is left and the node's leases expire now; if the  *)
(* statement fails they expire on their own.  The process then exits.      *)
Left(n) ==
  LET mine == {l \in Lease : lease[l].holder = n}
  IN /\ phase[n] \in {"leaving", "parting"}
     /\ \/ /\ \A l \in mine : ~ShareLocked(l)
           /\ row' = [row EXCEPT ![n] = "gone"]
           /\ lease' = [l \in Lease |-> IF l \in mine THEN ExpiredNow(lease[l])
                                                      ELSE lease[l]]
        \/ UNCHANGED <<row, lease>>
     /\ FrontGone(n)
     /\ UNCHANGED <<tenure, deposed, workers, inherited, written>>

(* kill -9, a host lost: nothing of the process is said to the database.   *)
Killed(n) ==
  /\ phase[n] \notin {"off", "stopped"}
  /\ FrontGone(n)
  /\ UNCHANGED <<store, deposed, workers, inherited, written>>

(* A worker exits when its channel to the front process closes. *)
WorkersExit(n) ==
  /\ workers[n]
  /\ phase[n] = "stopped"
  /\ WorkersGone(n)
  /\ UNCHANGED <<store, process, written>>

ExpireRow(n) ==
  /\ row[n] = "live"
  /\ row' = [row EXCEPT ![n] = "gone"]
  /\ UNCHANGED <<lease, process, workers, inherited, conn, tenure, written>>

ExpireLease(l) ==
  /\ lease[l].live
  /\ row[lease[l].holder] # "live" \/ lease[l].early
  /\ lease' = [lease EXCEPT ![l].live = FALSE]
  /\ UNCHANGED <<row, process, workers, inherited, conn, tenure, written>>

-----------------------------------------------------------------------------
NodeStep(n) == Join(n) \/ Leave(n) \/ Left(n) \/ Killed(n) \/ WorkersExit(n) \/ ExpireRow(n)

Sends(n, c) == \/ AttemptService(n, c) \/ (\E l \in Lease : AskRole(n, c, l))
               \/ Beat(n, c) \/ Begin(n, c) \/ BeginWithLease(n, c)

Proceeds(n, c) ==
  \/ AskEvaluated(n, c) \/ AskTaken(n, c) \/ AskAnswered(n, c)
  \/ BeatExecuted(n, c) \/ BeatAnswered(n, c)
  \/ FencePassed(n, c) \/ Fenced(n, c) \/ Commit(n, c)

Fails(n, c) == AskLost(n, c) \/ BeatLost(n, c) \/ Rollback(n, c)

(* Every container has stopped: nothing is left to happen but the clock. *)
Stopped == /\ \A n \in Node : phase[n] = "stopped" /\ ~workers[n]
           /\ UNCHANGED vars

Works == \/ Stopped
         \/ \E n \in Node : \/ NodeStep(n)
                           \/ \E c \in Conn : Sends(n, c) \/ Proceeds(n, c)
         \/ \E l \in Lease : ExpireLease(l)

Next == Works \/ \E n \in Node, c \in Conn : Fails(n, c)

Spec == Init /\ [][Next]_vars

-----------------------------------------------------------------------------
(* Properties.                                                             *)

(* The refinement: the tenures are the grants of the lease rows and the   *)
(* last guarded commit is the highest token written under each lease.      *)
Fence == INSTANCE FencedLease WITH granted <- tenure, committed <- written

(* Every token of a lease was handed to one node, and whatever a node      *)
(* knows of a lease - its held map, what its workers inherited, an answer  *)
(* in flight, the fence of an open transaction - names one of its own      *)
(* tenures, however late the answer and however stale the memory           *)
(* (acquireLease's token arithmetic, cluster.js's held).                   *)
Granted(l, t, n) == t = 0 \/ (t \in 1..Len(tenure[l]) /\ tenure[l][t] = n)

KnownTokens ==
  /\ \A n \in Node, l \in Lease : Granted(l, held[n][l], n)
  /\ \A n \in Node : Granted(Service, inherited[n], n)
  /\ \A n \in Node, c \in Conn, l \in Lease : Granted(l, conn[n][c].tok[l], n)

(* The lease row is the latest tenure: a takeover never reuses a token,    *)
(* and leaving or expiring does not reset it (leaveCluster: "expired and   *)
(* not deleted, so a lease's token keeps counting up").                    *)
LeaseRow == \A l \in Lease :
  /\ lease[l].token = Len(tenure[l])
  /\ lease[l].token > 0 => lease[l].holder = tenure[l][lease[l].token]
  /\ lease[l].live => lease[l].token > 0

(* The fence, between the check and the commit: no lease a transaction was *)
(* checked against can be taken over while it is open (checkFence's FOR    *)
(* SHARE).                                                                 *)
FenceHolds == \A n \in Node, c \in Conn, l \in Lease :
  conn[n][c].op = "checked" /\ conn[n][c].tok[l] > 0
    => /\ lease[l].holder = n
       /\ lease[l].token = conn[n][c].tok[l]

(* Active-passive mode has one writer: of two nodes, however long each has *)
(* believed itself active, at most one has a transaction that can commit.  *)
CanCommit(n) == \E c \in Conn : conn[n][c].op = "checked"

OneWriter == Passive =>
  \A n, m \in Node : CanCommit(n) /\ CanCommit(m) => n = m \/ phase[n] = "leaving"
                                                         \/ phase[m] = "leaving"

(* The same with a node that is shutting down counted: "Every write is     *)
(* fenced, and a node that has lost its right to write exits."             *)
OneWriterAlways == Passive =>
  \A n, m \in Node : CanCommit(n) /\ CanCommit(m) => n = m

(* In active-passive mode every transaction of a serving node or its       *)
(* workers carries the service lease in its fence: there is no moment at   *)
(* which a node serves on with the token already dropped (beat, whenFenced,*)
(* attach).                                                                *)
ServiceFenced == Passive =>
  \A n \in Node, c \in Conn :
    conn[n][c].op \in {"begun", "checked"} /\ phase[n] # "leaving"
      => conn[n][c].tok[Service] > 0

(* Commits under one lease come in the order of its tenures: a deposed     *)
(* holder's late transaction never lands after its successor's.            *)
CommitOrder == [][\A l \in Lease : written'[l] >= written[l]]_vars

(* Every run of the cluster is a run of the abstract fenced lease.         *)
FencedLeaseSpec == Fence!Spec

(* STS-CLUSTER-0006: "This node lost a lease that its role depends on ...  *)
(* and exits."  A node that exits for it no longer has the service lease.  *)
ExitsOnlyDeposed == [][\A n \in Node : deposed'[n] /\ ~deposed[n]
   => ~ (HoldsRow(n, Service) /\ lease[Service].token = held[n][Service])]_vars

-----------------------------------------------------------------------------
(* Fairness.  The event loop runs its timers (attempt, beat and its        *)
(* campaign) and the pool serves its waiters in order, so a statement      *)
(* wanted again and again is sent; the database executes what it is sent;  *)
(* a shutdown completes; and the clock passes every expiry nobody renews.  *)
(* Liveness is about the runs in which every statement is answered, late   *)
(* or out of order; containers are still killed and still stall.           *)
ExpireAbandoned(n) == ~Running(n) /\ ExpireRow(n)

CleanUp == \E n \in Node : Left(n) \/ WorkersExit(n) \/ ExpireAbandoned(n)

Campaign(n, l) == held[n][l] = 0 /\ \E c \in FrontConn : AskRole(n, c, l)

Fairness ==
  /\ \A n \in Node :
       /\ SF_vars(\E c \in FrontConn : AttemptService(n, c))
       /\ SF_vars(\E c \in FrontConn : Beat(n, c))
       /\ \A l \in Role : SF_vars(Campaign(n, l))
       /\ WF_vars(\E c \in Conn : Proceeds(n, c))
  /\ WF_vars(CleanUp)
  /\ \A l \in Lease : WF_vars(ExpireLease(l))

FairSpec == Init /\ [][Works]_vars /\ Fairness

(* A standby does not wait for ever behind a node that is gone: either a   *)
(* node that the store names as holder serves, or no standby is left.      *)
(* (Every takeover costs a token, and the instance has MaxToken of them.)  *)
Takeover ==
  (\E n \in Node : phase[n] = "standby")
    ~> \/ \E n \in Node : phase[n] = "serving" /\ HoldsRow(n, Service)
       \/ \A n \in Node : phase[n] # "standby"
       \/ lease[Service].token = MaxToken

(* A node that serves on in the belief that it holds a lease it has been   *)
(* deposed from (holds() answers from its own memory) is told so.          *)
Deposed(n, l) == held[n][l] > 0 /\ held[n][l] < lease[l].token

DeposedLearns == \A n \in Node, l \in Lease : Deposed(n, l) ~> ~Deposed(n, l)

(* A role does not stay unled while a node serves, however late and stale  *)
(* the answers to its heartbeats are.                                      *)
RoleLed == \A l \in Role, n \in Node :
  phase[n] = "serving"
    ~> \/ \E m \in Node : held[m][l] > 0 /\ held[m][l] = lease[l].token
       \/ phase[n] # "serving"
       \/ lease[l].token = MaxToken
=============================================================================
