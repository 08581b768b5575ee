----------------------------- MODULE StoreLocks ----------------------------
(***************************************************************************)
(* The locks that the transactions and statements of the postgres driver   *)
(* take, in the order they take them, and who waits for whom.              *)
(*                                                                         *)
(* A flush is a transaction: the fence takes the lease row shared, then    *)
(* every row written is locked until the end - by an UPDATE, by a SELECT   *)
(* ... FOR UPDATE, or by an INSERT, on whose key another INSERT waits.     *)
(* A heartbeat is one statement: the node's row, then its lease.  Postgres *)
(* breaks a circle of waiting transactions by failing one of them; the     *)
(* driver's lock orders are there for none to arise.                       *)
(*                                                                         *)
(* Rows are only ever added here: a row that goes away is, to whoever      *)
(* locks rows, a row that was not there.                                   *)
(***************************************************************************)
EXTENDS Naturals, Sequences

CONSTANTS Holder,   \* nodes, each with one transaction of its store and one
                    \* statement of its membership under way at most
          Key,      \* primary keys of the rows of the table flushed
          Kinds     \* the transactions that happen

ASSUME LocksConstants ==
  /\ Key \subseteq Nat
  /\ Kinds \subseteq {"minted", "change", "create", "agree",
                      "heartbeat", "acquire", "join"}

VARIABLES kept,   \* the directory's rows whose insertion has committed
          tx      \* tx[t]: the transaction in the slot t

lockvars == <<kept, tx>>

Slots == Holder \X {"store", "membership"}

Resources == ({"minted", "entry"} \X Key) \cup ({"node"} \X Holder)
               \cup {<<"lease", "service">>, <<"join", "lock">>}

NoTx == [kind |-> "none", path |-> <<>>, left |-> {}, fresh |-> {},
         owns |-> {}, shares |-> FALSE]

LocksTypeOK ==
  /\ kept \subseteq Key
  /\ \A t \in Slots :
       /\ tx[t].kind \in Kinds \cup {"none"}
       /\ tx[t].left \subseteq Key /\ tx[t].fresh \subseteq Key
       /\ tx[t].owns \subseteq Resources
       /\ tx[t].shares \in BOOLEAN

LocksInit == kept \in SUBSET Key /\ tx = [t \in Slots |-> NoTx]

-----------------------------------------------------------------------------
(* The order of the locks of each kind.                                    *)

(* saveMinted: the fence, then every row in one order.  saveDirectory: the *)
(* fence, one SELECT ... FOR UPDATE of the rows there are, then the        *)
(* insertions of the others.  agreeFingerprint and joinCluster: the        *)
(* advisory lock, then the node's row.  heartbeat and leaveCluster: the    *)
(* node's row, then the lease.  acquireLease: the lease, whoever holds it. *)
Directory == <<"fence", "select", "rows", "insert">>

Path == [minted |-> <<"fence", "rows">>,
         change |-> Directory, create |-> Directory,
         agree |-> <<"fence", "join", "node">>,
         join |-> <<"join", "node">>,
         heartbeat |-> <<"node", "lease">>,
         acquire |-> <<"lease">>]

NextUnsorted(t, rows) ==               \* mutant: an order of each process's own
  LET one == CHOOSE m \in Holder : TRUE
  IN  {r \in rows : \A s \in rows : IF t[1] = one THEN s <= r ELSE r <= s}

(* saveMinted sorts its statements by primary key, the SELECT of           *)
(* saveDirectory orders by it, and its insertions are sorted by it.        *)
NextOf(t, rows) == {r \in rows : \A s \in rows : r <= s}

Stage(t) == IF tx[t].path = <<>> THEN "locked" ELSE Head(tx[t].path)
Table(t) == IF tx[t].kind = "minted" THEN "minted" ELSE "entry"

(* The resource t needs next, if there is one.                             *)
Asks(t) ==
  CASE Stage(t) \in {"fence", "lease"} -> {<<"lease", "service">>}
    [] Stage(t) = "join" -> {<<"join", "lock">>}
    [] Stage(t) = "node" -> {<<"node", t[1]>>}
    [] Stage(t) = "rows" -> {Table(t)} \X NextOf(t, tx[t].left)
    [] Stage(t) = "insert" -> {Table(t)} \X NextOf(t, tx[t].fresh)
    [] OTHER -> {}

(* Shared locks of the lease are compatible with one another.              *)
WaitsFor(t, u) ==
  /\ t # u
  /\ \/ Asks(t) \cap tx[u].owns # {}
     \/ Stage(t) = "lease" /\ tx[u].shares

-----------------------------------------------------------------------------
Begins(t, kind, rows) ==
  /\ tx[t] = NoTx /\ kind \in Kinds
  /\ tx' = [tx EXCEPT ![t] = [NoTx EXCEPT !.kind = kind, !.path = Path[kind],
                                          !.left = rows]]
  /\ UNCHANGED kept

(* A flush writes some rows; one that only changes entries finds them all. *)
Flushes(m, kind, rows) ==
  /\ kind \in {"minted", "change", "create"} /\ rows # {}
  /\ kind = "change" => rows \subseteq kept
  /\ Begins(<<m, "store">>, kind, rows)

(* agree(), once at the start: a transaction of the store like any other.  *)
Agrees(m) == Begins(<<m, "store">>, "agree", {})

(* A statement of the node's membership: one at a time.                    *)
Speaks(m, kind) == /\ kind \in {"heartbeat", "acquire", "join"}
                    /\ Begins(<<m, "membership">>, kind, {})

(* The SELECT ... FOR UPDATE of saveDirectory begins: it will lock the     *)
(* rows committed by now, and the others are the ones to insert.           *)
Selects(t) ==
  /\ Stage(t) = "select"
  /\ tx' = [tx EXCEPT ![t] = [tx[t] EXCEPT !.path = Tail(tx[t].path),
                                           !.left = tx[t].left \cap kept,
                                           !.fresh = tx[t].left \ kept]]
  /\ UNCHANGED kept

(* The fence's SELECT ... FOR SHARE.                                       *)
Fences(t) ==
  /\ Stage(t) = "fence" /\ \A u \in Slots : ~WaitsFor(t, u)
  /\ tx' = [tx EXCEPT ![t] = [tx[t] EXCEPT !.path = Tail(tx[t].path), !.shares = TRUE]]
  /\ UNCHANGED kept

(* The rows of a stage but the one just locked, if t is at that stage.     *)
Rest(t, stage, rows) == IF Stage(t) = stage THEN rows \ NextOf(t, rows) ELSE rows

(* What t asked for is its own.  An INSERT over a row committed meanwhile  *)
(* does nothing, and the row is selected FOR UPDATE: it is locked as well. *)
Takes(t) ==
  /\ Stage(t) # "fence" /\ Asks(t) # {} /\ \A u \in Slots : ~WaitsFor(t, u)
  /\ tx' = [tx EXCEPT ![t] =
       [tx[t] EXCEPT !.owns = tx[t].owns \cup Asks(t),
                     !.left = Rest(t, "rows", tx[t].left),
                     !.fresh = Rest(t, "insert", tx[t].fresh),
                     !.path = IF Stage(t) \in {"rows", "insert"} THEN tx[t].path
                              ELSE Tail(tx[t].path)]]
  /\ UNCHANGED kept

(* The rows of this stage are all locked.                                  *)
MovesOn(t) == /\ Stage(t) \in {"rows", "insert"} /\ Asks(t) = {}
              /\ tx' = [tx EXCEPT ![t].path = Tail(@)]
              /\ UNCHANGED kept

Commits(t) == /\ tx[t].kind # "none" /\ Stage(t) = "locked"
              /\ kept' = kept \cup {r \in Key : <<"entry", r>> \in tx[t].owns}
              /\ tx' = [tx EXCEPT ![t] = NoTx]

(* The store fails it, to break a circle or because it is gone.            *)
RollsBack(t) == /\ tx[t].kind # "none"
                /\ tx' = [tx EXCEPT ![t] = NoTx]
                /\ UNCHANGED kept

TxStep(t) == \/ Selects(t) \/ Fences(t) \/ Takes(t) \/ MovesOn(t)
             \/ Commits(t) \/ RollsBack(t)

LocksNext ==
  \/ \E m \in Holder, kind \in Kinds, rows \in SUBSET Key :
       Flushes(m, kind, rows)
  \/ \E m \in Holder : Agrees(m)
  \/ \E m \in Holder, kind \in Kinds : Speaks(m, kind)
  \/ \E t \in Slots : TxStep(t)

LocksSpec == LocksInit /\ [][LocksNext]_lockvars

-----------------------------------------------------------------------------
(* Properties.                                                             *)

(* No transactions wait for one another in a circle: of any of them, one   *)
(* waits for none of the others.  The comments of saveMinted and of        *)
(* saveDirectory say their lock order makes a circle impossible.           *)
NoCircle == \A T \in (SUBSET Slots) \ {{}} :
  \E t \in T : \A u \in T : ~WaitsFor(t, u)
=============================================================================
