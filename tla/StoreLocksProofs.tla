-------------------------- MODULE StoreLocksProofs --------------------------
(***************************************************************************)
(* Proofs about StoreLocks, for any nodes and rows: its types, and that    *)
(* the transactions of a running service never wait in a circle.           *)
(***************************************************************************)
EXTENDS StoreLocks, FiniteSetTheorems, NaturalsInduction, WellFoundedInduction, TLAPS

-----------------------------------------------------------------------------
(* Types.                                                                  *)

Paths == {<<>>, <<"fence", "select", "rows", "insert">>, <<"select", "rows", "insert">>,
          <<"rows", "insert">>, <<"insert">>, <<"fence", "rows">>, <<"rows">>,
          <<"fence", "join", "node">>, <<"join", "node">>, <<"node">>,
          <<"node", "lease">>, <<"lease">>}

TxSet == [kind : Kinds \cup {"none"}, path : Paths, left : SUBSET Key,
          fresh : SUBSET Key, owns : SUBSET Resources, shares : BOOLEAN]

HasFields(r, kind, path, left, fresh, owns, shares) ==
  /\ r \in TxSet
  /\ r.kind = kind /\ r.path = path /\ r.left = left /\ r.fresh = fresh
  /\ r.owns = owns /\ r.shares = shares

LocksTypes == kept \subseteq Key /\ tx \in [Slots -> TxSet]

(* The heads and tails of the paths.                                       *)
LEMMA Tails ==
  /\ Tail(<<"fence", "select", "rows", "insert">>) = <<"select", "rows", "insert">>
  /\ Tail(<<"select", "rows", "insert">>) = <<"rows", "insert">>
  /\ Tail(<<"rows", "insert">>) = <<"insert">>
  /\ Tail(<<"fence", "rows">>) = <<"rows">>
  /\ Tail(<<"fence", "join", "node">>) = <<"join", "node">>
  /\ Tail(<<"join", "node">>) = <<"node">>
  /\ Tail(<<"node", "lease">>) = <<"lease">>
  /\ Tail(<<"insert">>) = <<>> /\ Tail(<<"rows">>) = <<>>
  /\ Tail(<<"node">>) = <<>> /\ Tail(<<"lease">>) = <<>>
OBVIOUS

LEMMA Heads ==
  /\ Head(<<"fence", "select", "rows", "insert">>) = "fence"
  /\ Head(<<"select", "rows", "insert">>) = "select"
  /\ Head(<<"rows", "insert">>) = "rows"
  /\ Head(<<"fence", "rows">>) = "fence"
  /\ Head(<<"fence", "join", "node">>) = "fence"
  /\ Head(<<"join", "node">>) = "join"
  /\ Head(<<"node", "lease">>) = "node"
  /\ Head(<<"insert">>) = "insert" /\ Head(<<"rows">>) = "rows"
  /\ Head(<<"node">>) = "node" /\ Head(<<"lease">>) = "lease"
OBVIOUS

(* What replaces one transaction leaves the others as they were.           *)
LEMMA OneChanges ==
  ASSUME LocksTypes, NEW t \in Slots, NEW r \in TxSet, tx' = [tx EXCEPT ![t] = r]
  PROVE  /\ tx' \in [Slots -> TxSet]
         /\ tx'[t] = r
         /\ \A u \in Slots : u # t => tx'[u] = tx[u]
BY DEF LocksTypes

(* No transaction is one, and has no lock.                                 *)
LEMMA NoneIsOne == NoTx \in TxSet
BY DEF NoTx, TxSet, Paths

(* The lock orders, and what is left of them, are paths.                   *)
LEMMA PathsTyped ==
  /\ \A kind \in Kinds : Path[kind] \in Paths
  /\ \A p \in Paths : p # <<>> => Tail(p) \in Paths
<1>1. ASSUME NEW kind \in Kinds PROVE Path[kind] \in Paths
  <2>1. kind \in {"minted", "change", "create", "agree", "heartbeat", "acquire", "join"}
    BY LocksConstants
  <2>2. /\ Path["minted"] = <<"fence", "rows">>
        /\ Path["change"] = <<"fence", "select", "rows", "insert">>
        /\ Path["create"] = <<"fence", "select", "rows", "insert">>
        /\ Path["agree"] = <<"fence", "join", "node">>
        /\ Path["join"] = <<"join", "node">>
        /\ Path["heartbeat"] = <<"node", "lease">>
        /\ Path["acquire"] = <<"lease">>
    BY DEF Path, Directory
  <2> QED BY <2>1, <2>2 DEF Paths
<1>2. ASSUME NEW p \in Paths, p # <<>> PROVE Tail(p) \in Paths
  BY <1>2, Tails DEF Paths
<1> QED BY <1>1, <1>2

(* What replaces a transaction, field by field.                            *)
LEMMA Replaced ==
  ASSUME NEW r \in TxSet, NEW q \in Paths, NEW l \in SUBSET Key, NEW f \in SUBSET Key,
         NEW o \in SUBSET Resources, NEW k \in Kinds \cup {"none"}
  PROVE  /\ HasFields([r EXCEPT !.kind = k, !.path = q, !.left = l],
                       k, q, l, r.fresh, r.owns, r.shares)
         /\ HasFields([r EXCEPT !.path = q, !.left = l, !.fresh = f],
                       r.kind, q, l, f, r.owns, r.shares)
         /\ HasFields([r EXCEPT !.path = q, !.shares = TRUE],
                       r.kind, q, r.left, r.fresh, r.owns, TRUE)
         /\ HasFields([r EXCEPT !.owns = o, !.left = l, !.fresh = f, !.path = q],
                       r.kind, q, l, f, o, r.shares)
         /\ HasFields([r EXCEPT !.path = q],
                       r.kind, q, r.left, r.fresh, r.owns, r.shares)
<1>1. HasFields([r EXCEPT !.kind = k, !.path = q, !.left = l],
                k, q, l, r.fresh, r.owns, r.shares)
  <2> DEFINE y == [r EXCEPT !.kind = k, !.path = q, !.left = l]
  <2>1. y \in TxSet
    BY DEF TxSet
  <2>2. y.kind = k /\ y.path = q /\ y.left = l /\ y.fresh = r.fresh /\ y.owns = r.owns
        /\ y.shares = r.shares
    BY DEF TxSet
  <2> QED BY <2>1, <2>2 DEF HasFields
<1>2. HasFields([r EXCEPT !.path = q, !.left = l, !.fresh = f],
                r.kind, q, l, f, r.owns, r.shares)
  <2> DEFINE y == [r EXCEPT !.path = q, !.left = l, !.fresh = f]
  <2>1. y \in TxSet
    BY DEF TxSet
  <2>2. y.kind = r.kind /\ y.path = q /\ y.left = l /\ y.fresh = f /\ y.owns = r.owns
        /\ y.shares = r.shares
    BY DEF TxSet
  <2> QED BY <2>1, <2>2 DEF HasFields
<1>3. HasFields([r EXCEPT !.path = q, !.shares = TRUE],
                r.kind, q, r.left, r.fresh, r.owns, TRUE)
  <2> DEFINE y == [r EXCEPT !.path = q, !.shares = TRUE]
  <2>1. y \in TxSet
    BY DEF TxSet
  <2>2. y.kind = r.kind /\ y.path = q /\ y.left = r.left /\ y.fresh = r.fresh
        /\ y.owns = r.owns /\ y.shares = TRUE
    BY DEF TxSet
  <2> QED BY <2>1, <2>2 DEF HasFields
<1>4. HasFields([r EXCEPT !.owns = o, !.left = l, !.fresh = f, !.path = q],
                r.kind, q, l, f, o, r.shares)
  <2> DEFINE y == [r EXCEPT !.owns = o, !.left = l, !.fresh = f, !.path = q]
  <2>1. y \in TxSet
    BY DEF TxSet
  <2>2. y.kind = r.kind /\ y.path = q /\ y.left = l /\ y.fresh = f /\ y.owns = o
        /\ y.shares = r.shares
    BY DEF TxSet
  <2> QED BY <2>1, <2>2 DEF HasFields
<1>5. HasFields([r EXCEPT !.path = q],
                r.kind, q, r.left, r.fresh, r.owns, r.shares)
  BY DEF TxSet, HasFields
<1> QED BY <1>1, <1>2, <1>3, <1>4, <1>5

(* What is asked for is a resource.                                        *)
LEMMA AskedResources ==
  ASSUME LocksTypes, NEW t \in Slots
  PROVE  Asks(t) \subseteq Resources
<1>1. /\ tx[t].left \subseteq Key /\ tx[t].fresh \subseteq Key /\ t[1] \in Holder
  BY DEF LocksTypes, TxSet, Slots
<1>2. /\ NextOf(t, tx[t].left) \subseteq Key /\ NextOf(t, tx[t].fresh) \subseteq Key
  BY <1>1 DEF NextOf
<1>3. Table(t) \in {"minted", "entry"}
  BY DEF Table
<1>4. /\ {<<"lease", "service">>} \subseteq Resources
      /\ {<<"join", "lock">>} \subseteq Resources
      /\ {<<"node", t[1]>>} \subseteq Resources
      /\ {Table(t)} \X NextOf(t, tx[t].left) \subseteq Resources
      /\ {Table(t)} \X NextOf(t, tx[t].fresh) \subseteq Resources
      /\ {} \subseteq Resources
  BY <1>1, <1>2, <1>3 DEF Resources
<1>5. \/ Asks(t) = {<<"lease", "service">>}
      \/ Asks(t) = {<<"join", "lock">>}
      \/ Asks(t) = {<<"node", t[1]>>}
      \/ Asks(t) = {Table(t)} \X NextOf(t, tx[t].left)
      \/ Asks(t) = {Table(t)} \X NextOf(t, tx[t].fresh)
      \/ Asks(t) = {}
  BY DEF Asks
<1> QED BY <1>4, <1>5

(* The records the steps of a transaction put in its place.                *)
Begun(kind, rows) == [NoTx EXCEPT !.kind = kind, !.path = Path[kind], !.left = rows]
Selected(t) == [tx[t] EXCEPT !.path = Tail(tx[t].path), !.left = tx[t].left \cap kept,
                             !.fresh = tx[t].left \ kept]
Fenced(t) == [tx[t] EXCEPT !.path = Tail(tx[t].path), !.shares = TRUE]
Taken(t) == [tx[t] EXCEPT !.owns = tx[t].owns \cup Asks(t),
                          !.left = Rest(t, "rows", tx[t].left),
                          !.fresh = Rest(t, "insert", tx[t].fresh),
                          !.path = IF Stage(t) \in {"rows", "insert"} THEN tx[t].path
                                   ELSE Tail(tx[t].path)]
Moved(t) == [tx[t] EXCEPT !.path = Tail(tx[t].path)]

(* Each of them, field by field.                                           *)
LEMMA Fields ==
  ASSUME LocksTypes, NEW t \in Slots, Stage(t) # "locked"
  PROVE  /\ HasFields(Selected(t), tx[t].kind, Tail(tx[t].path), tx[t].left \cap kept,
                      tx[t].left \ kept, tx[t].owns, tx[t].shares)
         /\ HasFields(Fenced(t), tx[t].kind, Tail(tx[t].path), tx[t].left,
                      tx[t].fresh, tx[t].owns, TRUE)
         /\ HasFields(Taken(t), tx[t].kind,
                      IF Stage(t) \in {"rows", "insert"} THEN tx[t].path
                      ELSE Tail(tx[t].path),
                      Rest(t, "rows", tx[t].left), Rest(t, "insert", tx[t].fresh),
                      tx[t].owns \cup Asks(t), tx[t].shares)
         /\ HasFields(Moved(t), tx[t].kind, Tail(tx[t].path), tx[t].left,
                      tx[t].fresh, tx[t].owns, tx[t].shares)
<1>1. /\ tx[t] \in TxSet /\ tx[t].kind \in Kinds \cup {"none"} /\ tx[t].path \in Paths
      /\ tx[t].left \in SUBSET Key /\ tx[t].fresh \in SUBSET Key
      /\ tx[t].owns \in SUBSET Resources /\ tx[t].shares \in BOOLEAN
  BY DEF LocksTypes, TxSet
<1>2. Rest(t, "rows", tx[t].left) \in SUBSET Key /\ Rest(t, "insert", tx[t].fresh) \in SUBSET Key
  BY <1>1 DEF Rest
<1>3. tx[t].owns \cup Asks(t) \in SUBSET Resources
  BY <1>1, AskedResources
<1>4. tx[t].path # <<>>
  BY DEF Stage
<1>5. Tail(tx[t].path) \in Paths
  BY <1>1, <1>4, PathsTyped
<1>6. tx[t].left \cap kept \in SUBSET Key /\ tx[t].left \ kept \in SUBSET Key
  BY <1>1
<1>7. HasFields(Selected(t), tx[t].kind, Tail(tx[t].path), tx[t].left \cap kept,
                tx[t].left \ kept, tx[t].owns, tx[t].shares)
  BY <1>1, <1>5, <1>6, Replaced DEF Selected
<1>8. HasFields(Fenced(t), tx[t].kind, Tail(tx[t].path), tx[t].left,
                tx[t].fresh, tx[t].owns, TRUE)
  BY <1>1, <1>5, Replaced DEF Fenced
<1>9. HasFields(Taken(t), tx[t].kind,
                IF Stage(t) \in {"rows", "insert"} THEN tx[t].path ELSE Tail(tx[t].path),
                Rest(t, "rows", tx[t].left), Rest(t, "insert", tx[t].fresh),
                tx[t].owns \cup Asks(t), tx[t].shares)
  <2>1. (IF Stage(t) \in {"rows", "insert"} THEN tx[t].path ELSE Tail(tx[t].path)) \in Paths
    BY <1>1, <1>5
  <2> QED BY <1>1, <1>2, <1>3, <2>1, Replaced DEF Taken
<1>10. HasFields(Moved(t), tx[t].kind, Tail(tx[t].path), tx[t].left,
                tx[t].fresh, tx[t].owns, tx[t].shares)
  BY <1>1, <1>5, Replaced DEF Moved
<1> QED BY <1>7, <1>8, <1>9, <1>10

(* A transaction that begins.                                              *)
LEMMA BeginsOne ==
  ASSUME NEW kind \in Kinds, NEW rows \in SUBSET Key
  PROVE  HasFields(Begun(kind, rows), kind, Path[kind], rows, {}, {}, FALSE)
<1>1. Path[kind] \in Paths
  BY PathsTyped
<1>2. NoTx.fresh = {} /\ NoTx.owns = {} /\ NoTx.shares = FALSE
  BY DEF NoTx
<1>3. {} \in SUBSET Key /\ {} \in SUBSET Resources /\ kind \in Kinds \cup {"none"}
  OBVIOUS
<1>4. HasFields([NoTx EXCEPT !.kind = kind, !.path = Path[kind], !.left = rows],
                kind, Path[kind], rows, NoTx.fresh, NoTx.owns, NoTx.shares)
  BY <1>1, <1>3, NoneIsOne, Replaced
<1> QED BY <1>2, <1>4 DEF Begun

(* Every step replaces one transaction, and the rows committed only grow.  *)
Becomes(t, r) == tx' = [tx EXCEPT ![t] = r]

LEMMA LocksSteps ==
  ASSUME LocksTypes, LocksNext
  PROVE  \/ \E t \in Slots, kind \in Kinds, rows \in SUBSET Key :
              /\ tx[t] = NoTx /\ kept' = kept
              /\ kind = "change" => rows \subseteq kept
              /\ t[2] = IF kind \in {"heartbeat", "acquire", "join"} THEN "membership"
                        ELSE "store"
              /\ Becomes(t, Begun(kind, rows))
         \/ \E t \in Slots : Stage(t) = "select" /\ kept' = kept /\ Becomes(t, Selected(t))
         \/ \E t \in Slots : Stage(t) = "fence" /\ kept' = kept /\ Becomes(t, Fenced(t))
         \/ \E t \in Slots : /\ Stage(t) # "fence" /\ Asks(t) # {} /\ kept' = kept
                             /\ \A u \in Slots : ~WaitsFor(t, u)
                             /\ Becomes(t, Taken(t))
         \/ \E t \in Slots : /\ Stage(t) \in {"rows", "insert"} /\ kept' = kept
                             /\ Asks(t) = {} /\ Becomes(t, Moved(t))
         \/ \E t \in Slots : /\ kept \subseteq kept' /\ kept' \subseteq Key
                             /\ Becomes(t, NoTx)
<1>1. ASSUME NEW m \in Holder, NEW kind \in Kinds, NEW rows \in SUBSET Key,
             Flushes(m, kind, rows)
      PROVE  \E t \in Slots, k \in Kinds, r \in SUBSET Key :
               /\ tx[t] = NoTx /\ kept' = kept
               /\ k = "change" => r \subseteq kept
               /\ t[2] = IF k \in {"heartbeat", "acquire", "join"} THEN "membership"
                         ELSE "store"
               /\ Becomes(t, Begun(k, r))
  <2>1. <<m, "store">> \in Slots /\ <<m, "store">>[2] = "store"
    BY DEF Slots
  <2>2. /\ kind \in {"minted", "change", "create"} /\ (kind = "change" => rows \subseteq kept)
        /\ Begins(<<m, "store">>, kind, rows)
    BY <1>1 DEF Flushes
  <2> QED BY <2>1, <2>2 DEF Begins, Becomes, Begun
<1>2. ASSUME NEW m \in Holder, Agrees(m)
      PROVE  \E t \in Slots, k \in Kinds, r \in SUBSET Key :
               /\ tx[t] = NoTx /\ kept' = kept
               /\ k = "change" => r \subseteq kept
               /\ t[2] = IF k \in {"heartbeat", "acquire", "join"} THEN "membership"
                         ELSE "store"
               /\ Becomes(t, Begun(k, r))
  <2>1. <<m, "store">> \in Slots /\ <<m, "store">>[2] = "store"
    BY DEF Slots
  <2>2. "agree" \in Kinds /\ {} \in SUBSET Key /\ Begins(<<m, "store">>, "agree", {})
    BY <1>2 DEF Agrees, Begins
  <2> QED BY <2>1, <2>2 DEF Begins, Becomes, Begun
<1>3. ASSUME NEW m \in Holder, NEW kind \in Kinds, Speaks(m, kind)
      PROVE  \E t \in Slots, k \in Kinds, r \in SUBSET Key :
               /\ tx[t] = NoTx /\ kept' = kept
               /\ k = "change" => r \subseteq kept
               /\ t[2] = IF k \in {"heartbeat", "acquire", "join"} THEN "membership"
                         ELSE "store"
               /\ Becomes(t, Begun(k, r))
  <2>1. <<m, "membership">> \in Slots /\ <<m, "membership">>[2] = "membership"
    BY DEF Slots
  <2>2. /\ kind \in {"heartbeat", "acquire", "join"} /\ {} \in SUBSET Key
        /\ Begins(<<m, "membership">>, kind, {})
    BY <1>3 DEF Speaks
  <2> QED BY <2>1, <2>2 DEF Begins, Becomes, Begun
<1>4. ASSUME NEW t \in Slots, Selects(t)
      PROVE  Stage(t) = "select" /\ kept' = kept /\ Becomes(t, Selected(t))
  BY <1>4 DEF Selects, Selected, Becomes
<1>5. ASSUME NEW t \in Slots, Fences(t)
      PROVE  Stage(t) = "fence" /\ kept' = kept /\ Becomes(t, Fenced(t))
  BY <1>5 DEF Fences, Fenced, Becomes
<1>6. ASSUME NEW t \in Slots, Takes(t)
      PROVE  /\ Stage(t) # "fence" /\ Asks(t) # {} /\ kept' = kept
             /\ \A u \in Slots : ~WaitsFor(t, u)
             /\ Becomes(t, Taken(t))
  BY <1>6 DEF Takes, Taken, Becomes
<1>7. ASSUME NEW t \in Slots, MovesOn(t)
      PROVE  /\ Stage(t) \in {"rows", "insert"} /\ kept' = kept
             /\ Asks(t) = {} /\ Becomes(t, Moved(t))
  BY <1>7 DEF MovesOn, Moved, Becomes
<1>8. ASSUME NEW t \in Slots, Commits(t) \/ RollsBack(t)
      PROVE  kept \subseteq kept' /\ kept' \subseteq Key /\ Becomes(t, NoTx)
  BY <1>8 DEF Commits, RollsBack, Becomes, LocksTypes
<1> QED BY <1>1, <1>2, <1>3, <1>4, <1>5, <1>6, <1>7, <1>8, Zenon DEF LocksNext, TxStep

(* The kinds of step keep the types.                                       *)
LEMMA TypesKept ==
  ASSUME LocksTypes, [LocksNext]_lockvars
  PROVE  LocksTypes'
<1>1. CASE UNCHANGED lockvars
  BY <1>1 DEF lockvars, LocksTypes
<1>2. CASE LocksNext
  <2>1. kept' \subseteq Key
    BY <1>2, LocksSteps DEF LocksTypes
  <2>2. \E t \in Slots, r \in TxSet : Becomes(t, r)
    <3>1. ASSUME NEW t \in Slots, NEW kind \in Kinds, NEW rows \in SUBSET Key,
                 Becomes(t, Begun(kind, rows))
          PROVE  \E r \in TxSet : Becomes(t, r)
      BY <3>1, BeginsOne DEF HasFields
    <3>2. ASSUME NEW t \in Slots, Stage(t) # "locked"
          PROVE  {Selected(t), Fenced(t), Taken(t), Moved(t)} \subseteq TxSet
      BY <1>2, <3>2, Fields DEF HasFields
    <3>3. ASSUME NEW t \in Slots, Asks(t) # {} PROVE Stage(t) # "locked"
      BY <3>3 DEF Asks
    <3> QED BY <1>2, <3>1, <3>2, <3>3, LocksSteps, NoneIsOne
  <2>3. tx' \in [Slots -> TxSet]
    BY <2>2, OneChanges DEF Becomes
  <2> QED BY <2>1, <2>3 DEF LocksTypes
<1> QED BY <1>1, <1>2

(* THEOREM.  A transaction only ever holds, and has yet to lock, rows of   *)
(* the table and resources there are (persistence_postgres.js).            *)
THEOREM LocksTyping == LocksSpec => []LocksTypeOK
<1>1. LocksInit => LocksTypes
  BY NoneIsOne DEF LocksInit, LocksTypes
<1>2. LocksTypes => LocksTypeOK
  BY DEF LocksTypes, LocksTypeOK, TxSet
<1> QED BY <1>1, <1>2, TypesKept, PTL DEF LocksSpec

-----------------------------------------------------------------------------
(* Where a transaction is, and what it owns by then.                       *)

(* The kinds that lock in one order, and nodes that can be counted.        *)
OneOrder == /\ Kinds \subseteq {"minted", "change", "heartbeat", "acquire", "join"}
            /\ IsFiniteSet(Holder)

RowsOwned(r) == r.owns \subseteq {IF r.kind = "minted" THEN "minted" ELSE "entry"} \X Key

(* A flush of rows that are all there: the rows it owns come before those  *)
(* it has yet to lock.                                                     *)
FlushShape(r, there) ==
  /\ r.kind \in {"minted", "change"} /\ r.fresh = {}
  /\ r.kind = "change" => r.left \subseteq there
  /\ \/ /\ r.path \in {<<"fence", "rows">>, <<"fence", "select", "rows", "insert">>}
        /\ r.path = Path[r.kind] /\ r.owns = {} /\ ~r.shares
     \/ r.kind = "change" /\ r.path = <<"select", "rows", "insert">> /\ r.owns = {}
     \/ /\ r.path \in {<<"rows">>, <<"rows", "insert">>} /\ RowsOwned(r)
        /\ r.path = IF r.kind = "minted" THEN <<"rows">> ELSE <<"rows", "insert">>
        /\ \A e \in r.owns, s \in r.left : e[2] < s
     \/ r.kind = "change" /\ r.path = <<"insert">> /\ RowsOwned(r)
     \/ r.path = <<>> /\ RowsOwned(r)

(* A statement of the membership of the node h.                            *)
MembershipShape(r, h) ==
  /\ r.kind \in {"join", "heartbeat", "acquire"} /\ ~r.shares
  /\ \/ r.path = <<"join", "node">> /\ r.owns = {}
     \/ r.path = <<"node">> /\ r.owns \subseteq {<<"join", "lock">>}
     \/ r.path = <<"node", "lease">> /\ r.owns = {}
     \/ r.path = <<"lease">> /\ r.owns \subseteq {<<"node", h>>}
     \/ /\ r.path = <<>>
        /\ r.owns \subseteq {<<"node", h>>, <<"join", "lock">>, <<"lease", "service">>}

Shape(t, r, there) == \/ r = NoTx
                      \/ t[2] = "store" /\ FlushShape(r, there)
                      \/ t[2] = "membership" /\ MembershipShape(r, t[1])

ShapeInv == \A t \in Slots : Shape(t, tx[t], kept)

LocksInv == LocksTypes /\ ShapeInv

(* The stage a transaction is at says what is left of its path.            *)
LEMMA Stages ==
  ASSUME LocksTypes, NEW t \in Slots
  PROVE  /\ Stage(t) = "select" => tx[t].path = <<"select", "rows", "insert">>
         /\ Stage(t) = "fence" => tx[t].path \in {<<"fence", "rows">>,
              <<"fence", "select", "rows", "insert">>, <<"fence", "join", "node">>}
         /\ Stage(t) = "rows" => tx[t].path \in {<<"rows">>, <<"rows", "insert">>}
         /\ Stage(t) = "insert" => tx[t].path = <<"insert">>
         /\ Stage(t) = "join" => tx[t].path = <<"join", "node">>
         /\ Stage(t) = "node" => tx[t].path \in {<<"node">>, <<"node", "lease">>}
         /\ Stage(t) = "lease" => tx[t].path = <<"lease">>
         /\ Stage(t) = "locked" => tx[t].path = <<>>
         /\ Stage(t) \in {"select", "fence", "rows", "insert", "join", "node", "lease", "locked"}
<1>1. tx[t].path \in Paths
  BY DEF LocksTypes, TxSet
<1> QED BY <1>1, Heads DEF Stage, Paths

(* Rows committed meanwhile change no shape.                               *)
LEMMA ShapeGrows ==
  ASSUME NEW t, NEW r, NEW a, NEW b, a \subseteq b, Shape(t, r, a)
  PROVE  Shape(t, r, b)
<1>1. FlushShape(r, a) => FlushShape(r, b)
  BY DEF FlushShape
<1> QED BY <1>1 DEF Shape

LEMMA ShapeBegun ==
  ASSUME OneOrder, NEW t \in Slots, NEW kind \in Kinds, NEW rows \in SUBSET Key, NEW r,
         kind = "change" => rows \subseteq kept,
         t[2] = IF kind \in {"heartbeat", "acquire", "join"} THEN "membership" ELSE "store",
         HasFields(r, kind, Path[kind], rows, {}, {}, FALSE)
  PROVE  Shape(t, r, kept)
<1>1. kind \in {"minted", "change", "heartbeat", "acquire", "join"}
  BY DEF OneOrder
<1>2. /\ Path["minted"] = <<"fence", "rows">>
      /\ Path["change"] = <<"fence", "select", "rows", "insert">>
      /\ Path["join"] = <<"join", "node">>
      /\ Path["heartbeat"] = <<"node", "lease">>
      /\ Path["acquire"] = <<"lease">>
  BY DEF Path, Directory
<1>3. /\ r.kind = kind /\ r.path = Path[kind] /\ r.left = rows /\ r.fresh = {}
      /\ r.owns = {} /\ r.shares = FALSE
  BY DEF HasFields
<1>4. CASE kind \in {"minted", "change"}
  BY <1>2, <1>3, <1>4 DEF Shape, FlushShape
<1>5. CASE kind \in {"heartbeat", "acquire", "join"}
  BY <1>2, <1>3, <1>5 DEF Shape, MembershipShape
<1> QED BY <1>1, <1>4, <1>5

LEMMA ShapeSelected ==
  ASSUME LocksTypes, NEW t \in Slots, Shape(t, tx[t], kept), Stage(t) = "select"
  PROVE  Shape(t, Selected(t), kept)
<1>1. tx[t].path = <<"select", "rows", "insert">>
  BY Stages
<1>2. tx[t] # NoTx /\ ~MembershipShape(tx[t], t[1])
  <2>1. /\ tx[t].path # <<>> /\ tx[t].path # <<"join", "node">> /\ tx[t].path # <<"node">>
        /\ tx[t].path # <<"node", "lease">> /\ tx[t].path # <<"lease">>
    BY <1>1
  <2>2. NoTx.path = <<>>
    BY DEF NoTx
  <2>3. tx[t] # NoTx
    BY <2>1, <2>2
  <2> QED BY <2>1, <2>3, Zenon DEF MembershipShape
<1>3. /\ t[2] = "store" /\ tx[t].kind = "change" /\ tx[t].left \subseteq kept
      /\ tx[t].owns = {}
  BY <1>1, <1>2 DEF Shape, FlushShape
<1>4. HasFields(Selected(t), "change", <<"rows", "insert">>, tx[t].left, {}, {}, tx[t].shares)
  <2>1. tx[t].left \cap kept = tx[t].left /\ tx[t].left \ kept = {}
    BY <1>3
  <2>2. HasFields(Selected(t), tx[t].kind, Tail(tx[t].path), tx[t].left \cap kept,
                  tx[t].left \ kept, tx[t].owns, tx[t].shares)
    BY Fields
  <2> QED BY <1>1, <1>3, <2>1, <2>2, Tails
<1> QED BY <1>3, <1>4 DEF HasFields, Shape, FlushShape, RowsOwned

LEMMA ShapeFenced ==
  ASSUME LocksTypes, NEW t \in Slots, Shape(t, tx[t], kept), Stage(t) = "fence"
  PROVE  Shape(t, Fenced(t), kept)
<1>1. tx[t].path \in {<<"fence", "rows">>, <<"fence", "select", "rows", "insert">>,
                      <<"fence", "join", "node">>}
  BY Stages
<1>2. tx[t] # NoTx /\ ~MembershipShape(tx[t], t[1])
  <2>1. /\ tx[t].path # <<>> /\ tx[t].path # <<"join", "node">> /\ tx[t].path # <<"node">>
        /\ tx[t].path # <<"node", "lease">> /\ tx[t].path # <<"lease">>
    BY <1>1
  <2>2. NoTx.path = <<>>
    BY DEF NoTx
  <2>3. tx[t] # NoTx
    BY <2>1, <2>2
  <2> QED BY <2>1, <2>3, Zenon DEF MembershipShape
<1>3. /\ t[2] = "store" /\ tx[t].kind \in {"minted", "change"} /\ tx[t].fresh = {}
      /\ tx[t].kind = "change" => tx[t].left \subseteq kept
      /\ tx[t].path = Path[tx[t].kind] /\ tx[t].owns = {}
  BY <1>1, <1>2 DEF Shape, FlushShape
<1>4. HasFields(Fenced(t), tx[t].kind, Tail(tx[t].path), tx[t].left, {}, {}, TRUE)
  BY <1>3, Fields
<1>5. /\ Path["minted"] = <<"fence", "rows">>
      /\ Path["change"] = <<"fence", "select", "rows", "insert">>
  BY DEF Path, Directory
<1>6. CASE tx[t].kind = "minted"
  <2>1. HasFields(Fenced(t), "minted", <<"rows">>, tx[t].left, {}, {}, TRUE)
    BY <1>3, <1>4, <1>5, <1>6, Tails
  <2> QED BY <1>3, <2>1 DEF HasFields, Shape, FlushShape, RowsOwned
<1>7. CASE tx[t].kind = "change"
  <2>1. HasFields(Fenced(t), "change", <<"select", "rows", "insert">>, tx[t].left, {}, {}, TRUE)
    BY <1>3, <1>4, <1>5, <1>7, Tails
  <2> QED BY <1>3, <1>7, <2>1 DEF HasFields, Shape, FlushShape, RowsOwned
<1> QED BY <1>3, <1>6, <1>7

LEMMA ShapeMoved ==
  ASSUME LocksTypes, NEW t \in Slots, Shape(t, tx[t], kept), Stage(t) \in {"rows", "insert"}
  PROVE  Shape(t, Moved(t), kept)
<1>1. tx[t].path \in {<<"rows">>, <<"rows", "insert">>, <<"insert">>}
  BY Stages
<1>2. tx[t] # NoTx /\ ~MembershipShape(tx[t], t[1])
  <2>1. /\ tx[t].path # <<>> /\ tx[t].path # <<"join", "node">> /\ tx[t].path # <<"node">>
        /\ tx[t].path # <<"node", "lease">> /\ tx[t].path # <<"lease">>
    <3>1. CASE tx[t].path = <<"rows">>
      BY <3>1
    <3>2. CASE tx[t].path = <<"rows", "insert">>
      BY <3>2
    <3>3. CASE tx[t].path = <<"insert">>
      BY <3>3
    <3> QED BY <1>1, <3>1, <3>2, <3>3
  <2>2. NoTx.path = <<>>
    BY DEF NoTx
  <2>3. tx[t] # NoTx
    BY <2>1, <2>2
  <2> QED BY <2>1, <2>3, Zenon DEF MembershipShape
<1>3. /\ t[2] = "store" /\ tx[t].kind \in {"minted", "change"} /\ tx[t].fresh = {}
      /\ tx[t].kind = "change" => tx[t].left \subseteq kept
      /\ RowsOwned(tx[t])
      /\ tx[t].path = <<"rows", "insert">> => tx[t].kind = "change"
  BY <1>1, <1>2 DEF Shape, FlushShape
<1>4. /\ HasFields(Moved(t), tx[t].kind, Tail(tx[t].path), tx[t].left, {}, tx[t].owns,
                   tx[t].shares)
      /\ \/ tx[t].kind = "change" /\ Tail(tx[t].path) = <<"insert">>
         \/ Tail(tx[t].path) = <<>>
  BY <1>1, <1>3, Fields, Tails
<1>5. RowsOwned(Moved(t))
  BY <1>3, <1>4 DEF HasFields, RowsOwned
<1> QED BY <1>3, <1>4, <1>5 DEF HasFields, Shape, FlushShape

(* A row is taken: it comes before the ones left.                          *)
LEMMA ShapeTaken ==
  ASSUME LocksTypes, NEW t \in Slots, Shape(t, tx[t], kept), Asks(t) # {},
         Stage(t) # "fence"
  PROVE  Shape(t, Taken(t), kept)
<1> DEFINE path == IF Stage(t) \in {"rows", "insert"} THEN tx[t].path ELSE Tail(tx[t].path)
<1>1. Stage(t) \notin {"locked", "select"}
  BY DEF Asks
<1>2. HasFields(Taken(t), tx[t].kind, path, Rest(t, "rows", tx[t].left),
                Rest(t, "insert", tx[t].fresh), tx[t].owns \cup Asks(t), tx[t].shares)
  BY <1>1, Fields
<1> HIDE DEF path
<1>3. tx[t] # NoTx
  <2>1. SUFFICES ASSUME tx[t] = NoTx PROVE Stage(t) = "locked"
    BY <1>1
  <2> QED BY <2>1 DEF NoTx, Stage
<1>4. CASE t[2] = "store" /\ FlushShape(tx[t], kept)
  <2>1. Stage(t) # "insert"
    <3>1. NextOf(t, {}) = {} /\ tx[t].fresh = {}
      BY <1>4 DEF NextOf, FlushShape
    <3> QED BY <3>1 DEF Asks
  <2>2. tx[t].path \in {<<"rows">>, <<"rows", "insert">>} /\ Stage(t) = "rows"
    <3>1. Stage(t) \notin {"join", "node", "lease"}
      BY <1>4, Stages DEF FlushShape
    <3> QED BY <1>1, <2>1, <3>1, Stages
  <2> DEFINE next == NextOf(t, tx[t].left)
  <2>3. /\ tx[t].kind \in {"minted", "change"} /\ tx[t].fresh = {}
        /\ tx[t].kind = "change" => tx[t].left \subseteq kept
        /\ RowsOwned(tx[t])
        /\ tx[t].path = IF tx[t].kind = "minted" THEN <<"rows">> ELSE <<"rows", "insert">>
        /\ \A e \in tx[t].owns, s \in tx[t].left : e[2] < s
    BY <1>4, <2>2 DEF FlushShape
  <2>4. HasFields(Taken(t), tx[t].kind, tx[t].path, tx[t].left \ next, {},
                  tx[t].owns \cup ({Table(t)} \X next), tx[t].shares)
    <3>1. /\ Rest(t, "rows", tx[t].left) = tx[t].left \ next
          /\ Rest(t, "insert", tx[t].fresh) = {} /\ path = tx[t].path
          /\ Asks(t) = {Table(t)} \X next
      BY <2>2, <2>3 DEF Rest, path, Asks
    <3> QED BY <1>2, <3>1
  <2>5. /\ next \subseteq tx[t].left /\ tx[t].left \subseteq Nat /\ next \subseteq Key
        /\ \A x \in next, s \in tx[t].left \ next : x < s
    <3>1. tx[t].left \subseteq Key
      BY DEF LocksTypes, TxSet
    <3>2. tx[t].left \subseteq Nat
      BY <3>1, LocksConstants
    <3>3. next \subseteq tx[t].left /\ \A x \in next, s \in tx[t].left : x <= s
      BY DEF NextOf
    <3>4. ASSUME NEW x \in next, NEW s \in tx[t].left \ next PROVE x < s
      <4>1. x \in Nat /\ s \in Nat /\ x <= s /\ x # s
        BY <3>2, <3>3, <3>4
      <4> QED BY <4>1
    <3> QED BY <3>1, <3>2, <3>3, <3>4
  <2> HIDE DEF next
  <2>6. \A e \in tx[t].owns \cup ({Table(t)} \X next), s \in tx[t].left \ next : e[2] < s
    BY <2>3, <2>5
  <2>7. RowsOwned(Taken(t))
    BY <2>3, <2>4, <2>5 DEF RowsOwned, HasFields, Table
  <2> QED BY <1>4, <2>2, <2>3, <2>4, <2>5, <2>6, <2>7 DEF HasFields, Shape, FlushShape
<1>5. CASE t[2] = "membership" /\ MembershipShape(tx[t], t[1])
  <2>1. Stage(t) \in {"join", "node", "lease"}
    BY <1>1, <1>5, Stages DEF MembershipShape
  <2>2. Taken(t).kind = tx[t].kind /\ Taken(t).shares = tx[t].shares
        /\ Taken(t).owns = tx[t].owns \cup Asks(t) /\ Taken(t).path = Tail(tx[t].path)
    BY <1>2, <2>1 DEF HasFields, path
  <2>3. CASE Stage(t) = "join"
    <3>1. Asks(t) = {<<"join", "lock">>} /\ tx[t].path = <<"join", "node">>
      BY <2>3, Stages DEF Asks
    <3>2. Taken(t).path = <<"node">> /\ Taken(t).owns \subseteq {<<"join", "lock">>}
      BY <1>5, <2>2, <3>1, Tails DEF MembershipShape
    <3> QED BY <1>5, <2>2, <3>2 DEF Shape, MembershipShape
  <2>4. CASE Stage(t) = "node"
    <3>1. Asks(t) = {<<"node", t[1]>>} /\ tx[t].path \in {<<"node">>, <<"node", "lease">>}
      BY <2>4, Stages DEF Asks
    <3>2. CASE tx[t].path = <<"node">>
      <4>1. /\ Taken(t).path = <<>>
            /\ Taken(t).owns \subseteq {<<"node", t[1]>>, <<"join", "lock">>}
        BY <1>5, <2>2, <3>1, <3>2, Tails DEF MembershipShape
      <4> QED BY <1>5, <2>2, <4>1 DEF Shape, MembershipShape
    <3>3. CASE tx[t].path = <<"node", "lease">>
      <4>1. Taken(t).path = <<"lease">> /\ Taken(t).owns \subseteq {<<"node", t[1]>>}
        BY <1>5, <2>2, <3>1, <3>3, Tails DEF MembershipShape
      <4> QED BY <1>5, <2>2, <4>1 DEF Shape, MembershipShape
    <3> QED BY <3>1, <3>2, <3>3
  <2>5. CASE Stage(t) = "lease"
    <3>1. Asks(t) = {<<"lease", "service">>} /\ tx[t].path = <<"lease">>
      BY <2>5, Stages DEF Asks
    <3>2. /\ Taken(t).path = <<>>
          /\ Taken(t).owns \subseteq {<<"node", t[1]>>, <<"lease", "service">>}
      BY <1>5, <2>2, <3>1, Tails DEF MembershipShape
    <3> QED BY <1>5, <2>2, <3>2 DEF Shape, MembershipShape
  <2> QED BY <2>1, <2>3, <2>4, <2>5
<1> QED BY <1>3, <1>4, <1>5 DEF Shape

(* A step gives one transaction a shape and disturbs no other.             *)
LEMMA ShapeKept ==
  ASSUME OneOrder, LocksInv, [LocksNext]_lockvars
  PROVE  ShapeInv'
<1>1. CASE UNCHANGED lockvars
  BY <1>1 DEF lockvars, LocksInv, ShapeInv
<1>2. CASE LocksNext
  <2>1. LocksTypes /\ LocksTypes'
    BY TypesKept DEF LocksInv
  <2>2. PICK t \in Slots, r \in TxSet :
          kept \subseteq kept' /\ Becomes(t, r) /\ Shape(t, r, kept)
    <3>1. \A t \in Slots : Shape(t, tx[t], kept)
      BY DEF LocksInv, ShapeInv
    <3>2. ASSUME NEW t \in Slots, NEW kind \in Kinds, NEW rows \in SUBSET Key,
                 kind = "change" => rows \subseteq kept,
                 t[2] = IF kind \in {"heartbeat", "acquire", "join"} THEN "membership"
                        ELSE "store"
          PROVE  Begun(kind, rows) \in TxSet /\ Shape(t, Begun(kind, rows), kept)
      <4>1. HasFields(Begun(kind, rows), kind, Path[kind], rows, {}, {}, FALSE)
        BY BeginsOne
      <4> QED BY <3>2, <4>1, ShapeBegun DEF HasFields
    <3>3. ASSUME NEW t \in Slots, Stage(t) # "locked"
          PROVE  {Selected(t), Fenced(t), Taken(t), Moved(t)} \subseteq TxSet
      BY <2>1, <3>3, Fields DEF HasFields
    <3>4. ASSUME NEW t \in Slots, Asks(t) # {} PROVE Stage(t) # "locked"
      BY <3>4 DEF Asks
    <3>5. \A t \in Slots : Shape(t, NoTx, kept)
      BY DEF Shape
    <3> QED BY <1>2, <2>1, <3>1, <3>2, <3>3, <3>4, <3>5, LocksSteps, NoneIsOne,
               ShapeSelected, ShapeFenced, ShapeTaken, ShapeMoved
  <2>3. tx'[t] = r /\ \A u \in Slots : u # t => tx'[u] = tx[u]
    BY <2>1, <2>2, OneChanges DEF Becomes
  <2>4. ASSUME NEW u \in Slots PROVE Shape(u, tx'[u], kept')
    <3>1. Shape(u, tx'[u], kept)
      BY <2>2, <2>3 DEF LocksInv, ShapeInv
    <3> QED BY <2>2, <3>1, ShapeGrows
  <2> QED BY <2>4 DEF ShapeInv
<1> QED BY <1>1, <1>2

-----------------------------------------------------------------------------
(* No circle.                                                              *)

(* How far along the one order of locks t is: the row it waits for is the  *)
(* least of those left.                                                    *)
Level(t) == CASE Stage(t) = "node" -> 1
              [] Stage(t) \in {"fence", "lease"} -> 2
              [] Stage(t) = "rows" -> 3 + (CHOOSE n \in Nat : n \in NextOf(t, tx[t].left))
              [] OTHER -> 0

Waits(t) == \E u \in Slots : WaitsFor(t, u)

(* Every set of rows has a least one, and only one.                        *)
LEMMA LeastRow ==
  ASSUME NEW t, NEW rows \in SUBSET Nat, NEW x \in NextOf(t, rows)
  PROVE  NextOf(t, rows) = {x} /\ (CHOOSE n \in Nat : n \in NextOf(t, rows)) = x
<1>1. \A y \in NextOf(t, rows) : y \in Nat /\ y <= x /\ x <= y
  BY DEF NextOf
<1>2. x \in Nat
  BY DEF NextOf
<1>3. \A y \in NextOf(t, rows) : y = x
  BY <1>1, <1>2
<1>4. NextOf(t, rows) = {x}
  BY <1>3
<1> QED BY <1>2, <1>4

LEMMA LevelIsNat ==
  ASSUME LocksTypes, NEW t \in Slots
  PROVE  (Stage(t) = "rows" /\ Waits(t)) \/ Stage(t) # "rows" => Level(t) \in Nat
<1>1. CASE Stage(t) = "rows"
  <2>1. ASSUME Waits(t) PROVE Level(t) \in Nat
    <3>1. PICK x : x \in NextOf(t, tx[t].left)
      <4>1. Asks(t) # {}
        BY <1>1, <2>1 DEF Waits, WaitsFor
      <4>2. Asks(t) = {Table(t)} \X NextOf(t, tx[t].left)
        BY <1>1 DEF Asks
      <4> QED BY <4>1, <4>2
    <3>2. tx[t].left \in SUBSET Nat /\ x \in Nat
      BY <3>1, LocksConstants DEF LocksTypes, TxSet, NextOf
    <3>3. (CHOOSE n \in Nat : n \in NextOf(t, tx[t].left)) = x
      BY <3>1, <3>2, LeastRow
    <3>4. Level(t) = 3 + x
      BY <1>1, <3>3 DEF Level
    <3> QED BY <3>2, <3>4
  <2> QED BY <1>1, <2>1
<1>2. CASE Stage(t) # "rows"
  BY <1>2 DEF Level
<1> QED BY <1>1, <1>2

(* One that waits for a waiting one is less far along.                     *)
LEMMA WaitsClimb ==
  ASSUME LocksInv, NEW t \in Slots, NEW u \in Slots, WaitsFor(t, u), Waits(u)
  PROVE  Level(t) < Level(u)
<1>1. LocksTypes /\ Shape(t, tx[t], kept) /\ Shape(u, tx[u], kept)
  BY DEF LocksInv, ShapeInv
<1>2. /\ t # u /\ (Asks(t) # {} \/ Stage(t) = "lease")
      /\ Asks(u) # {} \/ Stage(u) = "lease"
  BY DEF WaitsFor, Waits
<1>3. ASSUME NEW v \in Slots, Asks(v) # {} \/ Stage(v) = "lease",
             Shape(v, tx[v], kept)
      PROVE  /\ Stage(v) \in {"fence", "rows", "join", "node", "lease"}
             /\ Stage(v) \in {"join", "node", "lease"} =>
                  v[2] = "membership" /\ MembershipShape(tx[v], v[1])
             /\ Stage(v) \in {"fence", "rows"} => v[2] = "store" /\ FlushShape(tx[v], kept)
  <2>1. Stage(v) \in {"fence", "rows", "join", "node", "lease", "insert"}
    BY <1>1, <1>3, Stages DEF Asks
  <2>2. tx[v] # NoTx
    <3>1. SUFFICES ASSUME tx[v] = NoTx PROVE Stage(v) = "locked"
      BY <2>1
    <3> QED BY <3>1 DEF NoTx, Stage
  <2>3. Stage(v) # "insert"
    <3>1. SUFFICES ASSUME Stage(v) = "insert" PROVE FALSE
      OBVIOUS
    <3>2. tx[v].path = <<"insert">>
      BY <1>1, <3>1, Stages
    <3>3. ~MembershipShape(tx[v], v[1])
      BY <3>2 DEF MembershipShape
    <3>4. tx[v].fresh = {}
      BY <1>3, <2>2, <3>3 DEF Shape, FlushShape
    <3>5. NextOf(v, {}) = {}
      BY DEF NextOf
    <3>6. Asks(v) = {Table(v)} \X NextOf(v, tx[v].fresh)
      BY <3>1 DEF Asks
    <3> QED BY <1>3, <3>1, <3>4, <3>5, <3>6
  <2>4. Stage(v) \in {"join", "node", "lease"} => ~FlushShape(tx[v], kept)
    BY <1>1, Stages DEF FlushShape
  <2>5. Stage(v) \in {"fence", "rows"} => ~MembershipShape(tx[v], v[1])
    BY <1>1, Stages DEF MembershipShape
  <2> QED BY <1>3, <2>1, <2>2, <2>3, <2>4, <2>5 DEF Shape
<1>4. /\ Stage(t) \in {"fence", "rows", "join", "node", "lease"}
      /\ Stage(u) \in {"fence", "rows", "join", "node", "lease"}
  BY <1>1, <1>2, <1>3
<1>5. Level(t) \in Nat /\ Level(u) \in Nat
  BY <1>1, LevelIsNat DEF Waits
<1>6. CASE Stage(t) = "join"
  <2>1. <<"join", "lock">> \in tx[u].owns
    BY <1>6 DEF WaitsFor, Asks
  <2>2. ~(Stage(u) \in {"fence", "rows"})
    <3>1. SUFFICES ASSUME FlushShape(tx[u], kept) PROVE FALSE
      BY <1>1, <1>2, <1>3
    <3> QED BY <2>1, <3>1 DEF FlushShape, RowsOwned
  <2>3. Stage(u) # "join"
    <3>1. SUFFICES ASSUME Stage(u) = "join" PROVE FALSE
      OBVIOUS
    <3>2. MembershipShape(tx[u], u[1]) /\ tx[u].path = <<"join", "node">>
      BY <1>1, <1>2, <1>3, <3>1, Stages
    <3> QED BY <2>1, <3>2 DEF MembershipShape
  <2>4. Stage(u) \in {"node", "lease"}
    BY <1>4, <2>2, <2>3
  <2> QED BY <1>6, <2>4 DEF Level
<1>7. CASE Stage(t) = "node"
  <2>1. <<"node", t[1]>> \in tx[u].owns
    BY <1>7 DEF WaitsFor, Asks
  <2>2. u[2] = "membership" /\ MembershipShape(tx[u], u[1])
    <3>1. ~FlushShape(tx[u], kept)
      BY <2>1 DEF FlushShape, RowsOwned
    <3> QED BY <1>1, <1>2, <1>3, <1>4, <3>1
  <2>3. u[1] = t[1]
    BY <2>1, <2>2 DEF MembershipShape
  <2>4. t[2] = "membership"
    BY <1>1, <1>2, <1>3, <1>7
  <2> QED BY <1>2, <2>2, <2>3, <2>4 DEF Slots
<1>8. CASE Stage(t) \in {"fence", "lease"}
  <2>1. \/ <<"lease", "service">> \in tx[u].owns
        \/ tx[u].shares
    BY <1>8 DEF WaitsFor, Asks
  <2>2. Stage(u) \notin {"join", "node", "lease"}
    <3>1. SUFFICES ASSUME MembershipShape(tx[u], u[1]), Stage(u) \in {"join", "node", "lease"}
                   PROVE  FALSE
      BY <1>1, <1>2, <1>3
    <3>2. tx[u].path \in {<<"join", "node">>, <<"node">>, <<"node", "lease">>, <<"lease">>}
      BY <1>1, <3>1, Stages
    <3> QED BY <2>1, <3>1, <3>2 DEF MembershipShape
  <2>3. FlushShape(tx[u], kept)
    BY <1>1, <1>2, <1>3, <1>4, <2>2
  <2>4. tx[u].shares
    BY <2>1, <2>3 DEF FlushShape, RowsOwned
  <2>5. Stage(u) # "fence"
    <3>1. SUFFICES ASSUME Stage(u) = "fence" PROVE FALSE
      OBVIOUS
    <3>2. tx[u].path \in {<<"fence", "rows">>, <<"fence", "select", "rows", "insert">>,
                          <<"fence", "join", "node">>}
      BY <1>1, <3>1, Stages
    <3> QED BY <2>3, <2>4, <3>2 DEF FlushShape
  <2>6. Stage(u) = "rows"
    BY <1>4, <2>2, <2>5
  <2>7. PICK x : x \in NextOf(u, tx[u].left)
    <3>1. Asks(u) = {Table(u)} \X NextOf(u, tx[u].left)
      BY <2>6 DEF Asks
    <3> QED BY <1>2, <2>6, <3>1
  <2>8. x \in Nat /\ (CHOOSE n \in Nat : n \in NextOf(u, tx[u].left)) = x
    <3>1. tx[u].left \in SUBSET Nat
      BY <1>1, LocksConstants DEF LocksTypes, TxSet
    <3>2. x \in Nat
      BY <2>7, <3>1 DEF NextOf
    <3> QED BY <2>7, <3>1, <3>2, LeastRow
  <2>9. Level(t) = 2 /\ Level(u) = 3 + x
    BY <1>8, <2>6, <2>8 DEF Level
  <2> QED BY <2>8, <2>9
<1>9. CASE Stage(t) = "rows"
  <2>1. Asks(t) = {Table(t)} \X NextOf(t, tx[t].left)
    BY <1>9 DEF Asks
  <2>2. PICK x \in NextOf(t, tx[t].left) : <<Table(t), x>> \in tx[u].owns
    BY <1>9, <2>1 DEF WaitsFor
  <2>3. Table(t) \in {"minted", "entry"}
    BY DEF Table
  <2>4. FlushShape(tx[u], kept)
    <3>1. ~MembershipShape(tx[u], u[1])
      BY <2>2, <2>3 DEF MembershipShape
    <3> QED BY <1>1, <1>2, <1>3, <1>4, <3>1
  <2>5. Stage(u) = "rows"
    <3>1. Stage(u) # "fence"
      <4>1. SUFFICES ASSUME Stage(u) = "fence" PROVE FALSE
        OBVIOUS
      <4>2. tx[u].path \in {<<"fence", "rows">>, <<"fence", "select", "rows", "insert">>,
                            <<"fence", "join", "node">>}
        BY <1>1, <4>1, Stages
      <4> QED BY <2>2, <2>4, <4>2 DEF FlushShape
    <3>2. Stage(u) \notin {"join", "node", "lease"}
      BY <1>1, <2>4, Stages DEF FlushShape
    <3> QED BY <1>4, <3>1, <3>2
  <2>6. \A e \in tx[u].owns, s \in tx[u].left : e[2] < s
    <3>1. tx[u].path \in {<<"rows">>, <<"rows", "insert">>}
      BY <1>1, <2>5, Stages
    <3>2. /\ tx[u].path \notin {<<"fence", "rows">>, <<"fence", "select", "rows", "insert">>}
          /\ tx[u].path \notin {<<"select", "rows", "insert">>, <<"insert">>, <<>>}
      <4>1. CASE tx[u].path = <<"rows">>
        BY <4>1
      <4>2. CASE tx[u].path = <<"rows", "insert">>
        BY <4>2
      <4> QED BY <3>1, <4>1, <4>2
    <3> QED BY <2>4, <3>2 DEF FlushShape
  <2>7. PICK y : y \in NextOf(u, tx[u].left)
    <3>1. Asks(u) = {Table(u)} \X NextOf(u, tx[u].left)
      BY <2>5 DEF Asks
    <3> QED BY <1>2, <2>5, <3>1
  <2>8. /\ x \in Nat /\ (CHOOSE n \in Nat : n \in NextOf(t, tx[t].left)) = x
        /\ y \in Nat /\ (CHOOSE n \in Nat : n \in NextOf(u, tx[u].left)) = y
    <3>1. tx[u].left \in SUBSET Nat /\ tx[t].left \in SUBSET Nat
      BY <1>1, LocksConstants DEF LocksTypes, TxSet
    <3>2. x \in Nat /\ y \in Nat
      BY <2>2, <2>7, <3>1 DEF NextOf
    <3> QED BY <2>2, <2>7, <3>1, <3>2, LeastRow
  <2>9. x < y
    <3>1. y \in tx[u].left
      BY <2>7 DEF NextOf
    <3>2. <<Table(t), x>>[2] < y
      BY <2>2, <2>6, <3>1
    <3> QED BY <3>2
  <2>10. Level(t) = 3 + x /\ Level(u) = 3 + y
    BY <1>9, <2>5, <2>8 DEF Level
  <2> QED BY <2>8, <2>9, <2>10
<1> QED BY <1>4, <1>6, <1>7, <1>8, <1>9

(* A finite set with a number for each member has one no other exceeds.    *)
LEMMA FiniteHighest ==
  ASSUME NEW T, IsFiniteSet(T), T # {}, NEW f, \A t \in T : f[t] \in Nat
  PROVE  \E t \in T : \A u \in T : ~(f[t] < f[u])
<1> DEFINE above(t) == {u \in T : f[t] < f[u]}
           Subs == {above(t) : t \in T}
<1>1. IsWellFoundedOn(StrictSubsetOrdering(T), SUBSET T)
  BY FS_StrictSubsetOrderingWellFounded, FS_FiniteSubsetsOfFinite
<1>2. Subs \subseteq SUBSET T /\ Subs # {}
  OBVIOUS
<1>3. PICK S \in Subs : \A U \in Subs : ~(<<U, S>> \in StrictSubsetOrdering(T))
  <2> HIDE DEF Subs
  <2> QED BY <1>1, <1>2, WFMin
<1>4. PICK t \in T : S = above(t)
  BY <1>3
<1>5. ASSUME NEW u \in T, f[t] < f[u] PROVE FALSE
  <2>1. above(u) \subseteq above(t)
    <3>1. \A v \in T : f[u] < f[v] => f[t] < f[v]
      BY <1>5
    <3> QED BY <3>1
  <2>2. u \in above(t) /\ u \notin above(u)
    BY <1>5
  <2>3. above(u) \in SUBSET T /\ above(t) \in SUBSET T /\ above(u) \in Subs
    OBVIOUS
  <2>4. ~(<<above(u), above(t)>> \in StrictSubsetOrdering(T))
    BY <1>3, <1>4, <2>3
  <2> HIDE DEF above
  <2>5. above(u) # above(t)
    BY <2>2
  <2> QED BY <2>1, <2>3, <2>4, <2>5 DEF StrictSubsetOrdering
<1> QED BY <1>5

(* So no transactions wait for one another in a circle.                    *)
LEMMA CircleNever ==
  ASSUME OneOrder, LocksInv
  PROVE  NoCircle
<1>1. SUFFICES ASSUME NEW T \in SUBSET Slots, T # {},
                      \A t \in T : \E u \in T : WaitsFor(t, u)
               PROVE  FALSE
  <2>1. SUFFICES ASSUME NEW T \in (SUBSET Slots) \ {{}}
                 PROVE  \E t \in T : \A u \in T : ~WaitsFor(t, u)
    BY DEF NoCircle
  <2>2. T \in SUBSET Slots /\ T # {}
    OBVIOUS
  <2> QED BY <1>1, <2>2, Zenon
<1>2. IsFiniteSet(T)
  <2>1. IsFiniteSet({"store", "membership"})
    <3>1. IsFiniteSet({} \cup {"store"})
      BY FS_EmptySet, FS_AddElement
    <3>2. IsFiniteSet(({} \cup {"store"}) \cup {"membership"})
      BY <3>1, FS_AddElement
    <3>3. ({} \cup {"store"}) \cup {"membership"} = {"store", "membership"}
      OBVIOUS
    <3> QED BY <3>2, <3>3
  <2>2. IsFiniteSet(Slots)
    BY <2>1, FS_Product DEF OneOrder, Slots
  <2> QED BY <1>1, <2>2, FS_Subset
<1>3. \A t \in T : t \in Slots /\ Waits(t)
  BY <1>1 DEF Waits
<1> DEFINE f == [t \in T |-> Level(t)]
<1>4. \A t \in T : f[t] = Level(t) /\ f[t] \in Nat
  BY <1>3, LevelIsNat DEF LocksInv
<1> HIDE DEF f
<1>5. PICK t \in T : \A u \in T : ~(f[t] < f[u])
  BY <1>1, <1>2, <1>4, FiniteHighest
<1>6. PICK u \in T : WaitsFor(t, u)
  BY <1>1
<1>7. Level(t) < Level(u)
  BY <1>3, <1>6, WaitsClimb
<1> QED BY <1>4, <1>5, <1>7

(* THEOREM.  The transactions of a running service never wait in a circle  *)
(* of the store's locks, which is what saveMinted, saveDirectory and the   *)
(* statements of the membership order their locks for.  The kinds left out *)
(* do: a flush that creates entries locks the rows it finds before the     *)
(* rows it adds, and the agreement fences before the lock of the joiners.  *)
THEOREM LocksNeverCircle ==
  ASSUME OneOrder
  PROVE  LocksSpec => []NoCircle
<1>1. LocksInit => LocksInv
  BY NoneIsOne DEF LocksInit, LocksInv, LocksTypes, ShapeInv, Shape
<1>2. LocksInv /\ [LocksNext]_lockvars => LocksInv'
  BY TypesKept, ShapeKept DEF LocksInv
<1>3. LocksInv => NoCircle
  BY CircleNever
<1> QED BY <1>1, <1>2, <1>3, PTL DEF LocksSpec
=============================================================================
