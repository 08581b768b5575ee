---------------------------- MODULE MintedProofs ----------------------------
(***************************************************************************)
(* Proofs about Minted, for any processes, keys, parties and bounds: what  *)
(* is stored only moves forward, and what a process wrote is journalled,   *)
(* in flight or stored.                                                    *)
(***************************************************************************)
EXTENDS Minted, FiniteSetTheorems, TLAPS

Rows == LiveRows \cup {Gone}

Batches == [stage : {"idle", "taken", "written"}, at : Nat, keys : SUBSET Handle,
            body : [Handle -> Rows], refused : SUBSET Handle, merged : SUBSET Handle]

(* MintedTypeOK, and the types of the flush in flight.                     *)
MintedTypes ==
  /\ MintedTypeOK
  /\ batch \in [Minter -> Batches]
  /\ \A n \in Minter : \A k \in batch[n].merged : batch[n].body[k] \in LiveRows

(* Where a write of k stands at n.  Not written yet: it is what memory has,*)
(* and its generation is not committed, nor covered by the flush in flight *)
(* if it is newer than that.  Taken and not written again: it is what the  *)
(* flush has.  Anything else: the row covers it.                           *)
KeyInv(n, k) ==
  /\ batch[n].stage = "written" /\ k \in batch[n].refused => minted[k] = Tombstone
  /\ mark[n][k] > 0 =>
       /\ Unwritten(n, k) => mark[n][k] > committedAt[n]
       /\ k \in noted[n] /\ batch[n].stage # "idle" => mark[n][k] > batch[n].at
  /\ mark[n][k] > 0 /\ k \notin displaced[n] =>
       /\ Unwritten(n, k) => memory[n][k] = wrote[n][k]
       /\ batch[n].stage = "taken" /\ k \in batch[n].keys \ noted[n]
            => batch[n].body[k] = wrote[n][k]
       /\ ~Unwritten(n, k) => Covers(minted[k], wrote[n][k])
       /\ batch[n].stage = "written" /\ k \in batch[n].keys \ noted[n]
            => Covers(minted[k], wrote[n][k])

KeysInv == \A n \in Minter, k \in Handle : KeyInv(n, k)

MintedInv == MintedTypes /\ KeysInv

-----------------------------------------------------------------------------
(* Rows.                                                                   *)

(* A live row has a rank and parties, and nothing else is live.            *)
LEMMA RowFields ==
  /\ \A x \in LiveRows : /\ IsLive(x) /\ x.rank \in 1..MaxWrites /\ x.rank \in Nat
                         /\ x.parties \subseteq Party
  /\ ~IsLive(Gone) /\ ~IsLive(Tombstone) /\ ~IsLive(Unread)
  /\ Gone # Tombstone /\ Gone # Unread /\ Tombstone # Unread
  /\ Gone.rank = 0 /\ Gone.parties = {}
<1>1. \A x \in LiveRows : /\ IsLive(x) /\ x.rank \in 1..MaxWrites /\ x.rank \in Nat
                          /\ x.parties \subseteq Party
  BY MintedConstants DEF LiveRows, Row, IsLive
<1>2. /\ Gone.state = "none" /\ Tombstone.state = "ended" /\ Unread.state = "unread"
      /\ Gone.rank = 0 /\ Gone.parties = {}
  BY DEF Gone, Tombstone, Unread
<1> QED BY <1>1, <1>2 DEF IsLive

LEMMA RowIsLive ==
  ASSUME NEW r \in 1..MaxWrites, NEW P \in SUBSET Party
  PROVE  Row(r, P) \in LiveRows /\ Row(r, P).rank = r /\ Row(r, P).parties = P
BY DEF LiveRows, Row

(* A live row with another rank, or with other parties.                    *)
LEMMA RowChanged ==
  ASSUME NEW x \in LiveRows, NEW r \in 1..MaxWrites, NEW P \in SUBSET Party
  PROVE  [x EXCEPT !.rank = r] \in LiveRows /\ [x EXCEPT !.parties = P] \in LiveRows
<1>1. PICK q \in 1..MaxWrites, Q \in SUBSET Party : x = Row(q, Q)
  BY DEF LiveRows
<1>2. [x EXCEPT !.rank = r] = Row(r, Q) /\ [x EXCEPT !.parties = P] = Row(q, P)
  BY <1>1 DEF Row
<1> QED BY <1>2, RowIsLive

(* Merging two rows, one of them live, is at or past both.                 *)
LEMMA MergeIsPast ==
  ASSUME NEW x \in Rows, NEW y \in Rows, IsLive(x) \/ IsLive(y)
  PROVE  LET z == MergeRows(x, y)
         IN  /\ z \in LiveRows
             /\ x.rank <= z.rank /\ x.parties \subseteq z.parties
             /\ y.rank <= z.rank /\ y.parties \subseteq z.parties
<1> DEFINE r == IF x.rank >= y.rank THEN x.rank ELSE y.rank
           P == x.parties \cup y.parties
<1>1. /\ x \in LiveRows \/ y \in LiveRows
      /\ x.rank \in Nat /\ y.rank \in Nat /\ x.rank <= MaxWrites /\ y.rank <= MaxWrites
      /\ x.parties \subseteq Party /\ y.parties \subseteq Party
  BY RowFields, MintedConstants DEF Rows
<1>2. x.rank >= 1 \/ y.rank >= 1
  BY <1>1, RowFields, MintedConstants
<1>3. r \in 1..MaxWrites /\ P \in SUBSET Party /\ x.rank <= r /\ y.rank <= r
  BY <1>1, <1>2, MintedConstants
<1> HIDE DEF r, P
<1>4. Row(r, P) \in LiveRows /\ Row(r, P).rank = r /\ Row(r, P).parties = P
  BY <1>3, RowIsLive
<1>5. MergeRows(x, y) = Row(r, P)
  BY DEF MergeRows, r, P
<1>6. x.parties \subseteq P /\ y.parties \subseteq P
  BY DEF P
<1> QED BY <1>3, <1>4, <1>5, <1>6

(* A row that covers a write covers it when the row has moved forward.     *)
LEMMA CoversStable ==
  ASSUME NEW old \in Rows \cup {Tombstone}, NEW new \in Rows \cup {Tombstone}, NEW mine \in Rows,
         Covers(old, mine), StepsForward(old, new)
  PROVE  Covers(new, mine)
<1>1. CASE old = Tombstone
  BY <1>1 DEF StepsForward, Covers
<1>2. CASE IsLive(old) /\ IsLive(mine) /\ mine.rank <= old.rank /\ mine.parties \subseteq old.parties
  <2>1. CASE new = Tombstone
    BY <2>1 DEF Covers
  <2>2. CASE IsLive(new) /\ new.rank >= old.rank /\ old.parties \subseteq new.parties
    <3>1. old \in LiveRows /\ new \in LiveRows /\ mine \in LiveRows
      BY <1>2, <2>2, RowFields DEF Rows
    <3>2. mine.rank <= new.rank
      BY <1>2, <2>2, <3>1, RowFields
    <3> QED BY <1>2, <2>2, <3>2 DEF Covers
  <2> QED BY <1>2, <2>1, <2>2 DEF StepsForward
<1> QED BY <1>1, <1>2 DEF Covers

(* A row covers itself, if it is live.                                     *)
LEMMA CoversItself ==
  ASSUME NEW x \in LiveRows
  PROVE  Covers(x, x)
BY RowFields DEF Covers

LEMMA StepsForwardStays ==
  ASSUME NEW x \in Rows \cup {Tombstone}
  PROVE  StepsForward(x, x)
<1>1. IsLive(x) => x \in LiveRows
  BY RowFields DEF Rows
<1> QED BY <1>1, RowFields DEF StepsForward

-----------------------------------------------------------------------------
(* The flush.                                                              *)

(* No flush in flight.                                                     *)
LEMMA NoBatchIsIdle ==
  /\ NoBatch \in Batches /\ NoBatch.stage = "idle"
  /\ NoBatch.keys = {} /\ NoBatch.refused = {} /\ NoBatch.merged = {}
BY DEF NoBatch, Batches, Rows

LEMMA MintedInitInv == MintedInit => MintedInv
<1> SUFFICES ASSUME MintedInit PROVE MintedInv
  OBVIOUS
<1>1. /\ NoBatch \in Batches /\ NoBatch.stage = "idle"
      /\ NoBatch.keys = {} /\ NoBatch.refused = {} /\ NoBatch.merged = {}
  BY NoBatchIsIdle
<1>2. \A n \in Minter : batch[n] = NoBatch
  BY DEF MintedInit
<1>3. MintedTypeOK
  <2>1. \A n \in Minter : /\ batch[n].stage = "idle"
                          /\ batch[n].refused \cup batch[n].merged \subseteq batch[n].keys
                          /\ committedAt[n] <= generation[n]
    BY <1>1, <1>2 DEF MintedInit
  <2> QED BY <2>1 DEF MintedInit, MintedTypeOK
<1>4. batch \in [Minter -> Batches] /\ \A n \in Minter : batch[n].merged = {}
  BY <1>1, <1>2 DEF MintedInit
<1>5. KeysInv
  BY <1>1, <1>2 DEF MintedInit, KeysInv, KeyInv, Unwritten
<1> QED BY <1>3, <1>4, <1>5 DEF MintedInv, MintedTypes

(* The types of the parts, by name.                                        *)
LEMMA TypesOf ==
  ASSUME MintedTypes, NEW n \in Minter
  PROVE  /\ batch[n] \in Batches /\ batch[n].keys \subseteq Handle /\ batch[n].at \in Nat
         /\ batch[n].stage \in {"idle", "taken", "written"}
         /\ batch[n].refused \subseteq batch[n].keys /\ batch[n].merged \subseteq batch[n].keys
         /\ generation[n] \in Nat /\ committedAt[n] \in Nat /\ committedAt[n] <= generation[n]
         /\ batch[n].stage # "idle" => batch[n].at <= generation[n]
         /\ noted[n] \subseteq Handle
         /\ \A k \in Handle : /\ memory[n][k] \in Rows /\ wrote[n][k] \in Rows
                              /\ batch[n].body[k] \in Rows /\ mark[n][k] \in Nat
                              /\ minted[k] \in Rows \cup {Tombstone}
<1>1. batch[n] \in Batches
  BY DEF MintedTypes
<1>2. /\ batch[n].keys \subseteq Handle /\ batch[n].at \in Nat
      /\ batch[n].stage \in {"idle", "taken", "written"}
      /\ \A k \in Handle : batch[n].body[k] \in Rows
  BY <1>1 DEF Batches
<1>3. /\ batch[n].refused \subseteq batch[n].keys /\ batch[n].merged \subseteq batch[n].keys
      /\ generation[n] \in Nat /\ committedAt[n] \in Nat /\ committedAt[n] <= generation[n]
      /\ batch[n].stage # "idle" => batch[n].at <= generation[n]
  BY DEF MintedTypes, MintedTypeOK
<1>4. /\ noted[n] \subseteq Handle
      /\ \A k \in Handle : /\ memory[n][k] \in Rows /\ wrote[n][k] \in Rows /\ mark[n][k] \in Nat
                           /\ minted[k] \in Rows \cup {Tombstone}
  BY DEF MintedTypes, MintedTypeOK, Rows
<1> QED BY <1>1, <1>2, <1>3, <1>4

(* What saveMinted does to the row of k, when the object it merges is mine.*)
LEMMA SavedIsPast ==
  ASSUME MintedTypes, NEW n \in Minter, NEW k \in Handle, ~Refused(n, k),
         NEW mine \in Mine(n, k)
  PROVE  LET row == Saved(n, k, mine)
         IN  /\ row \in LiveRows \cup {Tombstone}
             /\ StepsForward(minted[k], row)
             /\ Covers(row, batch[n].body[k])
             /\ IsLive(batch[n].body[k]) => row \in LiveRows
<1> DEFINE body == batch[n].body[k]
           row == Saved(n, k, mine)
<1>1. body \in Rows /\ minted[k] \in Rows \cup {Tombstone} /\ memory[n][k] \in Rows
  BY TypesOf
<1> HIDE DEF body
<1>2. CASE ~IsLive(body)
  <2>1. row = Tombstone
    BY <1>2 DEF Saved, body
  <2> HIDE DEF row
  <2>2. StepsForward(minted[k], row) /\ Covers(row, body)
    BY <2>1 DEF StepsForward, Covers
  <2> QED BY <1>2, <2>1, <2>2 DEF body, row
<1>3. CASE IsLive(body) /\ IsLive(minted[k])
  <2>1. body \in LiveRows /\ minted[k] \in LiveRows
    BY <1>1, <1>3, RowFields DEF Rows
  <2>2. mine \in LiveRows /\ body.rank <= mine.rank /\ body.parties \subseteq mine.parties
    <3>1. CASE mine = body
      BY <2>1, <3>1, RowFields
    <3>2. CASE IsLive(memory[n][k]) /\ mine = MergeRows(body, memory[n][k])
      BY <1>1, <1>3, <3>2, MergeIsPast
    <3> QED BY <3>1, <3>2 DEF Mine, body
  <2>3. row = MergeRows(mine, minted[k])
    BY <1>3 DEF Saved, body
  <2> HIDE DEF row
  <2>4. /\ row \in LiveRows /\ mine.rank <= row.rank /\ mine.parties \subseteq row.parties
        /\ minted[k].rank <= row.rank /\ minted[k].parties \subseteq row.parties
    BY <2>1, <2>2, <2>3, RowFields, MergeIsPast DEF Rows
  <2>5. IsLive(row) /\ minted[k] # Tombstone /\ body.rank <= row.rank
        /\ minted[k].rank \in Nat /\ row.rank \in Nat
    BY <2>1, <2>2, <2>4, RowFields
  <2>6. StepsForward(minted[k], row)
    BY <2>4, <2>5 DEF StepsForward
  <2>7. Covers(row, body)
    BY <1>3, <2>2, <2>4, <2>5 DEF Covers
  <2> QED BY <2>4, <2>6, <2>7 DEF body, row
<1>4. CASE IsLive(body) /\ ~IsLive(minted[k])
  <2>1. body \in LiveRows /\ row = body /\ minted[k] # Tombstone
    BY <1>1, <1>4, RowFields DEF Rows, Saved, Refused, body
  <2> HIDE DEF row
  <2>2. StepsForward(minted[k], row) /\ Covers(row, body)
    BY <1>4, <2>1, CoversItself DEF StepsForward
  <2> QED BY <2>1, <2>2 DEF body, row
<1> QED BY <1>2, <1>3, <1>4

(* A whole flush: no row goes back, every key of it is covered or was      *)
(* refused by a tombstone, and the batch keeps what it took but for the    *)
(* rows merged.                                                            *)
LEMMA SaveMintedDoes ==
  ASSUME MintedTypes, NEW n \in Minter, SaveMinted(n)
  PROVE  /\ minted' \in [Handle -> LiveRows \cup {Gone, Tombstone}]
         /\ \A k \in Handle : StepsForward(minted[k], minted'[k])
         /\ \A k \in batch[n].keys : Covers(minted'[k], batch[n].body[k])
         /\ batch' \in [Minter -> Batches]
         /\ \A m \in Minter : m # n => batch'[m] = batch[m]
         /\ batch'[n].stage = "written" /\ batch'[n].at = batch[n].at
         /\ batch'[n].keys = batch[n].keys
         /\ batch'[n].refused \subseteq batch[n].keys /\ batch'[n].merged \subseteq batch[n].keys
         /\ \A k \in batch'[n].refused : minted'[k] = Tombstone
         /\ \A k \in batch'[n].merged : batch'[n].body[k] \in LiveRows
<1> DEFINE keys == batch[n].keys
           refused == {k \in keys : Refused(n, k)}
           merged == {k \in keys \ refused : IsLive(batch[n].body[k]) /\ IsLive(minted[k])}
<1>1. PICK mine \in [keys -> UNION {Mine(n, k) : k \in keys}] :
        LET row == [k \in Handle |-> IF k \in keys \ refused
                                     THEN Saved(n, k, mine[k]) ELSE minted[k]]
        IN  /\ \A k \in keys : mine[k] \in Mine(n, k)
            /\ minted' = row
            /\ batch' = [batch EXCEPT ![n].stage = "written", ![n].refused = refused,
                           ![n].merged = merged,
                           ![n].body = [k \in Handle |-> IF k \in merged THEN row[k] ELSE @[k]]]
  BY DEF SaveMinted
<1> DEFINE body == [k \in Handle |-> IF k \in merged THEN minted'[k] ELSE batch[n].body[k]]
           new == [batch[n] EXCEPT !.stage = "written", !.refused = refused,
                                   !.merged = merged, !.body = body]
<1>2. /\ \A k \in keys : mine[k] \in Mine(n, k)
      /\ minted' = [k \in Handle |-> IF k \in keys \ refused
                                     THEN Saved(n, k, mine[k]) ELSE minted[k]]
  BY <1>1
<1>3. batch' = [batch EXCEPT ![n] = new]
  BY <1>1
<1>4. keys \subseteq Handle /\ refused \subseteq keys /\ merged \subseteq keys
  BY TypesOf
<1>5. \A k \in keys \ refused :
        /\ minted'[k] \in LiveRows \cup {Tombstone}
        /\ StepsForward(minted[k], minted'[k])
        /\ Covers(minted'[k], batch[n].body[k])
        /\ IsLive(batch[n].body[k]) => minted'[k] \in LiveRows
  <2> TAKE k \in keys \ refused
  <2>1. k \in Handle /\ ~Refused(n, k) /\ mine[k] \in Mine(n, k)
    BY <1>2, <1>4
  <2>2. minted'[k] = Saved(n, k, mine[k])
    BY <1>2, <2>1
  <2> QED BY <2>1, <2>2, SavedIsPast
<1>6. \A k \in Handle : k \notin keys \ refused => minted'[k] = minted[k]
  BY <1>2
<1>7. \A k \in refused : minted'[k] = Tombstone
  BY <1>4, <1>6 DEF Refused
<1>8. \A k \in Handle : minted'[k] \in LiveRows \cup {Gone, Tombstone}
  BY <1>5, <1>6, TypesOf DEF Rows
<1>9. minted' \in [Handle -> LiveRows \cup {Gone, Tombstone}]
  BY <1>2, <1>8
<1>10. \A k \in Handle : StepsForward(minted[k], minted'[k])
  BY <1>5, <1>6, TypesOf, StepsForwardStays
<1>11. \A k \in keys : Covers(minted'[k], batch[n].body[k])
  BY <1>5, <1>7 DEF Covers
<1>12. \A k \in merged : minted'[k] \in LiveRows
  BY <1>5
<1> HIDE DEF keys, refused, merged
<1>13. body \in [Handle -> Rows]
  BY <1>12, TypesOf DEF Rows
<1>14. \A k \in merged : body[k] \in LiveRows
  BY <1>4, <1>12
<1> HIDE DEF body
<1>15. /\ new \in Batches /\ new.stage = "written" /\ new.at = batch[n].at /\ new.keys = keys
       /\ new.refused = refused /\ new.merged = merged /\ new.body = body
  BY <1>4, <1>13, TypesOf DEF Batches, keys
<1> HIDE DEF new
<1>16. batch' \in [Minter -> Batches] /\ batch'[n] = new
       /\ \A m \in Minter : m # n => batch'[m] = batch[m]
  BY <1>3, <1>15 DEF MintedTypes
<1> QED BY <1>4, <1>7, <1>9, <1>10, <1>11, <1>14, <1>15, <1>16 DEF keys

-----------------------------------------------------------------------------
(* The invariant, step by step.                                            *)

(* A step that leaves what n has of k alone, and moves no row back.        *)
LEMMA KeyLeftAlone ==
  ASSUME MintedTypes, NEW n \in Minter, NEW k \in Handle, KeyInv(n, k),
         minted'[k] \in Rows \cup {Tombstone}, StepsForward(minted[k], minted'[k]),
         k \in noted'[n] <=> k \in noted[n], k \in displaced'[n] <=> k \in displaced[n],
         UNCHANGED <<batch[n], committedAt[n], mark[n][k], wrote[n][k], memory[n][k]>>
  PROVE  KeyInv(n, k)'
<1>1. minted[k] = Tombstone => minted'[k] = Tombstone
  BY DEF StepsForward
<1>2. Covers(minted[k], wrote[n][k]) => Covers(minted'[k], wrote[n][k])
  BY TypesOf, CoversStable
<1>3. Unwritten(n, k)' <=> Unwritten(n, k)
  BY DEF Unwritten
<1> QED BY <1>1, <1>2, <1>3 DEF KeyInv

(* A local write is journalled, and newer than anything committed or taken.*)
LEMMA WritesKeepsInv ==
  ASSUME MintedInv, NEW n \in Minter, NEW k \in Handle, NEW row \in Rows, Writes(n, k, row),
         ended' \in [Minter -> [Handle -> Nat]]
  PROVE  MintedInv'
<1> USE DEF MintedInv
<1>1. /\ memory' = [memory EXCEPT ![n][k] = row]
      /\ noted' = [noted EXCEPT ![n] = @ \cup {k}]
      /\ generation' = [generation EXCEPT ![n] = @ + 1]
      /\ mark' = [mark EXCEPT ![n][k] = generation[n] + 1]
      /\ wrote' = [wrote EXCEPT ![n][k] = row]
      /\ displaced' = [displaced EXCEPT ![n] = @ \ {k}]
      /\ UNCHANGED <<minted, committedAt, batch, unread, page, mishaps>>
      /\ writes' = writes + 1
  BY DEF Writes
<1>2. generation[n] + 1 \in Nat
  BY TypesOf
<1>3. MintedTypes'
  <2>1. memory' \in [Minter -> [Handle -> Rows]] /\ wrote' \in [Minter -> [Handle -> Rows]]
    BY <1>1 DEF MintedTypes, MintedTypeOK, Rows
  <2>2. noted' \in [Minter -> SUBSET Handle] /\ displaced' \in [Minter -> SUBSET Handle]
    BY <1>1 DEF MintedTypes, MintedTypeOK
  <2>3. generation' \in [Minter -> Nat] /\ mark' \in [Minter -> [Handle -> Nat]] /\ writes' \in Nat
    BY <1>1, <1>2 DEF MintedTypes, MintedTypeOK
  <2>4. \A m \in Minter : /\ generation[m] <= generation'[m]
                          /\ generation[m] \in Nat /\ generation'[m] \in Nat
    BY <1>1, <1>2 DEF MintedTypes, MintedTypeOK
  <2>5. \A m \in Minter :
          /\ batch'[m].stage \in {"idle", "taken", "written"}
          /\ committedAt'[m] <= generation'[m]
          /\ batch'[m].stage # "idle" => batch'[m].at <= generation'[m]
          /\ batch'[m].refused \cup batch'[m].merged \subseteq batch'[m].keys
    BY <1>1, <2>4, TypesOf
  <2>6. MintedTypeOK'
    BY <1>1, <2>1, <2>2, <2>3, <2>5 DEF MintedTypes, MintedTypeOK, Rows
  <2> QED BY <1>1, <2>6 DEF MintedTypes
<1>4. ASSUME NEW m \in Minter, NEW j \in Handle PROVE KeyInv(m, j)'
  <2>1. CASE m = n /\ j = k
    <3>1. /\ mark'[n][k] = generation[n] + 1 /\ k \in noted'[n] /\ k \notin displaced'[n]
          /\ memory'[n][k] = row /\ wrote'[n][k] = row
          /\ batch'[n] = batch[n] /\ committedAt'[n] = committedAt[n] /\ minted'[k] = minted[k]
      BY <1>1 DEF MintedTypes, MintedTypeOK
    <3>2. mark'[n][k] > committedAt'[n] /\ (batch'[n].stage # "idle" => mark'[n][k] > batch'[n].at)
      BY <3>1, TypesOf
    <3>3. KeyInv(n, k)
      BY DEF KeysInv
    <3> QED BY <2>1, <3>1, <3>2, <3>3 DEF KeyInv, Unwritten
  <2>2. CASE m # n \/ j # k
    <3>1. /\ j \in noted'[m] <=> j \in noted[m]
          /\ j \in displaced'[m] <=> j \in displaced[m]
          /\ UNCHANGED <<batch[m], committedAt[m], mark[m][j], wrote[m][j], memory[m][j], minted[j]>>
      BY <1>1, <2>2 DEF MintedTypes, MintedTypeOK
    <3>2. minted'[j] \in Rows \cup {Tombstone} /\ StepsForward(minted[j], minted'[j])
      BY <3>1, TypesOf, StepsForwardStays
    <3> QED BY <3>1, <3>2, KeyLeftAlone DEF KeysInv
  <2> QED BY <2>1, <2>2
<1> QED BY <1>3, <1>4 DEF KeysInv

LEMMA LocalKeepsInv ==
  ASSUME MintedInv, NEW n \in Minter, NEW k \in Handle,
         \/ Arrive(n, k) \/ SignIn(n, k) \/ SignOut(n, k)
         \/ \E p \in Party : NoteParty(n, k, p)
  PROVE  MintedInv'
<1>1. ended \in [Minter -> [Handle -> Nat]] /\ memory[n][k] \in Rows /\ generation[n] + 1 \in Nat
      /\ (IsLive(memory[n][k]) => memory[n][k] \in LiveRows) /\ writes \in Nat
  BY TypesOf, RowFields DEF MintedInv, MintedTypes, MintedTypeOK, Rows
<1>2. ASSUME Arrive(n, k) PROVE MintedInv'
  <2>1. writes < MaxWrites /\ Writes(n, k, Row(1, {})) /\ UNCHANGED ended
    BY <1>2 DEF Arrive, Writes
  <2>2. Row(1, {}) \in Rows
    BY <1>1, <2>1, MintedConstants, RowIsLive DEF Rows
  <2> QED BY <1>1, <2>1, <2>2, WritesKeepsInv
<1>3. ASSUME SignIn(n, k) PROVE MintedInv'
  <2> DEFINE row == [memory[n][k] EXCEPT !.rank = writes + 1]
  <2>1. writes < MaxWrites /\ IsLive(memory[n][k]) /\ Writes(n, k, row) /\ UNCHANGED ended
    BY <1>3 DEF SignIn, Writes
  <2>2. row \in Rows
    <3>1. memory[n][k] \in LiveRows /\ writes + 1 \in 1..MaxWrites
      BY <1>1, <2>1, MintedConstants
    <3> QED BY <3>1, RowChanged DEF Rows
  <2> HIDE DEF row
  <2> QED BY <1>1, <2>1, <2>2, WritesKeepsInv
<1>4. ASSUME NEW p \in Party, NoteParty(n, k, p) PROVE MintedInv'
  <2> DEFINE row == [memory[n][k] EXCEPT !.parties = @ \cup {p}]
  <2>1. IsLive(memory[n][k]) /\ Writes(n, k, row) /\ UNCHANGED ended
    BY <1>4 DEF NoteParty
  <2>2. row \in Rows
    <3>1. memory[n][k] \in LiveRows /\ memory[n][k].parties \cup {p} \in SUBSET Party
          /\ memory[n][k].rank \in 1..MaxWrites
      BY <1>1, <2>1, RowFields
    <3> QED BY <3>1, RowChanged DEF Rows
  <2> HIDE DEF row
  <2> QED BY <1>1, <2>1, <2>2, WritesKeepsInv
<1>5. ASSUME SignOut(n, k) PROVE MintedInv'
  <2>1. Writes(n, k, Gone) /\ ended' = [ended EXCEPT ![n][k] = generation[n] + 1]
    BY <1>5 DEF SignOut
  <2>2. Gone \in Rows /\ ended' \in [Minter -> [Handle -> Nat]]
    BY <1>1, <2>1 DEF Rows
  <2> QED BY <2>1, <2>2, WritesKeepsInv
<1> QED BY <1>2, <1>3, <1>4, <1>5

(* The flush takes the journal, and with it what memory has.               *)
LEMMA TakeJournalKeepsInv ==
  ASSUME MintedInv, NEW n \in Minter, TakeJournal(n)
  PROVE  MintedInv'
<1> USE DEF MintedInv
<1> DEFINE new == [NoBatch EXCEPT !.stage = "taken", !.at = generation[n],
                                  !.keys = noted[n], !.body = memory[n]]
<1>1. /\ batch[n].stage = "idle"
      /\ batch' = [batch EXCEPT ![n] = new]
      /\ noted' = [noted EXCEPT ![n] = {}]
      /\ UNCHANGED <<minted, memory, generation, committedAt, unread, page, mark, wrote, ended,
                     displaced, writes, mishaps>>
  BY DEF TakeJournal
<1>2. /\ new.stage = "taken" /\ new.at = generation[n] /\ new.keys = noted[n]
      /\ new.body = memory[n] /\ new.refused = {} /\ new.merged = {}
  BY DEF NoBatch
<1>3. new \in Batches
  <2>1. memory[n] \in [Handle -> Rows] /\ noted[n] \in SUBSET Handle /\ generation[n] \in Nat
    BY DEF MintedTypes, MintedTypeOK, Rows
  <2>2. NoBatch \in Batches
    BY NoBatchIsIdle
  <2> QED BY <2>1, <2>2 DEF Batches
<1> HIDE DEF new
<1>4. /\ batch' \in [Minter -> Batches] /\ batch'[n] = new
      /\ \A m \in Minter : m # n => batch'[m] = batch[m]
  BY <1>1, <1>3 DEF MintedTypes
<1>5. MintedTypes'
  <2>1. noted' \in [Minter -> SUBSET Handle]
    BY <1>1 DEF MintedTypes, MintedTypeOK
  <2>2. \A m \in Minter :
          /\ batch'[m].stage \in {"idle", "taken", "written"}
          /\ committedAt'[m] <= generation'[m]
          /\ batch'[m].stage # "idle" => batch'[m].at <= generation'[m]
          /\ batch'[m].refused \cup batch'[m].merged \subseteq batch'[m].keys
    BY <1>1, <1>2, <1>4, TypesOf
  <2>3. MintedTypeOK'
    BY <1>1, <2>1, <2>2 DEF MintedTypes, MintedTypeOK
  <2>4. \A m \in Minter : \A k \in batch'[m].merged : batch'[m].body[k] \in LiveRows
    BY <1>2, <1>4 DEF MintedTypes
  <2> QED BY <1>4, <2>3, <2>4 DEF MintedTypes
<1>6. ASSUME NEW m \in Minter, NEW k \in Handle PROVE KeyInv(m, k)'
  <2>1. KeyInv(m, k)
    BY DEF KeysInv
  <2>2. CASE m = n
    <3>1. noted'[n] = {} /\ (Unwritten(n, k)' <=> k \in noted[n]) /\ (Unwritten(n, k) <=> k \in noted[n])
      BY <1>1, <1>2, <1>4 DEF MintedTypes, MintedTypeOK, Unwritten
    <3> QED BY <1>1, <1>2, <1>4, <2>1, <2>2, <3>1 DEF KeyInv
  <2>3. CASE m # n
    <3>1. noted'[m] = noted[m] /\ batch'[m] = batch[m]
      BY <1>1, <1>4, <2>3 DEF MintedTypes, MintedTypeOK
    <3>2. minted'[k] \in Rows \cup {Tombstone} /\ StepsForward(minted[k], minted'[k])
      BY <1>1, TypesOf, StepsForwardStays
    <3> QED BY <1>1, <2>1, <3>1, <3>2, KeyLeftAlone
  <2> QED BY <2>2, <2>3
<1> QED BY <1>5, <1>6 DEF KeysInv

(* Its transaction commits: every row it took is covered.                  *)
LEMMA SaveMintedKeepsInv ==
  ASSUME MintedInv, NEW n \in Minter, SaveMinted(n)
  PROVE  MintedInv'
<1> USE DEF MintedInv
<1>1. /\ batch[n].stage = "taken"
      /\ unread' = [m \in Minter |-> IF m = n THEN unread[m]
           ELSE unread[m] \cup (batch[n].keys \ {k \in batch[n].keys : Refused(n, k)})]
      /\ UNCHANGED <<memory, noted, generation, committedAt, page, mark, wrote, ended, displaced,
                     writes, mishaps>>
  BY DEF SaveMinted
<1>2. /\ minted' \in [Handle -> LiveRows \cup {Gone, Tombstone}]
      /\ \A k \in Handle : StepsForward(minted[k], minted'[k])
      /\ \A k \in batch[n].keys : Covers(minted'[k], batch[n].body[k])
      /\ batch' \in [Minter -> Batches]
      /\ \A m \in Minter : m # n => batch'[m] = batch[m]
      /\ batch'[n].stage = "written" /\ batch'[n].at = batch[n].at
      /\ batch'[n].keys = batch[n].keys
      /\ batch'[n].refused \subseteq batch[n].keys /\ batch'[n].merged \subseteq batch[n].keys
      /\ \A k \in batch'[n].refused : minted'[k] = Tombstone
      /\ \A k \in batch'[n].merged : batch'[n].body[k] \in LiveRows
  BY SaveMintedDoes
<1>3. MintedTypes'
  <2>1. unread' \in [Minter -> SUBSET Handle]
    BY <1>1, TypesOf DEF MintedTypes, MintedTypeOK
  <2>2. \A m \in Minter :
          /\ batch'[m].stage \in {"idle", "taken", "written"}
          /\ committedAt'[m] <= generation'[m]
          /\ batch'[m].stage # "idle" => batch'[m].at <= generation'[m]
          /\ batch'[m].refused \cup batch'[m].merged \subseteq batch'[m].keys
    BY <1>1, <1>2, TypesOf
  <2>3. MintedTypeOK'
    BY <1>1, <1>2, <2>1, <2>2 DEF MintedTypes, MintedTypeOK
  <2>4. \A m \in Minter : \A k \in batch'[m].merged : batch'[m].body[k] \in LiveRows
    BY <1>2 DEF MintedTypes
  <2> QED BY <1>2, <2>3, <2>4 DEF MintedTypes
<1>4. ASSUME NEW m \in Minter, NEW k \in Handle PROVE KeyInv(m, k)'
  <2>1. KeyInv(m, k)
    BY DEF KeysInv
  <2>2. minted'[k] \in Rows \cup {Tombstone} /\ StepsForward(minted[k], minted'[k])
    BY <1>2 DEF Rows
  <2>3. CASE m = n
    <3>1. Unwritten(n, k)' <=> Unwritten(n, k)
      BY <1>1, <1>2 DEF Unwritten
    <3>2. Covers(minted[k], wrote[n][k]) => Covers(minted'[k], wrote[n][k])
      BY <2>2, TypesOf, CoversStable
    <3>3. k \in batch[n].keys => Covers(minted'[k], batch[n].body[k])
      BY <1>2
    <3>4. k \in batch'[n].refused => minted'[k] = Tombstone
      BY <1>2
    <3> QED BY <1>1, <1>2, <2>1, <2>3, <3>1, <3>2, <3>3, <3>4 DEF KeyInv
  <2>4. CASE m # n
    BY <1>1, <1>2, <2>1, <2>2, <2>4, KeyLeftAlone
  <2> QED BY <2>3, <2>4
<1> QED BY <1>3, <1>4 DEF KeysInv

(* The flush settles: what it took and nobody wrote again is covered, and  *)
(* so is what was refused.                                                 *)
LEMMA SettleDecidedKeepsInv ==
  ASSUME MintedInv, NEW n \in Minter, SettleDecided(n)
  PROVE  MintedInv'
<1> USE DEF MintedInv
<1> DEFINE mem == [k \in Handle |->
              IF k \in batch[n].refused THEN Gone
              ELSE IF k \in batch[n].merged \ noted[n] THEN batch[n].body[k] ELSE memory[n][k]]
           at == IF committedAt[n] < batch[n].at THEN batch[n].at ELSE committedAt[n]
<1>1. /\ batch[n].stage = "written"
      /\ memory' = [memory EXCEPT ![n] = mem]
      /\ noted' = [noted EXCEPT ![n] = @ \ batch[n].refused]
      /\ committedAt' = [committedAt EXCEPT ![n] = at]
      /\ batch' = [batch EXCEPT ![n] = NoBatch]
      /\ UNCHANGED <<minted, generation, unread, page, mark, wrote, ended, displaced, writes, mishaps>>
  BY DEF SettleDecided
<1>2. mem \in [Handle -> Rows]
  BY TypesOf DEF Rows
<1>3. at \in Nat /\ at <= generation[n] /\ at >= committedAt[n]
      /\ \A i \in Nat : i > at <=> i > committedAt[n] /\ i > batch[n].at
  BY <1>1, TypesOf
<1>4. \A k \in noted[n] \ batch[n].refused : mem[k] = memory[n][k]
  BY TypesOf
<1> HIDE DEF mem, at
<1>5. /\ NoBatch \in Batches /\ NoBatch.stage = "idle"
      /\ NoBatch.keys = {} /\ NoBatch.refused = {} /\ NoBatch.merged = {}
  BY NoBatchIsIdle
<1>6. /\ batch' \in [Minter -> Batches] /\ batch'[n] = NoBatch
      /\ \A m \in Minter : m # n => batch'[m] = batch[m]
  BY <1>1, <1>5 DEF MintedTypes
<1>7. MintedTypes'
  <2>1. noted' \in [Minter -> SUBSET Handle] /\ committedAt' \in [Minter -> Nat]
    BY <1>1, <1>3 DEF MintedTypes, MintedTypeOK
  <2>2. memory' \in [Minter -> [Handle -> LiveRows \cup {Gone}]]
    BY <1>1, <1>2 DEF MintedTypes, MintedTypeOK, Rows
  <2>3. \A m \in Minter :
          /\ batch'[m].stage \in {"idle", "taken", "written"}
          /\ committedAt'[m] <= generation'[m]
          /\ batch'[m].stage # "idle" => batch'[m].at <= generation'[m]
          /\ batch'[m].refused \cup batch'[m].merged \subseteq batch'[m].keys
    <3> TAKE m \in Minter
    <3>1. CASE m = n
      BY <1>1, <1>3, <1>5, <1>6, <3>1 DEF MintedTypes, MintedTypeOK
    <3>2. CASE m # n
      BY <1>1, <1>6, <3>2, TypesOf DEF MintedTypes, MintedTypeOK
    <3> QED BY <3>1, <3>2
  <2>4. MintedTypeOK'
    BY <1>1, <2>1, <2>2, <2>3 DEF MintedTypes, MintedTypeOK
  <2>5. \A m \in Minter : \A k \in batch'[m].merged : batch'[m].body[k] \in LiveRows
    BY <1>5, <1>6 DEF MintedTypes
  <2> QED BY <1>6, <2>4, <2>5 DEF MintedTypes
<1>8. ASSUME NEW m \in Minter, NEW k \in Handle PROVE KeyInv(m, k)'
  <2>1. KeyInv(m, k)
    BY DEF KeysInv
  <2>2. CASE m = n
    <3>1. /\ noted'[n] = noted[n] \ batch[n].refused /\ committedAt'[n] = at
          /\ memory'[n] = mem /\ batch'[n].stage = "idle"
          /\ mark'[n][k] = mark[n][k] /\ mark[n][k] \in Nat
      BY <1>1, <1>5, <1>6, TypesOf DEF MintedTypes, MintedTypeOK
    <3>2. Unwritten(n, k)' <=> k \in noted[n] \ batch[n].refused
      BY <3>1 DEF Unwritten
    <3>3. Unwritten(n, k) <=> k \in noted[n] \cup batch[n].keys
      BY <1>1 DEF Unwritten
    <3>4. k \in batch[n].refused => Covers(minted[k], wrote[n][k])
      BY <1>1, <2>1, <2>2 DEF KeyInv, Covers
    <3>5. k \in noted[n] => mem[k] = memory[n][k] \/ k \in batch[n].refused
      BY <1>4
    <3>6. mark[n][k] > 0 /\ k \in noted[n] => mark[n][k] > at
      BY <1>1, <1>3, <2>1, <2>2, <3>1, <3>3 DEF KeyInv
    <3>7. mark[n][k] > 0 /\ k \notin displaced[n] /\ k \notin noted[n] \ batch[n].refused
            => Covers(minted[k], wrote[n][k])
      <4> SUFFICES ASSUME mark[n][k] > 0, k \notin displaced[n], k \notin noted[n]
                   PROVE  Covers(minted[k], wrote[n][k])
        BY <3>4
      <4>1. ~Unwritten(n, k) \/ (batch[n].stage = "written" /\ k \in batch[n].keys \ noted[n])
        BY <1>1, <3>3
      <4> QED BY <2>1, <2>2, <4>1 DEF KeyInv
    <3>8. mark[n][k] > 0 /\ k \notin displaced[n] /\ k \in noted[n] \ batch[n].refused
            => mem[k] = wrote[n][k]
      BY <2>1, <2>2, <3>3, <3>5 DEF KeyInv
    <3> QED BY <1>1, <2>2, <3>1, <3>2, <3>6, <3>7, <3>8 DEF KeyInv
  <2>3. CASE m # n
    <3>1. UNCHANGED <<batch[m], committedAt[m], noted[m], memory[m]>>
      BY <1>1, <1>6, <2>3 DEF MintedTypes, MintedTypeOK
    <3>2. minted'[k] \in Rows \cup {Tombstone} /\ StepsForward(minted[k], minted'[k])
      BY <1>1, TypesOf, StepsForwardStays
    <3> QED BY <1>1, <2>1, <3>1, <3>2, KeyLeftAlone
  <2> QED BY <2>2, <2>3
<1> QED BY <1>7, <1>8 DEF KeysInv

(* It failed, before or after it committed: its keys go back.              *)
LEMMA SaveFailsKeepsInv ==
  ASSUME MintedInv, NEW n \in Minter, SaveFails(n)
  PROVE  MintedInv'
<1> USE DEF MintedInv
<1> DEFINE count == Cardinality(batch[n].keys)
<1>1. /\ batch[n].stage # "idle" /\ mishaps' = mishaps + 1
      /\ noted' = [noted EXCEPT ![n] = noted[n] \cup batch[n].keys]
      /\ generation' = [generation EXCEPT ![n] = @ + count]
      /\ batch' = [batch EXCEPT ![n] = NoBatch]
      /\ UNCHANGED <<minted, memory, committedAt, unread, page, mark, wrote, ended, displaced, writes>>
  BY DEF SaveFails, PutBack
<1>2. count \in Nat
  BY MintedConstants, TypesOf, FS_Subset, FS_CardinalityType
<1> HIDE DEF count
<1>3. /\ NoBatch \in Batches /\ NoBatch.stage = "idle"
      /\ NoBatch.keys = {} /\ NoBatch.refused = {} /\ NoBatch.merged = {}
  BY NoBatchIsIdle
<1>4. /\ batch' \in [Minter -> Batches] /\ batch'[n] = NoBatch
      /\ \A m \in Minter : m # n => batch'[m] = batch[m]
  BY <1>1, <1>3 DEF MintedTypes
<1>5. MintedTypes'
  <2>1. noted' \in [Minter -> SUBSET Handle] /\ generation' \in [Minter -> Nat] /\ mishaps' \in Nat
    BY <1>1, <1>2, TypesOf DEF MintedTypes, MintedTypeOK
  <2>2. \A m \in Minter : /\ generation[m] <= generation'[m]
                          /\ generation[m] \in Nat /\ generation'[m] \in Nat
    BY <1>1, <1>2 DEF MintedTypes, MintedTypeOK
  <2>3. \A m \in Minter :
          /\ batch'[m].stage \in {"idle", "taken", "written"}
          /\ committedAt'[m] <= generation'[m]
          /\ batch'[m].stage # "idle" => batch'[m].at <= generation'[m]
          /\ batch'[m].refused \cup batch'[m].merged \subseteq batch'[m].keys
    BY <1>1, <1>3, <1>4, <2>2, TypesOf
  <2>4. MintedTypeOK'
    BY <1>1, <2>1, <2>3 DEF MintedTypes, MintedTypeOK
  <2>5. \A m \in Minter : \A k \in batch'[m].merged : batch'[m].body[k] \in LiveRows
    BY <1>3, <1>4 DEF MintedTypes
  <2> QED BY <1>4, <2>4, <2>5 DEF MintedTypes
<1>6. ASSUME NEW m \in Minter, NEW k \in Handle PROVE KeyInv(m, k)'
  <2>1. KeyInv(m, k)
    BY DEF KeysInv
  <2>2. CASE m = n
    <3>1. noted'[n] = noted[n] \cup batch[n].keys /\ batch'[n].stage = "idle"
      BY <1>1, <1>3, <1>4 DEF MintedTypes, MintedTypeOK
    <3>2. (Unwritten(n, k)' <=> k \in noted'[n]) /\ (Unwritten(n, k) <=> k \in noted'[n])
      BY <1>1, <3>1 DEF Unwritten
    <3> QED BY <1>1, <2>1, <2>2, <3>1, <3>2 DEF KeyInv
  <2>3. CASE m # n
    <3>1. UNCHANGED <<batch[m], noted[m]>>
      BY <1>1, <1>4, <2>3 DEF MintedTypes, MintedTypeOK
    <3>2. minted'[k] \in Rows \cup {Tombstone} /\ StepsForward(minted[k], minted'[k])
      BY <1>1, TypesOf, StepsForwardStays
    <3> QED BY <1>1, <2>1, <3>1, <3>2, KeyLeftAlone
  <2> QED BY <2>2, <2>3
<1> QED BY <1>5, <1>6 DEF KeysInv

(* Another process's row is put over memory: over a write that is not      *)
(* written yet only by displacing it.                                      *)
LEMMA ApplyChangeKeepsInv ==
  ASSUME MintedInv, NEW n \in Minter, NEW k \in Handle, ApplyChange(n, k)
  PROVE  MintedInv'
<1> USE DEF MintedInv
<1>1. /\ page[n][k] # Unread
      /\ memory' = [memory EXCEPT ![n][k] = Restored(page[n][k])]
      /\ page' = [page EXCEPT ![n][k] = Unread]
      /\ displaced' = [displaced EXCEPT ![n] = IF Unwritten(n, k) THEN @ \cup {k} ELSE @]
      /\ UNCHANGED <<minted, noted, generation, committedAt, batch, unread, mark, wrote, ended,
                     writes, mishaps>>
  BY DEF ApplyChange
<1>2. Restored(page[n][k]) \in Rows
  <2>1. page[n][k] \in LiveRows \cup {Gone, Tombstone, Unread}
    BY DEF MintedTypes, MintedTypeOK
  <2> QED BY <2>1, RowFields DEF Restored, Rows
<1>3. MintedTypes'
  <2>1. memory' \in [Minter -> [Handle -> LiveRows \cup {Gone}]]
    BY <1>1, <1>2 DEF MintedTypes, MintedTypeOK, Rows
  <2>2. page' \in [Minter -> [Handle -> LiveRows \cup {Gone, Tombstone, Unread}]]
        /\ displaced' \in [Minter -> SUBSET Handle]
    BY <1>1 DEF MintedTypes, MintedTypeOK
  <2>3. MintedTypeOK'
    BY <1>1, <2>1, <2>2 DEF MintedTypes, MintedTypeOK
  <2> QED BY <1>1, <2>3 DEF MintedTypes
<1>4. ASSUME NEW m \in Minter, NEW j \in Handle PROVE KeyInv(m, j)'
  <2>1. KeyInv(m, j)
    BY DEF KeysInv
  <2>2. CASE m = n /\ j = k
    <3>1. Unwritten(n, k)' <=> Unwritten(n, k)
      BY <1>1 DEF Unwritten
    <3>2. k \in displaced'[n] <=> Unwritten(n, k) \/ k \in displaced[n]
      BY <1>1 DEF MintedTypes, MintedTypeOK
    <3>3. k \in noted[n] => Unwritten(n, k)
      BY DEF Unwritten
    <3>4. batch[n].stage # "idle" /\ k \in batch[n].keys => Unwritten(n, k)
      BY DEF Unwritten
    <3> QED BY <1>1, <2>1, <2>2, <3>1, <3>2, <3>3, <3>4 DEF KeyInv
  <2>3. CASE m # n \/ j # k
    <3>1. memory'[m][j] = memory[m][j] /\ (j \in displaced'[m] <=> j \in displaced[m])
      BY <1>1, <2>3 DEF MintedTypes, MintedTypeOK
    <3>2. minted'[j] \in Rows \cup {Tombstone} /\ StepsForward(minted[j], minted'[j])
      BY <1>1, TypesOf, StepsForwardStays
    <3> QED BY <1>1, <2>1, <3>1, <3>2, KeyLeftAlone
  <2> QED BY <2>2, <2>3
<1> QED BY <1>3, <1>4 DEF KeysInv

LEMMA ReadPageKeepsInv ==
  ASSUME MintedInv, NEW n \in Minter, ReadPage(n)
  PROVE  MintedInv'
<1> USE DEF MintedInv
<1>1. /\ page' = [page EXCEPT ![n] = [k \in Handle |-> IF k \in unread[n] THEN minted[k] ELSE Unread]]
      /\ unread' = [unread EXCEPT ![n] = {}]
      /\ UNCHANGED <<minted, memory, noted, generation, committedAt, batch, mark, wrote, ended,
                     displaced, writes, mishaps>>
  BY DEF ReadPage
<1>2. MintedTypes'
  <2>1. page' \in [Minter -> [Handle -> LiveRows \cup {Gone, Tombstone, Unread}]]
        /\ unread' \in [Minter -> SUBSET Handle]
    BY <1>1 DEF MintedTypes, MintedTypeOK
  <2>2. MintedTypeOK'
    BY <1>1, <2>1 DEF MintedTypes, MintedTypeOK
  <2> QED BY <1>1, <2>2 DEF MintedTypes
<1>3. KeysInv'
  BY <1>1 DEF KeysInv, KeyInv, Unwritten
<1> QED BY <1>2, <1>3

(* A process that starts again has written nothing yet.                    *)
LEMMA StartAgainKeepsInv ==
  ASSUME MintedInv, NEW n \in Minter, StartAgain(n)
  PROVE  MintedInv'
<1> USE DEF MintedInv
<1>1. /\ mishaps' = mishaps + 1
      /\ memory' = [memory EXCEPT ![n] = [k \in Handle |-> Restored(minted[k])]]
      /\ noted' = [noted EXCEPT ![n] = {}] /\ batch' = [batch EXCEPT ![n] = NoBatch]
      /\ generation' = [generation EXCEPT ![n] = 0] /\ committedAt' = [committedAt EXCEPT ![n] = 0]
      /\ unread' = [unread EXCEPT ![n] = {}]
      /\ page' = [page EXCEPT ![n] = [k \in Handle |-> Unread]]
      /\ mark' = [mark EXCEPT ![n] = [k \in Handle |-> 0]]
      /\ wrote' = [wrote EXCEPT ![n] = [k \in Handle |-> Gone]]
      /\ ended' = [ended EXCEPT ![n] = [k \in Handle |-> 0]]
      /\ displaced' = [displaced EXCEPT ![n] = {}]
      /\ UNCHANGED <<minted, writes>>
  BY DEF StartAgain
<1>2. /\ NoBatch \in Batches /\ NoBatch.stage = "idle"
      /\ NoBatch.keys = {} /\ NoBatch.refused = {} /\ NoBatch.merged = {}
  BY NoBatchIsIdle
<1>3. /\ batch' \in [Minter -> Batches] /\ batch'[n] = NoBatch
      /\ \A m \in Minter : m # n => batch'[m] = batch[m]
  BY <1>1, <1>2 DEF MintedTypes
<1>4. MintedTypes'
  <2>1. [k \in Handle |-> Restored(minted[k])] \in [Handle -> Rows]
    BY TypesOf, RowFields DEF Restored, Rows
  <2>2. memory' \in [Minter -> [Handle -> LiveRows \cup {Gone}]]
    BY <1>1, <2>1 DEF MintedTypes, MintedTypeOK, Rows
  <2>3. /\ noted' \in [Minter -> SUBSET Handle] /\ unread' \in [Minter -> SUBSET Handle]
        /\ displaced' \in [Minter -> SUBSET Handle]
        /\ generation' \in [Minter -> Nat] /\ committedAt' \in [Minter -> Nat] /\ mishaps' \in Nat
    BY <1>1 DEF MintedTypes, MintedTypeOK
  <2>4. /\ page' \in [Minter -> [Handle -> LiveRows \cup {Gone, Tombstone, Unread}]]
        /\ wrote' \in [Minter -> [Handle -> LiveRows \cup {Gone}]]
        /\ mark' \in [Minter -> [Handle -> Nat]] /\ ended' \in [Minter -> [Handle -> Nat]]
    BY <1>1 DEF MintedTypes, MintedTypeOK
  <2>5. \A m \in Minter :
          /\ batch'[m].stage \in {"idle", "taken", "written"}
          /\ committedAt'[m] <= generation'[m]
          /\ batch'[m].stage # "idle" => batch'[m].at <= generation'[m]
          /\ batch'[m].refused \cup batch'[m].merged \subseteq batch'[m].keys
    <3> TAKE m \in Minter
    <3>1. CASE m = n
      BY <1>1, <1>2, <1>3, <3>1 DEF MintedTypes, MintedTypeOK
    <3>2. CASE m # n
      BY <1>1, <1>3, <3>2, TypesOf DEF MintedTypes, MintedTypeOK
    <3> QED BY <3>1, <3>2
  <2>6. MintedTypeOK'
    BY <1>1, <2>2, <2>3, <2>4, <2>5 DEF MintedTypes, MintedTypeOK
  <2>7. \A m \in Minter : \A k \in batch'[m].merged : batch'[m].body[k] \in LiveRows
    BY <1>2, <1>3 DEF MintedTypes
  <2> QED BY <1>3, <2>6, <2>7 DEF MintedTypes
<1>5. ASSUME NEW m \in Minter, NEW k \in Handle PROVE KeyInv(m, k)'
  <2>1. CASE m = n
    <3>1. mark'[n][k] = 0 /\ batch'[n].stage = "idle"
      BY <1>1, <1>2, <1>3 DEF MintedTypes, MintedTypeOK
    <3> QED BY <2>1, <3>1 DEF KeyInv
  <2>2. CASE m # n
    <3>1. UNCHANGED <<batch[m], noted[m], committedAt[m], memory[m], mark[m], wrote[m], displaced[m]>>
      BY <1>1, <1>3, <2>2 DEF MintedTypes, MintedTypeOK
    <3>2. minted'[k] \in Rows \cup {Tombstone} /\ StepsForward(minted[k], minted'[k])
      BY <1>1, TypesOf, StepsForwardStays
    <3> QED BY <3>1, <3>2, KeyLeftAlone DEF KeysInv
  <2> QED BY <2>1, <2>2
<1> QED BY <1>4, <1>5 DEF KeysInv

LEMMA MintedStepInv == MintedInv /\ [MintedNext]_mvars => MintedInv'
<1> SUFFICES ASSUME MintedInv, [MintedNext]_mvars PROVE MintedInv'
  OBVIOUS
<1>1. CASE UNCHANGED mvars
  BY <1>1 DEF MintedInv, MintedTypes, MintedTypeOK, KeysInv, KeyInv, Unwritten, mvars
<1>2. CASE MintedNext
  BY <1>2, LocalKeepsInv, TakeJournalKeepsInv, SaveMintedKeepsInv, SettleDecidedKeepsInv,
     SaveFailsKeepsInv, ApplyChangeKeepsInv, ReadPageKeepsInv, StartAgainKeepsInv DEF MintedNext
<1> QED BY <1>1, <1>2

LEMMA MintedAlways == MintedSpec => []MintedInv
BY MintedInitInv, MintedStepInv, PTL DEF MintedSpec

-----------------------------------------------------------------------------
(* What the runs check of it.                                              *)

(* Rows, journals, flushes and pages keep their types, for any processes   *)
(* and keys.                                                               *)
THEOREM MintedTyping == MintedSpec => []MintedTypeOK
BY MintedAlways, PTL DEF MintedInv, MintedTypes

(* Only a flush changes a row, and it never takes one back: ranks and      *)
(* parties grow, and a tombstone stays, whatever copies the processes hold *)
(* and in whatever order they write them (saveMinted, mergeSessionRows).   *)
THEOREM StoredOnlyForward == MintedSpec => OnlyForward
<1>1. MintedInv /\ [MintedNext]_mvars
        => [\A k \in Handle : StepsForward(minted[k], minted'[k])]_minted
  <2> SUFFICES ASSUME MintedInv, MintedNext, minted' # minted
               PROVE  \A k \in Handle : StepsForward(minted[k], minted'[k])
    BY DEF mvars
  <2>1. PICK n \in Minter :
          \/ \E k \in Handle : \/ Arrive(n, k) \/ SignIn(n, k) \/ SignOut(n, k)
                               \/ \E p \in Party : NoteParty(n, k, p)
                               \/ ApplyChange(n, k)
          \/ TakeJournal(n) \/ SaveMinted(n) \/ SettleDecided(n) \/ SaveFails(n)
          \/ ReadPage(n) \/ StartAgain(n)
    BY Zenon DEF MintedNext
  <2>2. \A k \in Handle : /\ ~Arrive(n, k) /\ ~SignIn(n, k) /\ ~SignOut(n, k) /\ ~ApplyChange(n, k)
                          /\ \A p \in Party : ~NoteParty(n, k, p)
    BY DEF Arrive, SignIn, SignOut, NoteParty, Writes, ApplyChange
  <2>3. /\ ~TakeJournal(n) /\ ~SettleDecided(n) /\ ~SaveFails(n)
        /\ ~ReadPage(n) /\ ~StartAgain(n)
    BY DEF TakeJournal, SettleDecided, SaveFails, ReadPage, StartAgain
  <2>4. SaveMinted(n)
    BY <2>1, <2>2, <2>3
  <2> QED BY <2>4, SaveMintedDoes DEF MintedInv
<1> QED BY <1>1, MintedAlways, PTL DEF MintedSpec, OnlyForward

(* A write is journalled, in flight or stored, unless another process's    *)
(* row displaced it - whatever flushes fail, before they committed or      *)
(* after (note, flush and its failure path).                               *)
THEOREM WritesStayAccounted == MintedSpec => []WritesAccounted
<1>1. MintedInv => WritesAccounted
  BY DEF MintedInv, KeysInv, KeyInv, WritesAccounted
<1> QED BY <1>1, MintedAlways, PTL

(* Once the generation of a write is committed, the write is stored.       *)
THEOREM CommittedMeansStored == MintedSpec => []CommittedWrites
<1>1. MintedInv => CommittedWrites
  <2> SUFFICES ASSUME MintedInv, NEW n \in Minter, NEW k \in Handle, mark[n][k] > 0,
                      committedAt[n] >= mark[n][k], k \notin displaced[n]
               PROVE  Covers(minted[k], wrote[n][k])
    BY DEF CommittedWrites
  <2>1. KeyInv(n, k) /\ ~Unwritten(n, k)
    BY TypesOf DEF MintedInv, KeysInv, KeyInv
  <2> QED BY <2>1 DEF KeyInv
<1> QED BY <1>1, MintedAlways, PTL
=============================================================================
