------------------------------- MODULE Minted -------------------------------
(***************************************************************************)
(* What the processes mint - sessions, codes, tokens - and how it is       *)
(* written down: persistence/persistence_minted.js over sts_minted, for a  *)
(* store declared with a tombstone and a row merge (common/realms.js), as  *)
(* authn.sessions is.                                                      *)
(*                                                                         *)
(* Every set() and delete() names its key in a journal.  A flush takes the *)
(* journal, reads each key out of memory and writes the batch in one       *)
(* transaction: an upsert merges with the row there, a delete leaves a     *)
(* tombstone and no upsert overwrites one.  Other processes read the rows  *)
(* a page at a time and put them into memory, around the journal.          *)
(*                                                                         *)
(* A row is how far along the session is (arrival, sign-in, a later        *)
(* sign-in) and the parties its sign-out must reach.  Keys are random and  *)
(* are set up once.  A tombstone outlives every copy of its row: what the  *)
(* sweep of old ones removes is not modelled.                              *)
(***************************************************************************)
EXTENDS Integers, FiniteSets

CONSTANTS Minter,      \* the processes
          Handle,      \* keys of the store
          Party,       \* relying parties
          MaxWrites,   \* bounds of the model: local writes,
          MaxMishaps   \*   failed flushes and restarts

ASSUME MintedConstants == IsFiniteSet(Handle) /\ MaxWrites \in Nat /\ MaxMishaps \in Nat

VARIABLES minted,    \* minted[k]: the row of k in sts_minted
          memory,    \* memory[n][k]: what process n holds under k
          noted,     \* noted[n]: the journal
          generation,    \* generation[n]: writes journalled
          committedAt,   \* committedAt[n]: the generation that has been written
          batch,     \* batch[n]: the flush in flight
          unread,    \* unread[n]: keys others wrote, not read by n
          page,      \* page[n]: the rows read and not yet applied
          mark,      \* mark[n][k]: the generation of n's last write of k,
          wrote,     \*   and the row it wrote (history)
          ended,     \* ended[n][k]: the generation in which n ended k (history)
          displaced, \* displaced[n]: keys another's row was put over n's unwritten write (history)
          writes, mishaps

mvars == <<minted, memory, noted, generation, committedAt, batch, unread, page,
           mark, wrote, ended, displaced, writes, mishaps>>

Row(rank, parties) == [state |-> "live", rank |-> rank, parties |-> parties]
Gone == [state |-> "none", rank |-> 0, parties |-> {}]
Tombstone == [state |-> "ended", rank |-> 0, parties |-> {}]
Unread == [state |-> "unread", rank |-> 0, parties |-> {}]

LiveRows == {Row(r, P) : r \in 1..MaxWrites, P \in SUBSET Party}

NoBatch == [stage |-> "idle", at |-> 0, keys |-> {}, body |-> [k \in Handle |-> Gone],
            refused |-> {}, merged |-> {}]

MintedTypeOK ==
  /\ minted \in [Handle -> LiveRows \cup {Gone, Tombstone}]
  /\ memory \in [Minter -> [Handle -> LiveRows \cup {Gone}]]
  /\ noted \in [Minter -> SUBSET Handle] /\ unread \in [Minter -> SUBSET Handle]
  /\ generation \in [Minter -> Nat] /\ committedAt \in [Minter -> Nat]
  /\ page \in [Minter -> [Handle -> LiveRows \cup {Gone, Tombstone, Unread}]]
  /\ wrote \in [Minter -> [Handle -> LiveRows \cup {Gone}]]
  /\ mark \in [Minter -> [Handle -> Nat]] /\ ended \in [Minter -> [Handle -> Nat]]
  /\ displaced \in [Minter -> SUBSET Handle]
  /\ \A n \in Minter :
       /\ batch[n].stage \in {"idle", "taken", "written"}
       /\ committedAt[n] <= generation[n]
       /\ batch[n].stage # "idle" => batch[n].at <= generation[n]
       /\ batch[n].refused \cup batch[n].merged \subseteq batch[n].keys
  /\ writes \in Nat /\ mishaps \in Nat

MintedInit ==
  /\ minted = [k \in Handle |-> Gone]
  /\ memory = [n \in Minter |-> [k \in Handle |-> Gone]]
  /\ noted = [n \in Minter |-> {}] /\ unread = [n \in Minter |-> {}]
  /\ generation = [n \in Minter |-> 0] /\ committedAt = [n \in Minter |-> 0]
  /\ batch = [n \in Minter |-> NoBatch]
  /\ page = [n \in Minter |-> [k \in Handle |-> Unread]]
  /\ mark = [n \in Minter |-> [k \in Handle |-> 0]]
  /\ wrote = [n \in Minter |-> [k \in Handle |-> Gone]]
  /\ ended = [n \in Minter |-> [k \in Handle |-> 0]]
  /\ displaced = [n \in Minter |-> {}]
  /\ writes = 0 /\ mishaps = 0

IsLive(row) == row.state = "live"

MergeRowsMine(mine, theirs) == mine    \* mutant: the last writer wins

(* mergeSessionRows: the copy further along is the base, lists are unions. *)
MergeRows(mine, theirs) ==
  Row(IF mine.rank >= theirs.rank THEN mine.rank ELSE theirs.rank,
      mine.parties \cup theirs.parties)

-----------------------------------------------------------------------------
(* Local writes: each is journalled (note).                                *)

Writes(n, k, row) ==
  /\ writes < MaxWrites
  /\ writes' = writes + 1
  /\ memory' = [memory EXCEPT ![n][k] = row]
  /\ noted' = [noted EXCEPT ![n] = @ \cup {k}]
  /\ generation' = [generation EXCEPT ![n] = @ + 1]
  /\ mark' = [mark EXCEPT ![n][k] = generation[n] + 1]
  /\ wrote' = [wrote EXCEPT ![n][k] = row]
  /\ displaced' = [displaced EXCEPT ![n] = @ \ {k}]
  /\ UNCHANGED <<minted, committedAt, batch, unread, page, mishaps>>

(* A handle is random: nobody has held or ended it before.                 *)
Fresh(k) == /\ minted[k] = Gone
            /\ \A n \in Minter : memory[n][k] = Gone /\ mark[n][k] = 0

Arrive(n, k) == Fresh(k) /\ Writes(n, k, Row(1, {})) /\ UNCHANGED ended

(* A sign-in, or signing in again, upgrades the session in place.          *)
SignIn(n, k) == /\ IsLive(memory[n][k])
                /\ Writes(n, k, [memory[n][k] EXCEPT !.rank = writes + 1])
                /\ UNCHANGED ended

(* A party joins the session; one that is on the list already only has its *)
(* times touched, which is also what using the session does.               *)
NoteParty(n, k, p) == /\ IsLive(memory[n][k])
                      /\ Writes(n, k, [memory[n][k] EXCEPT !.parties = @ \cup {p}])
                      /\ UNCHANGED ended

(* dropSession: the request is held until generation ended[n][k] commits.  *)
SignOut(n, k) == /\ IsLive(memory[n][k])
                 /\ Writes(n, k, Gone)
                 /\ ended' = [ended EXCEPT ![n][k] = generation[n] + 1]

-----------------------------------------------------------------------------
(* The flush: one at a time in a process.                                  *)

TakeJournal(n) ==
  /\ batch[n].stage = "idle" /\ noted[n] # {}
  /\ batch' = [batch EXCEPT ![n] = [NoBatch EXCEPT !.stage = "taken", !.at = generation[n],
                                      !.keys = noted[n], !.body = memory[n]]]
  /\ noted' = [noted EXCEPT ![n] = {}]
  /\ UNCHANGED <<minted, memory, generation, committedAt, unread, page, mark, wrote, ended, displaced,
                 writes, mishaps>>

(* The merge holds the object the flush took, which may have been edited   *)
(* in place since.                                                         *)
Mine(n, k) == {batch[n].body[k]} \cup
  (IF IsLive(memory[n][k]) THEN {MergeRows(batch[n].body[k], memory[n][k])} ELSE {})

RefusedNever(n, k) == FALSE            \* mutant: an upsert overwrites a tombstone

(* An upsert of a key that was ended does nothing.                         *)
Refused(n, k) == IsLive(batch[n].body[k]) /\ minted[k] = Tombstone

(* saveMinted: what becomes of the row of k.                               *)
Saved(n, k, mine) ==
  IF ~IsLive(batch[n].body[k]) THEN Tombstone
  ELSE IF IsLive(minted[k]) THEN MergeRows(mine, minted[k])
  ELSE batch[n].body[k]

SaveMinted(n) ==
  LET keys == batch[n].keys
      refused == {k \in keys : Refused(n, k)}
      merged == {k \in keys \ refused : IsLive(batch[n].body[k]) /\ IsLive(minted[k])}
  IN  /\ batch[n].stage = "taken"
      /\ \E mine \in [keys -> UNION {Mine(n, k) : k \in keys}] :
           LET row == [k \in Handle |-> IF k \in keys \ refused
                                        THEN Saved(n, k, mine[k]) ELSE minted[k]]
           IN  /\ \A k \in keys : mine[k] \in Mine(n, k)
               /\ minted' = row
               /\ batch' = [batch EXCEPT ![n].stage = "written", ![n].refused = refused,
                              ![n].merged = merged,
                              ![n].body = [k \in Handle |-> IF k \in merged THEN row[k] ELSE @[k]]]
      /\ unread' = [m \in Minter |-> IF m = n THEN unread[m] ELSE unread[m] \cup (keys \ refused)]
      /\ UNCHANGED <<memory, noted, generation, committedAt, page, mark, wrote, ended, displaced,
                     writes, mishaps>>

(* settleDecided: a refused key is dropped here too, a merged row is put   *)
(* into memory unless a newer local write is journalled.                   *)
SettleDecided(n) ==
  /\ batch[n].stage = "written"
  /\ memory' = [memory EXCEPT ![n] = [k \in Handle |->
       IF k \in batch[n].refused THEN Gone
       ELSE IF k \in batch[n].merged \ noted[n] THEN batch[n].body[k] ELSE @[k]]]
  /\ noted' = [noted EXCEPT ![n] = @ \ batch[n].refused]
  /\ committedAt' = [committedAt EXCEPT ![n] = IF @ < batch[n].at THEN batch[n].at ELSE @]
  /\ batch' = [batch EXCEPT ![n] = NoBatch]
  /\ UNCHANGED <<minted, generation, unread, page, mark, wrote, ended, displaced, writes, mishaps>>

PutBackNothing(n) == noted[n]          \* mutant: a failed flush forgets its keys

(* The keys of a flush that failed - or whose answer was lost after it     *)
(* committed - go back.                                                    *)
PutBack(n) == noted[n] \cup batch[n].keys

SaveFails(n) ==
  /\ batch[n].stage # "idle" /\ mishaps < MaxMishaps
  /\ mishaps' = mishaps + 1
  /\ noted' = [noted EXCEPT ![n] = PutBack(n)]
  /\ generation' = [generation EXCEPT ![n] = @ + Cardinality(batch[n].keys)]
  /\ batch' = [batch EXCEPT ![n] = NoBatch]
  /\ UNCHANGED <<minted, memory, committedAt, unread, page, mark, wrote, ended, displaced, writes>>

-----------------------------------------------------------------------------
(* Other processes' rows.                                                  *)

(* prefetch: the rows of a page are read at one moment and applied one by  *)
(* one, other kinds of change between them.                                *)
ReadPage(n) ==
  /\ unread[n] # {} /\ \A k \in Handle : page[n][k] = Unread
  /\ page' = [page EXCEPT ![n] = [k \in Handle |-> IF k \in unread[n] THEN minted[k] ELSE Unread]]
  /\ unread' = [unread EXCEPT ![n] = {}]
  /\ UNCHANGED <<minted, memory, noted, generation, committedAt, batch, mark, wrote, ended, displaced,
                 writes, mishaps>>

Unwritten(n, k) == k \in noted[n] \/ (batch[n].stage # "idle" /\ k \in batch[n].keys)

(* A tombstone, or no row, is nothing in memory.                           *)
Restored(row) == IF IsLive(row) THEN row ELSE Gone

(* applyChange: the row replaces what is in memory, and is not journalled. *)
ApplyChange(n, k) ==
  /\ page[n][k] # Unread
  /\ memory' = [memory EXCEPT ![n][k] = Restored(page[n][k])]
  /\ page' = [page EXCEPT ![n][k] = Unread]
  /\ displaced' = [displaced EXCEPT ![n] = IF Unwritten(n, k) THEN @ \cup {k} ELSE @]
  /\ UNCHANGED <<minted, noted, generation, committedAt, batch, unread, mark, wrote, ended,
                 writes, mishaps>>

(* The process is started again and restores the rows; what it had not     *)
(* written is lost with it.                                                *)
StartAgain(n) ==
  /\ mishaps < MaxMishaps
  /\ mishaps' = mishaps + 1
  /\ memory' = [memory EXCEPT ![n] = [k \in Handle |-> Restored(minted[k])]]
  /\ noted' = [noted EXCEPT ![n] = {}] /\ batch' = [batch EXCEPT ![n] = NoBatch]
  /\ generation' = [generation EXCEPT ![n] = 0] /\ committedAt' = [committedAt EXCEPT ![n] = 0]
  /\ unread' = [unread EXCEPT ![n] = {}]
  /\ page' = [page EXCEPT ![n] = [k \in Handle |-> Unread]]
  /\ mark' = [mark EXCEPT ![n] = [k \in Handle |-> 0]]
  /\ wrote' = [wrote EXCEPT ![n] = [k \in Handle |-> Gone]]
  /\ ended' = [ended EXCEPT ![n] = [k \in Handle |-> 0]]
  /\ displaced' = [displaced EXCEPT ![n] = {}]
  /\ UNCHANGED <<minted, writes>>

MintedNext == \E n \in Minter :
  \/ \E k \in Handle : \/ Arrive(n, k) \/ SignIn(n, k) \/ SignOut(n, k)
                       \/ \E p \in Party : NoteParty(n, k, p)
                       \/ ApplyChange(n, k)
  \/ TakeJournal(n) \/ SaveMinted(n) \/ SettleDecided(n) \/ SaveFails(n)
  \/ ReadPage(n) \/ StartAgain(n)

MintedSpec == MintedInit /\ [][MintedNext]_mvars

-----------------------------------------------------------------------------
(* Properties.                                                             *)

(* Whatever copies the processes hold and in whatever order they write     *)
(* them, a stored session only moves forward - no sign-in is undone, no    *)
(* party forgotten - and one that ended stays ended (saveMinted,           *)
(* mergeSessionRows, the tombstones).                                      *)
StepsForward(old, new) ==
  /\ old = Tombstone => new = Tombstone
  /\ IsLive(old) => \/ new = Tombstone
                    \/ IsLive(new) /\ new.rank >= old.rank /\ old.parties \subseteq new.parties

OnlyForward == [][\A k \in Handle : StepsForward(minted[k], minted'[k])]_minted

(* What a process wrote and no other process's row displaced is journalled,*)
(* in flight or stored - whatever flushes failed, or failed after they had *)
(* committed (note, flush and its failure path).                           *)
Covers(row, mine) ==
  \/ row = Tombstone
  \/ IsLive(mine) /\ IsLive(row) /\ mine.rank <= row.rank /\ mine.parties \subseteq row.parties

WritesAccounted == \A n \in Minter, k \in Handle :
  mark[n][k] > 0 /\ k \notin displaced[n] /\ ~Unwritten(n, k) => Covers(minted[k], wrote[n][k])

(* The generations tell the truth: once the one a write was given has been *)
(* committed, the write is stored, unless the key was written or displaced *)
(* since (flush, flushThrough).                                            *)
CommittedWrites == \A n \in Minter, k \in Handle :
  /\ mark[n][k] > 0 /\ committedAt[n] >= mark[n][k] /\ k \notin displaced[n]
  => Covers(minted[k], wrote[n][k])

(* A sign-out that was answered holds: "an ENDED key ... a node holding an *)
(* old copy cannot bring back a session another node signed out".          *)
SignOutHolds == \A n \in Minter, k \in Handle :
  ended[n][k] > 0 /\ committedAt[n] >= ended[n][k] => ~IsLive(minted[k])
=============================================================================
