----------------------------- MODULE Directory -----------------------------
(***************************************************************************)
(* The directory's write-behind: persistence/persistence.js between the    *)
(* live entries of every node and the table sts_ldap_entries, with the     *)
(* three-way merge of persistence/directory_merge.js.                      *)
(*                                                                         *)
(* A change marks the node dirty and names its DN in a journal, or names   *)
(* nothing; a flush takes the journal, compares the live entries with the  *)
(* shadow (what the store is believed to hold), and one transaction merges *)
(* each difference with the row.  The transaction's answer comes back      *)
(* later, among local changes and other nodes' rows.  What the change log  *)
(* does between nodes is Replication's; here a committed row is something  *)
(* every other node has yet to read.                                       *)
(*                                                                         *)
(* An entry is its entryUUID, the aliases of that, one attribute that is a *)
(* list, one that is whole-valued (a password) and is written when the     *)
(* entry is created, and its modifyTimestamp, which every change moves.    *)
(***************************************************************************)
EXTENDS Integers, FiniteSets

CONSTANTS Node, Dn,
          Member,       \* values of the list attribute: each is added once,
          Author,      \*   by the node Author[v],
          Home,        \*   to the entry at Home[v]
          Uuid,        \* entryUUIDs, numbers because their order decides
          Born,        \* Born[u]: when the entry named u is created
          Window,      \* CREATE_RACE_WINDOW_S
          Seeded,      \* Seeded[d]: the uuid at d when the nodes start, or Absent
          Absent,
          InOrder,     \* answers reach a node in the order the statements ran,
                       \*   although they come over different connections
          MaxChanges,  \* bounds of the model: local changes,
          MaxTroubles  \*   failed flushes and restarts

Entry == [uuid : Uuid, alias : SUBSET Uuid, list : SUBSET Member, secret : Uuid,
          stamp : Nat]
MaybeEntry == Entry \cup {Absent}

ASSUME DirConstants ==
  /\ IsFiniteSet(Dn) /\ Author \in [Member -> Node] /\ Home \in [Member -> Dn]
  /\ Uuid \subseteq Nat /\ Absent \notin Uuid \cup Dn \cup Entry /\ Born \in [Uuid -> Int]
  /\ Seeded \in [Dn -> Uuid \cup {Absent}]
  /\ InOrder \in BOOLEAN /\ Window \in Nat /\ MaxChanges \in Nat /\ MaxTroubles \in Nat

VARIABLES store,     \* store[d]: the row at d
          live,      \* live[n][d]: the entry node n serves at d
          shadow,    \* shadow[n][d]: what n believes the row to be
          dirty,     \* directoryDirty
          everything,       \* dirtyEverything
          journal,   \* dirtyDns
          wake,      \* a flush is scheduled or queued
          gen,       \* dirGeneration
          committed, \* dirCommittedAt
          failures,  \* flushes of n that failed
          flight,    \* flight[n]: the flush that is running
          todo,      \* todo[n]: rows others committed, not yet read by n
          reading,   \* reading[n]: the row n has read and not applied
          life,      \* life[v]: what became of the value (history)
          since,     \* since[v]: the generation its change was given
          overtaken, \* a flush of n wrote an entry that another node's row had
                     \*   replaced at n while the flush was in flight (history)
          used,      \* entryUUIDs given out
          changes, troubles

dirvars == <<store, live, shadow, dirty, everything, journal, wake, gen, committed, failures,
             flight, todo, reading, life, since, overtaken, used, changes, troubles>>

Lives == {"unused", "added", "stored", "removed", "gone", "void"}

NoWrite == [op |-> "none", base |-> Absent, sent |-> Absent, mine |-> Absent, held |-> FALSE,
          over |-> FALSE, outcome |-> "none", entry |-> Absent]
Idle == [stage |-> "idle", gen |-> 0, rows |-> [d \in Dn |-> NoWrite]]
NotReading == [dn |-> Absent, row |-> Absent, late |-> FALSE]

DirTypeOK ==
  /\ store \in [Dn -> MaybeEntry]
  /\ live \in [Node -> [Dn -> MaybeEntry]] /\ shadow \in [Node -> [Dn -> MaybeEntry]]
  /\ dirty \in [Node -> BOOLEAN] /\ everything \in [Node -> BOOLEAN] /\ wake \in [Node -> BOOLEAN]
  /\ journal \in [Node -> SUBSET Dn] /\ todo \in [Node -> SUBSET Dn]
  /\ gen \in [Node -> Nat] /\ committed \in [Node -> Nat] /\ failures \in [Node -> Nat]
  /\ \A n \in Node : /\ flight[n].stage \in {"idle", "taken", "written"}
                     /\ reading[n].row \in MaybeEntry
                     /\ committed[n] <= gen[n]
  /\ overtaken \in [Node -> BOOLEAN]
  /\ life \in [Member -> Lives] /\ since \in [Member -> Nat]
  /\ used \subseteq Uuid /\ changes \in Nat /\ troubles \in Nat

New(u) == [uuid |-> u, alias |-> {}, list |-> {}, secret |-> u, stamp |-> 0]

DirInit ==
  /\ store = [d \in Dn |-> IF Seeded[d] = Absent THEN Absent ELSE New(Seeded[d])]
  /\ live = [n \in Node |-> store] /\ shadow = [n \in Node |-> store]
  /\ dirty = [n \in Node |-> FALSE] /\ everything = [n \in Node |-> FALSE]
  /\ wake = [n \in Node |-> FALSE] /\ journal = [n \in Node |-> {}]
  /\ gen = [n \in Node |-> 0] /\ committed = [n \in Node |-> 0]
  /\ failures = [n \in Node |-> 0]
  /\ flight = [n \in Node |-> Idle]
  /\ todo = [n \in Node |-> {}] /\ reading = [n \in Node |-> NotReading]
  /\ life = [v \in Member |-> "unused"] /\ since = [v \in Member |-> 0]
  /\ overtaken = [n \in Node |-> FALSE]
  /\ used = {Seeded[d] : d \in Dn} \ {Absent}
  /\ changes = 0 /\ troubles = 0

-----------------------------------------------------------------------------
(* directory_merge.js.                                                     *)

MergeListMine(b, m, t) == m            \* mutant: a list is taken whole

(* An attribute one side changed takes that side; a list both changed is   *)
(* merged by value; anything else both changed is mine.                    *)
MergeList(b, m, t) == (t \ (b \ m)) \cup (m \ b)

MergeWholeBase(b, m, t) == b           \* mutant: what neither would write
MergeWhole(b, m, t) == IF m = b THEN t ELSE m

IsList(S) == Cardinality(S) > 1

MergeAlias(b, m, t) ==
  IF m # b /\ t # b /\ (IsList(b) \/ IsList(m) \/ IsList(t))
  THEN MergeList(b, m, t) ELSE MergeWhole(b, m, t)

MergeStamp(b, m, t) == IF m = b THEN t ELSE IF t = b \/ m > t THEN m ELSE t

(* The base of an entry this process believed absent: nothing.             *)
Nothing == [uuid |-> Absent, alias |-> {}, list |-> {}, secret |-> Absent, stamp |-> 0]

MergeAttributes(base, mine, theirs) ==
  LET b == IF base = Absent THEN Nothing ELSE base
  IN  [uuid   |-> theirs.uuid,
       alias  |-> MergeAlias(b.alias, mine.alias, theirs.alias),
       list   |-> MergeList(b.list, mine.list, theirs.list),
       secret |-> MergeWhole(b.secret, mine.secret, theirs.secret),
       stamp  |-> MergeStamp(b.stamp, mine.stamp, theirs.stamp)]

Verdict(outcome, entry) == [outcome |-> outcome, entry |-> entry]

OneEntry(base, mine, theirs) == FALSE  \* mutant: entryUUID is not looked at

(* entryUUID decides whether the two writes are one entry.                 *)
AnotherEntry(base, mine, theirs) ==
  IF base = Absent THEN mine.uuid # theirs.uuid ELSE theirs.uuid # base.uuid

ReCreated(base, mine) == base # Absent /\ mine.uuid # base.uuid

MergeEntry(base, mine, theirs) ==
  CASE mine = Absent -> Verdict("deleted", Absent)
    [] mine # Absent /\ theirs = Absent ->
         IF base = Absent \/ ReCreated(base, mine) THEN Verdict("mine", mine)
         ELSE Verdict("deleted", Absent)
    [] mine # Absent /\ theirs # Absent ->
         IF AnotherEntry(base, mine, theirs) THEN Verdict("theirs", theirs)
         ELSE IF ReCreated(base, mine) THEN Verdict("mine", mine)
         ELSE LET merged == MergeAttributes(base, mine, theirs)
              IN  IF merged = mine THEN Verdict("mine", mine)
                  ELSE Verdict("merged", merged)

(* applyEntry and mergeCreateRace: an entry put where another was, created *)
(* at the same time under another entryUUID, is given one of the two and   *)
(* keeps the other as an alias.                                            *)
Apart(u, w) == IF Born[u] < Born[w] THEN Born[w] - Born[u] ELSE Born[u] - Born[w]

Applied(here, e) ==
  IF here = Absent THEN e
  ELSE LET known == here.alias \cup e.alias
           both == known \cup {here.uuid, e.uuid}
           linked == here.uuid \in known \/ e.uuid \in known
           kept == IF here.uuid = e.uuid THEN e.uuid
                   ELSE IF linked THEN IF e.uuid \in known THEN here.uuid ELSE e.uuid
                   ELSE IF here.uuid < e.uuid THEN here.uuid ELSE e.uuid
       IN  IF here.uuid # e.uuid /\ ~linked /\ Apart(here.uuid, e.uuid) > Window
           THEN e
           ELSE [e EXCEPT !.uuid = kept, !.alias = both \ {kept}]

-----------------------------------------------------------------------------
(* Marking.                                                                *)

(* directoryChanged and schedule, for a change that names its DN.          *)
Named(n, d) == /\ dirty' = [dirty EXCEPT ![n] = TRUE]
               /\ journal' = [journal EXCEPT ![n] = IF everything[n] THEN @ ELSE @ \cup {d}]
               /\ gen' = [gen EXCEPT ![n] = @ + 1]
               /\ wake' = [wake EXCEPT ![n] = TRUE]
               /\ UNCHANGED everything

(* The same for a change that does not: everything is compared.            *)
Unnamed(n) == /\ dirty' = [dirty EXCEPT ![n] = TRUE]
              /\ everything' = [everything EXCEPT ![n] = TRUE]
              /\ gen' = [gen EXCEPT ![n] = @ + 1]
              /\ wake' = [wake EXCEPT ![n] = TRUE]
              /\ UNCHANGED journal

Unmarked == UNCHANGED <<dirty, everything, journal, gen, wake>>

(* The flush holds the live object, not a copy: a change in place shows    *)
(* through to the merge as long as the object is the one it took.          *)
Detached(n, d) ==
  [flight EXCEPT ![n].rows[d] = IF @.held THEN [@ EXCEPT !.held = FALSE, !.mine = live[n][d]]
                                ELSE @]

(* Another's row takes the place of what a flush in flight sent.           *)
Replaced(n, d) ==
  [Detached(n, d) EXCEPT ![n].rows[d].over = flight[n].rows[d].op # "none"]

(* What node n had added to d and not stored is given up.                  *)
GivenUp(n, S) == [v \in Member |-> IF Author[v] = n /\ Home[v] \in S /\ life[v] = "added"
                                  THEN "void" ELSE life[v]]

(* A local change of the entry at d, in place or by a new object, naming   *)
(* the DN or not.                                                          *)
Changes(n, d, e) ==
  /\ changes < MaxChanges
  /\ changes' = changes + 1
  /\ live' = [live EXCEPT ![n][d] = IF e = Absent THEN e ELSE [e EXCEPT !.stamp = changes + 1]]
  /\ \/ e # Absent /\ live[n][d] # Absent /\ UNCHANGED flight
     \/ flight' = Detached(n, d)
  /\ Named(n, d) \/ Unnamed(n)
  /\ UNCHANGED <<store, shadow, committed, failures, todo, reading, overtaken, troubles>>

AddMember(n, v) ==
  LET d == Home[v] IN
  /\ Author[v] = n /\ life[v] = "unused" /\ live[n][d] # Absent
  /\ Changes(n, d, [live[n][d] EXCEPT !.list = @ \cup {v}])
  /\ life' = [life EXCEPT ![v] = "added"]
  /\ since' = [since EXCEPT ![v] = gen[n] + 1]
  /\ UNCHANGED used

RemoveMember(n, v) ==
  LET d == Home[v] IN
  /\ live[n][d] # Absent /\ v \in live[n][d].list
  /\ Changes(n, d, [live[n][d] EXCEPT !.list = @ \ {v}])
  /\ life' = [life EXCEPT ![v] = IF @ = "gone" THEN @ ELSE "removed"]
  /\ UNCHANGED <<since, used>>

Create(n, d, u) ==
  /\ live[n][d] = Absent /\ u \in Uuid \ used
  /\ Changes(n, d, New(u))
  /\ used' = used \cup {u}
  /\ UNCHANGED <<life, since>>

Delete(n, d) ==
  /\ live[n][d] # Absent
  /\ Changes(n, d, Absent)
  /\ life' = GivenUp(n, {d})
  /\ UNCHANGED <<since, used>>

-----------------------------------------------------------------------------
(* The flush.                                                              *)

RowOfPresent(n, d) ==                  \* mutant: a deleted entry is no difference
  IF live[n][d] = shadow[n][d] \/ live[n][d] = Absent THEN NoWrite
  ELSE [NoWrite EXCEPT !.op = "upsert", !.base = shadow[n][d], !.sent = live[n][d],
                       !.mine = live[n][d], !.held = TRUE]

(* diff(): the keys the journal names, or all of them.                     *)
RowOf(n, d) ==
  LET was == shadow[n][d]
      is == live[n][d]
  IN  IF is = was THEN NoWrite
      ELSE IF is = Absent THEN [NoWrite EXCEPT !.op = "delete"]
      ELSE [NoWrite EXCEPT !.op = "upsert", !.base = was, !.sent = is, !.mine = is, !.held = TRUE]

Wanted(n) == IF everything[n] \/ journal[n] = {} THEN Dn ELSE journal[n]

Take(n) ==
  /\ wake[n] /\ flight[n].stage = "idle" /\ dirty[n]
  /\ flight' = [flight EXCEPT ![n] =
       [stage |-> "taken", gen |-> gen[n],
        rows |-> [d \in Dn |-> IF d \in Wanted(n) THEN RowOf(n, d) ELSE NoWrite]]]
  /\ wake' = [wake EXCEPT ![n] = FALSE]
  /\ dirty' = [dirty EXCEPT ![n] = FALSE]
  /\ everything' = [everything EXCEPT ![n] = FALSE]
  /\ journal' = [journal EXCEPT ![n] = {}]
  /\ UNCHANGED <<store, live, shadow, gen, committed, failures, todo, reading, life, since,
                 overtaken, used, changes, troubles>>

(* Nothing is dirty and nothing is in flight: every generation is settled. *)
TakeNothing(n) ==
  /\ wake[n] /\ flight[n].stage = "idle" /\ ~dirty[n]
  /\ wake' = [wake EXCEPT ![n] = FALSE]
  /\ committed' = [committed EXCEPT ![n] = gen[n]]
  /\ UNCHANGED <<store, live, shadow, dirty, everything, journal, gen, failures, flight, todo,
                 reading, life, since, overtaken, used, changes, troubles>>

(* A caller wants the journal written although nothing changed: a response *)
(* held for its commit, or a minted row.                                   *)
FlushAsked(n) ==
  /\ dirty[n] /\ ~wake[n]
  /\ wake' = [wake EXCEPT ![n] = TRUE]
  /\ UNCHANGED <<store, live, shadow, dirty, everything, journal, gen, committed, failures, flight,
                 todo, reading, life, since, overtaken, used, changes, troubles>>

Related(e, f) == ({e.uuid} \cup e.alias) \cap ({f.uuid} \cup f.alias) # {}

(* What a write of the row at its home makes of a value.                   *)
LifeAfter(v, old, new) ==
  LET in == new # Absent /\ v \in new.list
      was == old # Absent /\ v \in old.list
      replaced == old # Absent /\ (new = Absent \/ ~Related(old, new))
  IN  IF in /\ life[v] = "added" THEN "stored"
      ELSE IF was /\ ~in /\ (life[v] = "removed" \/ replaced) THEN "gone"
      ELSE life[v]

(* saveDirectory: every row is locked, merged with what it holds now and   *)
(* written in one transaction, and the change log says which rows moved.   *)
Commit(n) ==
  LET rows == flight[n].rows
      mine(d) == IF rows[d].held THEN live[n][d] ELSE rows[d].mine
      verdict(d) == MergeEntry(rows[d].base, mine(d), store[d])
      writes(d) == \/ rows[d].op = "delete"
                   \/ rows[d].op = "upsert" /\ verdict(d).outcome \in {"mine", "merged"}
      after(d) == IF ~writes(d) THEN store[d]
                  ELSE IF rows[d].op = "delete" THEN Absent ELSE verdict(d).entry
      settled(d) == IF rows[d].op = "upsert" /\ verdict(d).outcome # "mine"
                    THEN [rows[d] EXCEPT !.held = FALSE, !.outcome = verdict(d).outcome,
                                         !.entry = verdict(d).entry]
                    ELSE [rows[d] EXCEPT !.held = FALSE]
  IN  /\ flight[n].stage = "taken"
      /\ store' = [d \in Dn |-> after(d)]
      /\ flight' = [flight EXCEPT ![n].stage = "written",
                                  ![n].rows = [d \in Dn |-> settled(d)]]
      /\ todo' = [m \in Node |-> IF m = n THEN todo[m]
                                 ELSE todo[m] \cup {d \in Dn : writes(d)}]
      /\ life' = [v \in Member |-> LifeAfter(v, store[Home[v]], after(Home[v]))]
      /\ UNCHANGED <<live, shadow, dirty, everything, journal, wake, gen, committed, failures,
                     reading, since, overtaken, used, changes, troubles>>

BelievedHere(written, was, here) ==    \* mutant: the shadow is what is here by now
  IF written.op = "none" THEN was ELSE here

(* What the shadow is after a flush wrote the row: what the merge found,   *)
(* or what was sent - not what is here by now.                             *)
Believed(written, was, here) ==
  CASE written.outcome # "none" -> written.entry
    [] written.outcome = "none" /\ written.op = "none" -> was
    [] written.outcome = "none" /\ written.op # "none" -> written.sent

(* advanceShadow, applyDirectoryOutcomes and the generations: the shadow   *)
(* is what was sent, or what the merge found; an entry that moved since is *)
(* merged once more and journalled again.                                  *)
Resolve(n) ==
  LET rows == flight[n].rows
      here(d) == live[n][d]
      decided(d) == rows[d].outcome # "none"
      moved(d) == here(d) # Absent /\ here(d) # rows[d].sent
      again(d) == rows[d].outcome = "merged" /\ moved(d)
      put(d) == IF again(d) THEN MergeEntry(rows[d].sent, here(d), rows[d].entry).entry
                ELSE rows[d].entry
      now(d) == IF ~decided(d) THEN here(d)
                ELSE IF rows[d].outcome = "deleted" THEN Absent
                ELSE Applied(here(d), put(d))
      owed == {d \in Dn : decided(d) /\ rows[d].outcome # "deleted"
                          /\ (again(d) \/ now(d) # put(d))}
  IN  /\ flight[n].stage = "written"
      /\ InOrder => reading[n] = NotReading \/ reading[n].late
      /\ flight' = [flight EXCEPT ![n] = Idle]
      /\ shadow' = [shadow EXCEPT ![n] = [d \in Dn |-> Believed(rows[d], shadow[n][d], here(d))]]
      /\ live' = [live EXCEPT ![n] = [d \in Dn |-> now(d)]]
      /\ committed' = [committed EXCEPT ![n] = IF @ < flight[n].gen THEN flight[n].gen ELSE @]
      /\ IF owed = {} THEN Unmarked
         ELSE /\ dirty' = [dirty EXCEPT ![n] = TRUE]
              /\ journal' = [journal EXCEPT ![n] = @ \cup owed]
              /\ gen' = [gen EXCEPT ![n] = @ + Cardinality(owed)]
              /\ wake' = [wake EXCEPT ![n] = TRUE]
              /\ UNCHANGED everything
      /\ life' = GivenUp(n, {d \in Dn : rows[d].outcome \in {"theirs", "deleted"}})
      /\ reading' = [reading EXCEPT ![n].late = FALSE]
      /\ overtaken' = [overtaken EXCEPT ![n] =
           @ \/ \E d \in Dn : rows[d].over /\ rows[d].outcome \in {"none", "merged"}]
      /\ UNCHANGED <<store, failures, todo, since, used, changes, troubles>>

(* The flush failed, before the transaction committed or with its answer   *)
(* lost: the dirty bit goes back on, and nothing schedules another flush.  *)
FlushFails(n) ==
  /\ flight[n].stage # "idle" /\ troubles < MaxTroubles
  /\ troubles' = troubles + 1
  /\ flight' = [flight EXCEPT ![n] = Idle]
  /\ dirty' = [dirty EXCEPT ![n] = TRUE]
  /\ failures' = [failures EXCEPT ![n] = @ + 1]
  /\ reading' = [reading EXCEPT ![n].late = FALSE]
  /\ UNCHANGED <<store, live, shadow, everything, journal, wake, gen, committed, todo,
                 life, since, overtaken, used, changes>>

-----------------------------------------------------------------------------
(* Another node's row.                                                     *)

(* readEntry: the row as it is when the statement runs.                    *)
Read(n, d) ==
  /\ d \in todo[n] /\ reading[n] = NotReading
  /\ reading' = [reading EXCEPT ![n] = 
       [dn |-> d, row |-> store[d], late |-> flight[n].stage = "written"]]
  /\ todo' = [todo EXCEPT ![n] = @ \ {d}]
  /\ UNCHANGED <<store, live, shadow, dirty, everything, journal, wake, gen, committed, failures,
                 flight, life, since, overtaken, used, changes, troubles>>

(* applyDirectoryChange: a change of this node not written yet is merged   *)
(* with the row and journalled again.                                      *)
ApplyRow(n) ==
  LET d == reading[n].dn
      row == reading[n].row
      here == live[n][d]
      pending == here # shadow[n][d]
      verdict == MergeEntry(shadow[n][d], here, row)
      kept == pending /\ (here = Absent \/ verdict.outcome \in {"mine", "merged"})
      put == IF kept THEN verdict.entry ELSE row
      now == IF put = Absent THEN Absent ELSE Applied(here, put)
  IN  /\ d # Absent
      /\ InOrder => ~(flight[n].stage = "written" /\ reading[n].late)
      /\ reading' = [reading EXCEPT ![n] = NotReading]
      /\ live' = [live EXCEPT ![n][d] = now]
      /\ shadow' = [shadow EXCEPT ![n][d] = row]
      /\ flight' = IF kept /\ now = here THEN flight
                   ELSE IF kept THEN Detached(n, d) ELSE Replaced(n, d)
      /\ IF kept \/ now # put
         THEN /\ dirty' = [dirty EXCEPT ![n] = TRUE]
              /\ journal' = [journal EXCEPT ![n] = @ \cup {d}]
              /\ gen' = [gen EXCEPT ![n] = @ + 1]
              /\ wake' = [wake EXCEPT ![n] = TRUE]
              /\ UNCHANGED everything
         ELSE Unmarked
      /\ life' = IF pending /\ ~kept THEN GivenUp(n, {d}) ELSE life
      /\ UNCHANGED <<store, committed, failures, todo, since, overtaken, used, changes,
                     troubles>>

(* The process dies and another is started from the store; the             *)
(* transaction it had open is rolled back.                                 *)
Restart(n) ==
  /\ troubles < MaxTroubles
  /\ troubles' = troubles + 1
  /\ live' = [live EXCEPT ![n] = store] /\ shadow' = [shadow EXCEPT ![n] = store]
  /\ dirty' = [dirty EXCEPT ![n] = FALSE] /\ everything' = [everything EXCEPT ![n] = FALSE]
  /\ journal' = [journal EXCEPT ![n] = {}] /\ wake' = [wake EXCEPT ![n] = FALSE]
  /\ gen' = [gen EXCEPT ![n] = 0] /\ committed' = [committed EXCEPT ![n] = 0]
  /\ failures' = [failures EXCEPT ![n] = 0]
  /\ flight' = [flight EXCEPT ![n] = Idle]
  /\ todo' = [todo EXCEPT ![n] = {}] /\ reading' = [reading EXCEPT ![n] = NotReading]
  /\ life' = GivenUp(n, Dn)
  /\ UNCHANGED <<store, since, overtaken, used, changes>>

LocalStep(n) ==
  \/ \E v \in Member : AddMember(n, v) \/ RemoveMember(n, v)
  \/ \E d \in Dn : Delete(n, d) \/ \E u \in Uuid : Create(n, d, u)

FlushStep(n) == Take(n) \/ TakeNothing(n) \/ FlushAsked(n) \/ Commit(n) \/ Resolve(n)

DirNext == \E n \in Node :
  \/ LocalStep(n) \/ FlushStep(n)
  \/ FlushFails(n) \/ Restart(n)
  \/ ApplyRow(n) \/ \E d \in Dn : Read(n, d)

DirSpec == DirInit /\ [][DirNext]_dirvars

-----------------------------------------------------------------------------
(* Properties.                                                             *)

(* applyDirectoryChange does not look at the flush that is in flight: a    *)
(* row of another entry, applied while this node's own goes to the store,  *)
(* leaves live and shadow with nothing between them and nothing in the     *)
(* journal.  What follows is not promised then.                            *)
NoneOvertaken == \A n \in Node : ~overtaken[n]

(* No lost update: a value one node added and the store took stays in the  *)
(* entry, whatever the other nodes' copies, bases and retries were, until  *)
(* some node removes it or the entry (mergeValues, saveDirectory).         *)
StoredStays == NoneOvertaken => \A v \in Member : life[v] = "stored" =>
  store[Home[v]] # Absent /\ v \in store[Home[v]].list

(* A merge never gives one person's password to another: wherever an entry *)
(* is served or stored, its secret is of that entry or of one it carries   *)
(* as an alias (the entryUUID rules of mergeEntry).                        *)
OwnSecret(e) == e # Absent => e.secret \in {e.uuid} \cup e.alias

NoChimera == /\ \A d \in Dn : OwnSecret(store[d])
             /\ \A n \in Node, d \in Dn : OwnSecret(live[n][d])

(* While no flush has failed or was overtaken, a node with nothing dirty   *)
(* and nothing in flight serves what it believes to be stored: no change   *)
(* made during a flush, an outcome or an applied row fell out of the       *)
(* journal (flush, advanceShadow, applyDirectoryOutcomes).                 *)
NothingForgotten == \A n \in Node :
  failures[n] = 0 /\ ~overtaken[n] /\ ~dirty[n] /\ flight[n].stage = "idle" =>
    live[n] = shadow[n]

(* What persistence.js:1278 says of a flush that failed: the dirty bits go  *)
(* back on, the same diff is recomputed and nothing is lost.               *)
FailureLosesNothing == \A n \in Node :
  ~dirty[n] /\ flight[n].stage = "idle" => live[n] = shadow[n]

(* What the commit barrier believes: once every generation up to a         *)
(* change's has committed, the change is in the store, or was decided      *)
(* there (commitThrough, for a node none of whose flushes failed).         *)
CommittedIsStored == \A v \in Member :
  failures[Author[v]] = 0 /\ committed[Author[v]] >= since[v] => life[v] # "added"

(* Nodes that have nothing left to write or to read serve what is stored,  *)
(* whatever was added, removed and deleted at once, while no flush has     *)
(* failed or was overtaken (flush, applyDirectoryChange and the merge      *)
(* together).                                                              *)
Quiet == \A n \in Node : /\ ~dirty[n] /\ flight[n].stage = "idle" /\ failures[n] = 0
                         /\ todo[n] = {} /\ reading[n] = NotReading

Converged == NoneOvertaken /\ Quiet => \A n \in Node : live[n] = store
=============================================================================
