-------------------------- MODULE DirectoryProofs ---------------------------
(***************************************************************************)
(* What the write-behind of the directory promises, for any number of      *)
(* nodes, entries, values, changes, failed flushes and restarts.           *)
(***************************************************************************)
EXTENDS Directory, FiniteSetTheorems, TLAPS

-----------------------------------------------------------------------------
(* What a merge and an apply do to entries.                                *)

Has(v, e) == e # Absent /\ v \in e.list
SameUuid(a, b) == a # Absent /\ b # Absent /\ a.uuid = b.uuid

(* An entry has its fields, and is something.                              *)
LEMMA EntryFields ==
  ASSUME NEW e \in MaybeEntry, e # Absent
  PROVE  /\ e \in Entry /\ e.uuid \in Uuid /\ e.alias \subseteq Uuid
         /\ e.list \subseteq Member /\ e.secret \in Uuid /\ e.stamp \in Nat
BY DEF MaybeEntry, Entry

LEMMA NotAbsent == \A e \in Entry : e # Absent
BY DirConstants

(* The parts of an entry made or changed by EXCEPT.                        *)
LEMMA NewFields ==
  ASSUME NEW u \in Uuid
  PROVE  New(u) \in Entry /\ New(u).uuid = u /\ New(u).alias = {} /\ New(u).list = {}
         /\ New(u).secret = u
BY DEF New, Entry

LEMMA ListFields ==
  ASSUME NEW e \in Entry, NEW L \in SUBSET Member
  PROVE  LET f == [e EXCEPT !.list = L]
         IN  /\ f \in Entry /\ f.list = L /\ f.uuid = e.uuid /\ f.alias = e.alias
             /\ f.secret = e.secret
BY DEF Entry

LEMMA StampFields ==
  ASSUME NEW e \in Entry, NEW i \in Nat
  PROVE  LET f == [e EXCEPT !.stamp = i]
         IN  /\ f \in Entry /\ f.list = e.list /\ f.uuid = e.uuid /\ f.alias = e.alias
             /\ f.secret = e.secret /\ f.stamp = i
BY DEF Entry

(* What two versions of one entry are merged to.                           *)
LEMMA MergedFields ==
  ASSUME NEW base \in MaybeEntry, NEW mine \in Entry, NEW theirs \in Entry
  PROVE  LET m == MergeAttributes(base, mine, theirs)
             b == IF base = Absent THEN {} ELSE base.list
         IN  /\ m \in Entry /\ m.uuid = theirs.uuid
             /\ m.list = (theirs.list \ (b \ mine.list)) \cup (mine.list \ b)
             /\ mine.alias = {} /\ theirs.alias = {} => m.alias = {}
             /\ m.secret \in {mine.secret, theirs.secret}
             /\ m.stamp = MergeStamp(IF base = Absent THEN 0 ELSE base.stamp, mine.stamp,
                                     theirs.stamp)
<1> DEFINE b == IF base = Absent THEN Nothing ELSE base
           m == MergeAttributes(base, mine, theirs)
<1>1. /\ mine.uuid \in Uuid /\ mine.alias \subseteq Uuid /\ mine.list \subseteq Member
      /\ mine.secret \in Uuid /\ mine.stamp \in Nat
      /\ theirs.uuid \in Uuid /\ theirs.alias \subseteq Uuid /\ theirs.list \subseteq Member
      /\ theirs.secret \in Uuid /\ theirs.stamp \in Nat
  BY DEF Entry
<1>2. /\ b.list = (IF base = Absent THEN {} ELSE base.list)
      /\ b.stamp = (IF base = Absent THEN 0 ELSE base.stamp)
  BY DEF Nothing
<1>3. /\ m.uuid = theirs.uuid /\ m.alias = MergeAlias(b.alias, mine.alias, theirs.alias)
      /\ m.list = MergeList(b.list, mine.list, theirs.list)
      /\ m.secret = MergeWhole(b.secret, mine.secret, theirs.secret)
      /\ m.stamp = MergeStamp(b.stamp, mine.stamp, theirs.stamp)
      /\ m = [uuid |-> m.uuid, alias |-> m.alias, list |-> m.list, secret |-> m.secret,
              stamp |-> m.stamp]
  BY DEF MergeAttributes
<1>4. m.list = (theirs.list \ (b.list \ mine.list)) \cup (mine.list \ b.list)
  BY <1>3 DEF MergeList
<1>5. m.alias \subseteq Uuid
  BY <1>1, <1>3 DEF MergeAlias, MergeList, MergeWhole
<1>6. mine.alias = {} /\ theirs.alias = {} => m.alias = {}
  BY <1>3 DEF MergeAlias, MergeList, MergeWhole
<1>7. m.secret \in {mine.secret, theirs.secret}
  BY <1>3 DEF MergeWhole
<1>8. m.stamp \in {mine.stamp, theirs.stamp}
  BY <1>3 DEF MergeStamp
<1>9. m \in Entry
  <2>1. /\ m.uuid \in Uuid /\ m.list \subseteq Member /\ m.secret \in Uuid /\ m.stamp \in Nat
    BY <1>1, <1>3, <1>4, <1>7, <1>8
  <2> HIDE DEF m
  <2> QED BY <1>3, <1>5, <2>1 DEF Entry
<1> HIDE DEF m, b
<1> QED BY <1>2, <1>3, <1>4, <1>6, <1>7, <1>9 DEF m

(* The three-way decision, one case at a time.                             *)
LEMMA MergeDeleted ==
  ASSUME NEW base, NEW theirs
  PROVE  MergeEntry(base, Absent, theirs) = Verdict("deleted", Absent)
BY DEF MergeEntry

LEMMA MergeRowGone ==
  ASSUME NEW base, NEW mine, mine # Absent
  PROVE  MergeEntry(base, mine, Absent) =
           IF base = Absent \/ ReCreated(base, mine) THEN Verdict("mine", mine)
           ELSE Verdict("deleted", Absent)
BY DEF MergeEntry

LEMMA MergeOfTwo ==
  ASSUME NEW base, NEW mine, NEW theirs, mine # Absent, theirs # Absent
  PROVE  MergeEntry(base, mine, theirs) =
           IF AnotherEntry(base, mine, theirs) THEN Verdict("theirs", theirs)
           ELSE IF ReCreated(base, mine) THEN Verdict("mine", mine)
           ELSE IF MergeAttributes(base, mine, theirs) = mine THEN Verdict("mine", mine)
           ELSE Verdict("merged", MergeAttributes(base, mine, theirs))
BY DEF MergeEntry

LEMMA VerdictFields ==
  ASSUME NEW outcome, NEW entry
  PROVE  Verdict(outcome, entry).outcome = outcome /\ Verdict(outcome, entry).entry = entry
BY DEF Verdict

(* The version kept is mine, or one entry of one entryUUID: the merge of   *)
(* both lists.                                                             *)
LEMMA MergeFacts ==
  ASSUME NEW base \in MaybeEntry, NEW mine \in MaybeEntry, NEW theirs \in MaybeEntry
  PROVE  LET v == MergeEntry(base, mine, theirs)
             b == IF base = Absent THEN {} ELSE base.list
         IN  /\ v.entry \in MaybeEntry
             /\ v.outcome \in {"mine", "theirs", "merged", "deleted"}
             /\ v.outcome = "deleted" => v.entry = Absent
             /\ v.outcome = "deleted" => theirs = Absent \/ mine = Absent
             /\ v.outcome = "theirs" => theirs # Absent /\ v.entry = theirs
             /\ v.outcome = "mine" => mine # Absent /\ v.entry = mine
             /\ v.outcome = "merged" => SameUuid(mine, v.entry) /\ SameUuid(theirs, v.entry)
             /\ v.outcome \in {"mine", "merged"} =>
                  \/ /\ v.entry = mine /\ (theirs = Absent \/ ~SameUuid(mine, theirs))
                     /\ ~SameUuid(base, mine)
                  \/ /\ SameUuid(mine, theirs) /\ SameUuid(mine, v.entry)
                     /\ base # Absent => SameUuid(base, mine)
                     /\ v.entry.list = (theirs.list \ (b \ mine.list)) \cup (mine.list \ b)
                     /\ v.entry.stamp = MergeStamp(IF base = Absent THEN 0 ELSE base.stamp,
                                                   mine.stamp, theirs.stamp)
<1> DEFINE v == MergeEntry(base, mine, theirs)
           b == IF base = Absent THEN {} ELSE base.list
<1>1. CASE mine = Absent
  <2>1. v = Verdict("deleted", Absent)
    BY <1>1, MergeDeleted
  <2>2. v.outcome = "deleted" /\ v.entry = Absent
    BY <2>1, VerdictFields
  <2> HIDE DEF v
  <2> QED BY <1>1, <2>2 DEF MaybeEntry, v
<1>2. CASE mine # Absent /\ theirs = Absent
  <2>1. v = Verdict("mine", mine) \/ v = Verdict("deleted", Absent)
    BY <1>2, MergeRowGone
  <2>2. \/ v.outcome = "mine" /\ v.entry = mine /\ (base = Absent \/ ReCreated(base, mine))
        \/ v.outcome = "deleted" /\ v.entry = Absent
    BY <1>2, <2>1, MergeRowGone, VerdictFields
  <2>3. base = Absent \/ ReCreated(base, mine) => ~SameUuid(base, mine)
    BY DEF ReCreated, SameUuid
  <2> HIDE DEF v
  <2> QED BY <1>2, <2>2, <2>3 DEF MaybeEntry, v
<1>3. CASE mine # Absent /\ theirs # Absent
  <2> DEFINE m == MergeAttributes(base, mine, theirs)
  <2>1. mine \in Entry /\ theirs \in Entry
    BY <1>3, EntryFields
  <2>2. m \in Entry /\ m.uuid = theirs.uuid
        /\ m.list = (theirs.list \ (b \ mine.list)) \cup (mine.list \ b)
        /\ m.stamp = MergeStamp(IF base = Absent THEN 0 ELSE base.stamp, mine.stamp,
                                theirs.stamp)
    BY <2>1, MergedFields
  <2>3. m # Absent
    BY <2>2, NotAbsent
  <2>4. v = IF AnotherEntry(base, mine, theirs) THEN Verdict("theirs", theirs)
            ELSE IF ReCreated(base, mine) THEN Verdict("mine", mine)
            ELSE IF m = mine THEN Verdict("mine", mine) ELSE Verdict("merged", m)
    BY <1>3, MergeOfTwo
  <2> HIDE DEF v, m, b
  <2>5. CASE AnotherEntry(base, mine, theirs)
    <3>1. v.outcome = "theirs" /\ v.entry = theirs
      BY <2>4, <2>5, VerdictFields
    <3> QED BY <1>3, <3>1 DEF v
  <2>6. CASE ~AnotherEntry(base, mine, theirs) /\ ReCreated(base, mine)
    <3>1. v.outcome = "mine" /\ v.entry = mine
      BY <2>4, <2>6, VerdictFields
    <3>2. ~SameUuid(mine, theirs) /\ ~SameUuid(base, mine)
      BY <1>3, <2>6 DEF SameUuid, AnotherEntry, ReCreated
    <3> QED BY <1>3, <3>1, <3>2 DEF v
  <2>7. CASE ~AnotherEntry(base, mine, theirs) /\ ~ReCreated(base, mine)
    <3>1. v.entry = m /\ v.outcome \in {"mine", "merged"} /\ (v.outcome = "mine" => m = mine)
      BY <2>4, <2>7, VerdictFields
    <3>2. SameUuid(mine, theirs) /\ (base # Absent => SameUuid(base, mine))
      BY <1>3, <2>7 DEF SameUuid, AnotherEntry, ReCreated
    <3>3. SameUuid(mine, m) /\ SameUuid(theirs, m)
      BY <2>2, <2>3, <3>2 DEF SameUuid
    <3>4. m \in MaybeEntry
      BY <2>2 DEF MaybeEntry
    <3> QED BY <1>3, <2>2, <3>1, <3>2, <3>3, <3>4 DEF v, b
  <2> QED BY <2>5, <2>6, <2>7
<1> QED BY <1>1, <1>2, <1>3

(* What an entry put where another was is, but for its name: the entry.    *)
LEMMA AppliedFields ==
  ASSUME NEW here \in MaybeEntry, NEW e \in Entry
  PROVE  /\ Applied(here, e) \in Entry /\ Applied(here, e).list = e.list
         /\ Applied(here, e).stamp = e.stamp
<1>1. CASE here = Absent
  BY <1>1 DEF Applied
<1>2. CASE here # Absent
  <2>1. here.uuid \in Uuid /\ here.alias \subseteq Uuid /\ e.uuid \in Uuid /\ e.alias \subseteq Uuid
    BY <1>2 DEF MaybeEntry, Entry
  <2>2. PICK u \in Uuid, A \in SUBSET Uuid :
          Applied(here, e) = e \/ Applied(here, e) = [e EXCEPT !.uuid = u, !.alias = A]
    <3> DEFINE known == here.alias \cup e.alias
               both == known \cup {here.uuid, e.uuid}
               linked == here.uuid \in known \/ e.uuid \in known
               k == IF here.uuid = e.uuid THEN e.uuid
                    ELSE IF linked THEN IF e.uuid \in known THEN here.uuid ELSE e.uuid
                    ELSE IF here.uuid < e.uuid THEN here.uuid ELSE e.uuid
    <3>1. k \in Uuid /\ both \ {k} \in SUBSET Uuid
      BY <2>1
    <3>2. Applied(here, e) = e \/ Applied(here, e) = [e EXCEPT !.uuid = k, !.alias = both \ {k}]
      BY <1>2 DEF Applied
    <3> HIDE DEF k, both
    <3> QED BY <3>1, <3>2
  <2>3. [e EXCEPT !.uuid = u, !.alias = A] \in Entry
        /\ [e EXCEPT !.uuid = u, !.alias = A].list = e.list
        /\ [e EXCEPT !.uuid = u, !.alias = A].stamp = e.stamp
    BY DEF Entry
  <2> QED BY <2>2, <2>3
<1> QED BY <1>1, <1>2

-----------------------------------------------------------------------------
(* The laws of the merge.                                                  *)

BaseOf(base) == IF base = Absent THEN Nothing ELSE base

(* Two versions of one entry: neither side made another, and what is kept  *)
(* is the merge of their attributes.                                       *)
OneVersion(base, mine, theirs) ==
  mine.uuid = theirs.uuid /\ (base # Absent => base.uuid = mine.uuid)

LEMMA MergeOneEntry ==
  ASSUME NEW base, NEW mine, NEW theirs, mine # Absent, theirs # Absent,
         OneVersion(base, mine, theirs)
  PROVE  /\ MergeEntry(base, mine, theirs).entry = MergeAttributes(base, mine, theirs)
         /\ MergeEntry(base, mine, theirs).outcome \in {"mine", "merged"}
<1> DEFINE m == MergeAttributes(base, mine, theirs)
<1>1. ~AnotherEntry(base, mine, theirs) /\ ~ReCreated(base, mine)
  BY DEF OneVersion, AnotherEntry, ReCreated
<1>2. MergeEntry(base, mine, theirs) = IF m = mine THEN Verdict("mine", mine)
                                       ELSE Verdict("merged", m)
  BY <1>1, MergeOfTwo
<1> HIDE DEF m
<1> QED BY <1>2, VerdictFields DEF m

(* One attribute after the other.                                          *)
LEMMA MergeByAttribute ==
  ASSUME NEW base, NEW mine, NEW theirs, NEW e \in Entry,
         e.uuid = theirs.uuid,
         e.alias = MergeAlias(BaseOf(base).alias, mine.alias, theirs.alias),
         e.list = MergeList(BaseOf(base).list, mine.list, theirs.list),
         e.secret = MergeWhole(BaseOf(base).secret, mine.secret, theirs.secret),
         e.stamp = MergeStamp(BaseOf(base).stamp, mine.stamp, theirs.stamp)
  PROVE  MergeAttributes(base, mine, theirs) = e
<1>1. e = [uuid |-> e.uuid, alias |-> e.alias, list |-> e.list, secret |-> e.secret,
           stamp |-> e.stamp]
  BY DEF Entry
<1> QED BY <1>1 DEF MergeAttributes, BaseOf

(* What the merge of an attribute answers when one side left it alone, or  *)
(* both sides agree.                                                       *)
LEMMA MergeUnchanged ==
  ASSUME NEW b, NEW x
  PROVE  /\ MergeAlias(b, x, b) = x /\ MergeAlias(b, b, x) = x /\ MergeAlias(b, x, x) = x
         /\ MergeWhole(b, x, b) = x /\ MergeWhole(b, b, x) = x /\ MergeWhole(b, x, x) = x
         /\ MergeStamp(b, x, b) = x /\ MergeStamp(b, b, x) = x /\ MergeStamp(b, x, x) = x
BY DEF MergeAlias, MergeList, MergeWhole, MergeStamp

LEMMA MergeListLaws ==
  ASSUME NEW b, NEW m, NEW t
  PROVE  /\ MergeList(b, m, b) = m /\ MergeList(b, b, t) = t /\ MergeList(b, m, m) = m
         /\ MergeList(b, m, t) = MergeList(b, t, m)
         /\ m \cap t \subseteq MergeList(b, m, t) /\ MergeList(b, m, t) \subseteq m \cup t
         /\ MergeList(b, m, MergeList(b, m, t)) = MergeList(b, m, t)
BY DEF MergeList

(* Merged again into what came of it, a list with no base stays: the union *)
(* of two lists is a list.                                                 *)
LEMMA MergeAgain ==
  ASSUME NEW m, NEW t, IsFiniteSet(m), IsFiniteSet(t)
  PROVE  MergeAlias({}, m, MergeAlias({}, m, t)) = MergeAlias({}, m, t)
<1>1. IsList(m) \/ IsList(t) => IsList(m \cup t)
  <2>1. IsFiniteSet(m \cup t)
    BY FS_Union
  <2>2. /\ Cardinality(m) <= Cardinality(m \cup t) /\ Cardinality(t) <= Cardinality(m \cup t)
    <3>1. m \in SUBSET (m \cup t) /\ t \in SUBSET (m \cup t)
      OBVIOUS
    <3> QED BY <2>1, <3>1, FS_Subset
  <2>3. Cardinality(m) \in Nat /\ Cardinality(t) \in Nat /\ Cardinality(m \cup t) \in Nat
    BY <2>1, FS_CardinalityType
  <2> QED BY <2>2, <2>3 DEF IsList
<1>2. \A x, y : MergeList({}, x, y) = x \cup y
  BY DEF MergeList
<1> HIDE DEF IsList, MergeList
<1> DEFINE r == MergeAlias({}, m, t)
<1>3. CASE m = {} \/ t = {}
  <2>1. r = IF m = {} THEN t ELSE m
    BY <1>3 DEF MergeAlias, MergeWhole
  <2> HIDE DEF r
  <2>2. CASE m = {}
    BY <2>1, <2>2 DEF MergeAlias, MergeWhole
  <2>3. CASE m # {}
    BY <2>1, <2>3, MergeUnchanged DEF r
  <2> QED BY <2>2, <2>3
<1>4. CASE m # {} /\ t # {} /\ (IsList(m) \/ IsList(t) \/ IsList({}))
  <2>1. r = m \cup t
    BY <1>2, <1>4 DEF MergeAlias
  <2>2. IsList({}) \/ IsList(m \cup t)
    BY <1>1, <1>4
  <2>3. MergeAlias({}, m, m \cup t) = m \cup (m \cup t)
    BY <1>2, <1>4, <2>2 DEF MergeAlias
  <2> QED BY <2>1, <2>3
<1>5. CASE m # {} /\ t # {} /\ ~(IsList(m) \/ IsList(t) \/ IsList({}))
  <2>1. r = m
    BY <1>5 DEF MergeAlias, MergeWhole
  <2> HIDE DEF r
  <2> QED BY <2>1, MergeUnchanged DEF r
<1> QED BY <1>3, <1>4, <1>5

(* An entry that only one side changed is that side's, and one both left   *)
(* the same is that.  A list both changed keeps what both hold, holds only *)
(* what one of them does, and like the timestamp does not depend on which  *)
(* side merges: two nodes that merge the same pair agree on it             *)
(* (mergeValues, mergeAttributes and mergeEntry of directory_merge.js).    *)
THEOREM MergeLaws ==
  ASSUME NEW base \in MaybeEntry, NEW mine \in Entry, NEW theirs \in Entry
  PROVE  LET v == MergeEntry(base, mine, theirs).entry
             w == MergeEntry(base, theirs, mine).entry
         IN  /\ theirs = base => v = mine
             /\ mine = base => v = theirs
             /\ mine = theirs => v = mine
             /\ OneVersion(base, mine, theirs) =>
                  /\ v.uuid = w.uuid /\ v.list = w.list /\ v.stamp = w.stamp
                  /\ mine.list \cap theirs.list \subseteq v.list
                  /\ v.list \subseteq mine.list \cup theirs.list
<1> DEFINE v == MergeEntry(base, mine, theirs).entry
           w == MergeEntry(base, theirs, mine).entry
<1>1. mine # Absent /\ theirs # Absent
  BY NotAbsent
<1>2. v = IF AnotherEntry(base, mine, theirs) THEN theirs
          ELSE IF ReCreated(base, mine) THEN mine
          ELSE MergeAttributes(base, mine, theirs)
  BY <1>1, MergeOfTwo, VerdictFields
<1> HIDE DEF v, w
<1>3. ASSUME theirs = base PROVE v = mine
  <2>1. BaseOf(base) = theirs
    BY <1>1, <1>3 DEF BaseOf
  <2>2. CASE mine.uuid = base.uuid
    <3>1. MergeAttributes(base, mine, theirs) = mine
      BY <1>3, <2>1, <2>2, MergeByAttribute, MergeUnchanged, MergeListLaws
    <3> QED BY <1>1, <1>2, <1>3, <2>2, <3>1 DEF AnotherEntry, ReCreated
  <2>3. CASE mine.uuid # base.uuid
    BY <1>1, <1>2, <1>3, <2>3 DEF AnotherEntry, ReCreated
  <2> QED BY <2>2, <2>3
<1>4. ASSUME mine = base PROVE v = theirs
  <2>1. BaseOf(base) = mine
    BY <1>1, <1>4 DEF BaseOf
  <2>2. MergeAttributes(base, mine, theirs) = theirs
    BY <2>1, MergeByAttribute, MergeUnchanged, MergeListLaws
  <2> QED BY <1>1, <1>2, <1>4, <2>2 DEF AnotherEntry, ReCreated
<1>5. ASSUME mine = theirs PROVE v = mine
  <2>1. MergeAttributes(base, mine, theirs) = mine
    BY <1>5, MergeByAttribute, MergeUnchanged, MergeListLaws
  <2> QED BY <1>2, <1>5, <2>1 DEF AnotherEntry, ReCreated
<1>6. ASSUME OneVersion(base, mine, theirs)
      PROVE  /\ v.uuid = w.uuid /\ v.list = w.list /\ v.stamp = w.stamp
             /\ mine.list \cap theirs.list \subseteq v.list
             /\ v.list \subseteq mine.list \cup theirs.list
  <2> DEFINE b == BaseOf(base)
  <2>1. v = MergeAttributes(base, mine, theirs)
    BY <1>1, <1>6, MergeOneEntry DEF v
  <2>2. OneVersion(base, theirs, mine)
    BY <1>6 DEF OneVersion
  <2>3. w = MergeAttributes(base, theirs, mine)
    BY <1>1, <2>2, MergeOneEntry DEF w
  <2>4. /\ v.uuid = theirs.uuid /\ v.list = MergeList(b.list, mine.list, theirs.list)
        /\ v.stamp = MergeStamp(b.stamp, mine.stamp, theirs.stamp)
    BY <2>1 DEF MergeAttributes, BaseOf
  <2>5. /\ w.uuid = mine.uuid /\ w.list = MergeList(b.list, theirs.list, mine.list)
        /\ w.stamp = MergeStamp(b.stamp, theirs.stamp, mine.stamp)
    BY <2>3 DEF MergeAttributes, BaseOf
  <2>6. mine.stamp \in Nat /\ theirs.stamp \in Nat
    BY DEF Entry
  <2> HIDE DEF b
  <2>7. v.stamp = w.stamp
    BY <2>4, <2>5, <2>6 DEF MergeStamp
  <2> QED BY <1>6, <2>4, <2>5, <2>7, MergeListLaws DEF OneVersion
<1> QED BY <1>3, <1>4, <1>5, <1>6 DEF v, w

(* A flush whose answer was lost is tried again from the old base and      *)
(* meets its own row: it writes what it wrote, nothing doubled and nothing *)
(* undone (mergeEntry; the retry of this process's own write).  For a list *)
(* that is one only by its number of values, here the aliases, this needs  *)
(* that the merge found no base or no values: mergeAttributes counts the   *)
(* values of the row, and its own write may have left a single one.        *)
THEOREM RetriedMerge ==
  ASSUME NEW base \in MaybeEntry, NEW mine \in MaybeEntry, NEW theirs \in MaybeEntry,
         \A x \in {mine, theirs} : x # Absent => IsFiniteSet(x.alias),
         base # Absent => \A x \in {base, mine, theirs} : x # Absent => x.alias = {},
         MergeEntry(base, mine, theirs).outcome \in {"mine", "merged"}
  PROVE  LET e == MergeEntry(base, mine, theirs).entry
         IN  MergeEntry(base, mine, e).entry = e
<1> DEFINE v == MergeEntry(base, mine, theirs)
           e == v.entry
           b == BaseOf(base)
<1>1. mine # Absent /\ mine \in Entry
  <2>1. mine # Absent
    <3>1. CASE mine = Absent
      <4>1. v.outcome = "deleted"
        BY <3>1, MergeDeleted, VerdictFields
      <4> QED BY <4>1
    <3> QED BY <3>1
  <2> QED BY <2>1, EntryFields
<1>2. CASE e = mine
  BY <1>1, <1>2, MergeLaws
<1>3. CASE e # mine
  <2>1. /\ theirs # Absent /\ theirs \in Entry
    <3>1. theirs # Absent
      BY <1>3, MergeFacts DEF SameUuid
    <3> QED BY <3>1, EntryFields
  <2>2. OneVersion(base, mine, theirs)
    BY <1>3, MergeFacts DEF SameUuid, OneVersion
  <2>3. e = MergeAttributes(base, mine, theirs)
    BY <1>1, <2>1, <2>2, MergeOneEntry
  <2>4. /\ e.uuid = theirs.uuid /\ e.alias = MergeAlias(b.alias, mine.alias, theirs.alias)
        /\ e.list = MergeList(b.list, mine.list, theirs.list)
        /\ e.secret = MergeWhole(b.secret, mine.secret, theirs.secret)
        /\ e.stamp = MergeStamp(b.stamp, mine.stamp, theirs.stamp)
    BY <2>3 DEF MergeAttributes, BaseOf
  <2>5. e \in Entry
    BY <1>1, <2>1, <2>3, MergedFields
  <2>6. mine.stamp \in Nat /\ theirs.stamp \in Nat
    BY <1>1, <2>1 DEF Entry
  <2> HIDE DEF e, v
  <2>7. e.alias = MergeAlias(b.alias, mine.alias, e.alias)
    <3>1. CASE base = Absent
      <4>1. b.alias = {}
        BY <3>1 DEF BaseOf, Nothing
      <4>2. IsFiniteSet(mine.alias) /\ IsFiniteSet(theirs.alias)
        BY <1>1, <2>1
      <4> HIDE DEF b
      <4> QED BY <2>4, <4>1, <4>2, MergeAgain
    <3>2. CASE base # Absent
      <4>1. b.alias = {} /\ mine.alias = {} /\ theirs.alias = {}
        BY <1>1, <2>1, <3>2 DEF BaseOf
      <4>2. e.alias = {}
        <5>1. e.alias = MergeAlias({}, {}, {})
          BY <2>4, <4>1
        <5> QED BY <5>1, MergeUnchanged
      <4>3. {} = MergeAlias({}, {}, {})
        BY MergeUnchanged
      <4> QED BY <4>1, <4>2, <4>3
    <3> QED BY <3>1, <3>2
  <2>8. e.list = MergeList(b.list, mine.list, e.list)
    BY <2>4, MergeListLaws
  <2>9. e.secret = MergeWhole(b.secret, mine.secret, e.secret)
    BY <2>4 DEF MergeWhole
  <2>10. e.stamp = MergeStamp(b.stamp, mine.stamp, e.stamp)
    BY <2>4, <2>6 DEF MergeStamp
  <2>11. MergeAttributes(base, mine, e) = e
    BY <2>5, <2>7, <2>8, <2>9, <2>10, MergeByAttribute DEF b
  <2>12. OneVersion(base, mine, e)
    BY <2>2, <2>4 DEF OneVersion
  <2> QED BY <1>1, <2>5, <2>11, <2>12, MergeOneEntry, NotAbsent DEF e, v
<1> QED BY <1>2, <1>3

-----------------------------------------------------------------------------
(* Types, and the shape of a flush: what of a row goes with what.          *)

RowSet == [op : {"none", "upsert", "delete"}, base : MaybeEntry, sent : MaybeEntry,
           mine : MaybeEntry, held : BOOLEAN, over : BOOLEAN,
           outcome : {"none", "theirs", "merged", "deleted"}, entry : MaybeEntry]
FlightSet == [stage : {"idle", "taken", "written"}, gen : Nat, rows : [Dn -> RowSet]]
ReadSet == [dn : Dn \cup {Absent}, row : MaybeEntry, late : BOOLEAN]

Row(n, d) == flight[n].rows[d]

(* The entry a flush finds when it comes to the row.                       *)
Mine(n, d) == IF Row(n, d).held THEN live[n][d] ELSE Row(n, d).mine

DirTypes ==
  /\ store \in [Dn -> MaybeEntry]
  /\ live \in [Node -> [Dn -> MaybeEntry]] /\ shadow \in [Node -> [Dn -> MaybeEntry]]
  /\ dirty \in [Node -> BOOLEAN] /\ everything \in [Node -> BOOLEAN] /\ wake \in [Node -> BOOLEAN]
  /\ journal \in [Node -> SUBSET Dn] /\ todo \in [Node -> SUBSET Dn]
  /\ gen \in [Node -> Nat] /\ committed \in [Node -> Nat] /\ failures \in [Node -> Nat]
  /\ flight \in [Node -> FlightSet] /\ reading \in [Node -> ReadSet]
  /\ overtaken \in [Node -> BOOLEAN]
  /\ life \in [Member -> Lives] /\ since \in [Member -> Nat]
  /\ used \subseteq Uuid /\ changes \in Nat /\ troubles \in Nat

RowShape(n, d) ==
  LET r == Row(n, d)
      stage == flight[n].stage
  IN  /\ r.op = "none" => r.outcome = "none" /\ ~r.held /\ ~r.over
      /\ r.op = "delete" => r.sent = Absent /\ r.outcome = "none" /\ ~r.held
      /\ r.op = "upsert" => r.sent # Absent
      /\ r.op = "upsert" /\ stage = "taken" => SameUuid(r.sent, Mine(n, d))
      /\ stage = "idle" => r.op = "none"
      /\ r.held => stage = "taken"
      /\ r.outcome # "none" => stage = "written"
      /\ r.outcome = "theirs" => r.entry # Absent
      /\ r.outcome = "merged" => SameUuid(r.sent, r.entry)
      /\ r.outcome = "deleted" => r.entry = Absent

GenShape(n) == /\ committed[n] <= gen[n] /\ flight[n].gen <= gen[n]
               /\ reading[n].late => flight[n].stage = "written"

DirShape == DirTypes /\ \A n \in Node : GenShape(n) /\ \A d \in Dn : RowShape(n, d)

LEMMA ShapeImplies == DirShape => DirTypeOK
BY DEF DirShape, DirTypes, DirTypeOK, GenShape, FlightSet, ReadSet

LEMMA AbsentIsEntry == Absent \in MaybeEntry /\ Entry \subseteq MaybeEntry
BY DEF MaybeEntry

LEMMA NoWriteRow == NoWrite \in RowSet
BY AbsentIsEntry DEF NoWrite, RowSet

LEMMA RowParts ==
  ASSUME DirTypes, NEW n \in Node, NEW d \in Dn
  PROVE  /\ store[d] \in MaybeEntry /\ live[n][d] \in MaybeEntry /\ shadow[n][d] \in MaybeEntry
         /\ Row(n, d) \in RowSet /\ Mine(n, d) \in MaybeEntry
         /\ Row(n, d).op \in {"none", "upsert", "delete"}
         /\ Row(n, d).outcome \in {"none", "theirs", "merged", "deleted"}
         /\ Row(n, d).base \in MaybeEntry /\ Row(n, d).sent \in MaybeEntry
         /\ Row(n, d).mine \in MaybeEntry /\ Row(n, d).entry \in MaybeEntry
         /\ Row(n, d).held \in BOOLEAN /\ Row(n, d).over \in BOOLEAN
         /\ flight[n].stage \in {"idle", "taken", "written"} /\ flight[n].gen \in Nat
         /\ reading[n].row \in MaybeEntry /\ reading[n].dn \in Dn \cup {Absent}
         /\ reading[n].late \in BOOLEAN
<1>1. flight[n] \in FlightSet /\ reading[n] \in ReadSet /\ store[d] \in MaybeEntry
      /\ live[n][d] \in MaybeEntry /\ shadow[n][d] \in MaybeEntry
  BY DEF DirTypes
<1>2. Row(n, d) \in RowSet
  BY <1>1 DEF Row, FlightSet
<1>3. /\ flight[n].stage \in {"idle", "taken", "written"} /\ flight[n].gen \in Nat
      /\ reading[n].row \in MaybeEntry /\ reading[n].dn \in Dn \cup {Absent}
      /\ reading[n].late \in BOOLEAN
  BY <1>1 DEF FlightSet, ReadSet
<1> QED BY <1>1, <1>2, <1>3 DEF RowSet, Mine

(* The flush lets go of the live object of one row.                        *)
Aside(n, d, r) ==
  /\ r.op = Row(n, d).op /\ r.base = Row(n, d).base /\ r.sent = Row(n, d).sent
  /\ r.outcome = Row(n, d).outcome /\ r.entry = Row(n, d).entry
  /\ ~r.held /\ r.mine = Mine(n, d)

FlightBut(n, d, f) ==
  /\ f \in [Node -> FlightSet] /\ \A m \in Node \ {n} : f[m] = flight[m]
  /\ f[n].stage = flight[n].stage /\ f[n].gen = flight[n].gen
  /\ \A k \in Dn \ {d} : f[n].rows[k] = Row(n, k)

LEMMA DetachedFields ==
  ASSUME DirTypes, NEW n \in Node, NEW d \in Dn
  PROVE  LET f == Detached(n, d)
         IN  /\ FlightBut(n, d, f) /\ Aside(n, d, f[n].rows[d])
             /\ f[n].rows[d].over = Row(n, d).over
<1> DEFINE was == Row(n, d)
           row == IF was.held THEN [was EXCEPT !.held = FALSE, !.mine = live[n][d]] ELSE was
           of == [flight[n] EXCEPT !.rows = [flight[n].rows EXCEPT ![d] = row]]
<1>1. was \in RowSet /\ live[n][d] \in MaybeEntry /\ was.held \in BOOLEAN
  BY RowParts
<1>2. row \in RowSet /\ Aside(n, d, row) /\ row.over = was.over
  <2>1. CASE was.held
    <3> DEFINE a == [was EXCEPT !.held = FALSE]
               b == [a EXCEPT !.mine = live[n][d]]
    <3>1. a \in RowSet /\ a.held = FALSE /\ a.op = was.op /\ a.base = was.base
          /\ a.sent = was.sent /\ a.outcome = was.outcome /\ a.entry = was.entry
          /\ a.over = was.over
      BY <1>1 DEF RowSet
    <3> HIDE DEF a
    <3>2. b \in RowSet /\ b.held = a.held /\ b.op = a.op /\ b.base = a.base
          /\ b.sent = a.sent /\ b.outcome = a.outcome /\ b.entry = a.entry
          /\ b.over = a.over /\ b.mine = live[n][d]
      BY <1>1, <3>1 DEF RowSet
    <3>3. row = b
      BY <2>1 DEF a
    <3> HIDE DEF b, row, was
    <3> QED BY <2>1, <3>1, <3>2, <3>3 DEF Aside, Mine, was
  <2>2. CASE ~was.held
    BY <1>1, <2>2 DEF Aside, Mine
  <2> QED BY <2>1, <2>2
<1>3. flight \in [Node -> FlightSet] /\ flight[n] \in FlightSet
      /\ flight[n].rows \in [Dn -> RowSet]
  BY DEF DirTypes, FlightSet
<1>4. Detached(n, d) = [flight EXCEPT ![n] = of]
  BY <1>3 DEF Detached, Row
<1> HIDE DEF row, was
<1>5. of \in FlightSet /\ of.stage = flight[n].stage /\ of.gen = flight[n].gen
      /\ of.rows[d] = row /\ \A k \in Dn \ {d} : of.rows[k] = flight[n].rows[k]
  <2> DEFINE rows == [flight[n].rows EXCEPT ![d] = row]
  <2>1. rows \in [Dn -> RowSet] /\ rows[d] = row
        /\ \A k \in Dn \ {d} : rows[k] = flight[n].rows[k]
    BY <1>2, <1>3
  <2> HIDE DEF rows
  <2>2. [flight[n] EXCEPT !.rows = rows] \in FlightSet
        /\ [flight[n] EXCEPT !.rows = rows].rows = rows
        /\ [flight[n] EXCEPT !.rows = rows].stage = flight[n].stage
        /\ [flight[n] EXCEPT !.rows = rows].gen = flight[n].gen
    BY <1>3, <2>1 DEF FlightSet
  <2> QED BY <2>1, <2>2 DEF rows
<1> HIDE DEF of
<1>6. [flight EXCEPT ![n] = of] \in [Node -> FlightSet] /\ [flight EXCEPT ![n] = of][n] = of
      /\ \A m \in Node \ {n} : [flight EXCEPT ![n] = of][m] = flight[m]
  BY <1>3, <1>5
<1> QED BY <1>2, <1>4, <1>5, <1>6 DEF FlightBut, Row, was

LEMMA ReplacedFields ==
  ASSUME DirTypes, NEW n \in Node, NEW d \in Dn
  PROVE  LET f == Replaced(n, d)
         IN  /\ FlightBut(n, d, f) /\ Aside(n, d, f[n].rows[d])
             /\ f[n].rows[d].over = (Row(n, d).op # "none")
<1> DEFINE g == Detached(n, d)
           over == Row(n, d).op # "none"
           row == [g[n].rows[d] EXCEPT !.over = over]
           of == [g[n] EXCEPT !.rows = [g[n].rows EXCEPT ![d] = row]]
<1>1. FlightBut(n, d, g) /\ Aside(n, d, g[n].rows[d])
  BY DetachedFields
<1>2. g \in [Node -> FlightSet] /\ g[n] \in FlightSet /\ g[n].rows \in [Dn -> RowSet]
      /\ g[n].rows[d] \in RowSet
  BY <1>1 DEF FlightBut, FlightSet
<1>3. Replaced(n, d) = [g EXCEPT ![n] = of]
  BY <1>2 DEF Replaced, Row
<1>4. over \in BOOLEAN
  OBVIOUS
<1> HIDE DEF g, over
<1>5. row \in RowSet /\ row.over = over /\ row.op = g[n].rows[d].op
      /\ row.base = g[n].rows[d].base /\ row.sent = g[n].rows[d].sent
      /\ row.mine = g[n].rows[d].mine /\ row.held = g[n].rows[d].held
      /\ row.outcome = g[n].rows[d].outcome /\ row.entry = g[n].rows[d].entry
  BY <1>2, <1>4 DEF RowSet
<1> HIDE DEF row
<1>6. of \in FlightSet /\ of.stage = g[n].stage /\ of.gen = g[n].gen
      /\ of.rows[d] = row /\ \A k \in Dn \ {d} : of.rows[k] = g[n].rows[k]
  <2> DEFINE rows == [g[n].rows EXCEPT ![d] = row]
  <2>1. rows \in [Dn -> RowSet] /\ rows[d] = row
        /\ \A k \in Dn \ {d} : rows[k] = g[n].rows[k]
    BY <1>2, <1>5
  <2> HIDE DEF rows
  <2>2. [g[n] EXCEPT !.rows = rows] \in FlightSet
        /\ [g[n] EXCEPT !.rows = rows].rows = rows
        /\ [g[n] EXCEPT !.rows = rows].stage = g[n].stage
        /\ [g[n] EXCEPT !.rows = rows].gen = g[n].gen
    BY <1>2, <2>1 DEF FlightSet
  <2> QED BY <2>1, <2>2 DEF rows
<1> HIDE DEF of
<1>7. [g EXCEPT ![n] = of] \in [Node -> FlightSet] /\ [g EXCEPT ![n] = of][n] = of
      /\ \A m \in Node \ {n} : [g EXCEPT ![n] = of][m] = g[m]
  BY <1>2, <1>6
<1>8. FlightBut(n, d, Replaced(n, d))
  BY <1>1, <1>3, <1>6, <1>7 DEF FlightBut
<1>9. Replaced(n, d)[n].rows[d] = row
  BY <1>3, <1>6, <1>7
<1>10. Aside(n, d, row)
  BY <1>1, <1>5 DEF Aside
<1> QED BY <1>5, <1>8, <1>9, <1>10 DEF over

-----------------------------------------------------------------------------
(* What each action does, entry by entry.                                  *)

Pend(n, d) == dirty[n] /\ (everything[n] \/ d \in journal[n])

OthersStay(n) == \A m \in Node \ {n} :
  /\ live'[m] = live[m] /\ shadow'[m] = shadow[m] /\ flight'[m] = flight[m]
  /\ reading'[m] = reading[m] /\ overtaken'[m] = overtaken[m]
  /\ dirty'[m] = dirty[m] /\ everything'[m] = everything[m] /\ journal'[m] = journal[m]
  /\ gen'[m] = gen[m] /\ committed'[m] = committed[m] /\ failures'[m] = failures[m]

Alike(a, b) ==
  /\ a # Absent /\ b # Absent
  /\ a.uuid = b.uuid /\ a.alias = b.alias /\ a.secret = b.secret

LocalEffect(n, d, e) ==
  /\ OthersStay(n)
  /\ store' = store /\ shadow' = shadow /\ reading' = reading /\ committed' = committed
  /\ failures' = failures /\ overtaken' = overtaken /\ todo' = todo
  /\ changes' = changes + 1 /\ (e # Absent => e.stamp = changes + 1)
  /\ live'[n][d] = e /\ \A k \in Dn \ {d} : live'[n][k] = live[n][k]
  /\ flight'[n].stage = flight[n].stage /\ flight'[n].gen = flight[n].gen
  /\ \A k \in Dn \ {d} : Row(n, k)' = Row(n, k)
  /\ \/ Row(n, d)' = Row(n, d) /\ e # Absent /\ live[n][d] # Absent
     \/ Aside(n, d, Row(n, d)') /\ Row(n, d)'.over = Row(n, d).over
  /\ gen'[n] = gen[n] + 1 /\ Pend(n, d)' /\ \A k \in Dn : Pend(n, k) => Pend(n, k)'

LEMMA Marks ==
  ASSUME DirTypes, NEW n \in Node, NEW d \in Dn, Named(n, d) \/ Unnamed(n)
  PROVE  /\ dirty' \in [Node -> BOOLEAN] /\ everything' \in [Node -> BOOLEAN]
         /\ wake' \in [Node -> BOOLEAN] /\ journal' \in [Node -> SUBSET Dn]
         /\ gen' \in [Node -> Nat]
         /\ gen'[n] = gen[n] + 1 /\ Pend(n, d)' /\ \A k \in Dn : Pend(n, k) => Pend(n, k)'
         /\ \A m \in Node \ {n} : /\ dirty'[m] = dirty[m] /\ everything'[m] = everything[m]
                                  /\ journal'[m] = journal[m] /\ gen'[m] = gen[m]
<1>1. /\ dirty \in [Node -> BOOLEAN] /\ everything \in [Node -> BOOLEAN]
      /\ wake \in [Node -> BOOLEAN] /\ journal \in [Node -> SUBSET Dn] /\ gen \in [Node -> Nat]
  BY DEF DirTypes
<1>2. CASE Named(n, d)
  BY <1>1, <1>2 DEF Named, Pend
<1>3. CASE Unnamed(n)
  BY <1>1, <1>3 DEF Unnamed, Pend
<1> QED BY <1>2, <1>3

LEMMA ChangesDoes ==
  ASSUME DirTypes, NEW n \in Node, NEW d \in Dn, NEW f \in MaybeEntry, Changes(n, d, f),
         life' \in [Member -> Lives], since' \in [Member -> Nat], used' \subseteq Uuid
  PROVE  /\ DirTypes'
         /\ \E e \in MaybeEntry :
              /\ LocalEffect(n, d, e)
              /\ f = Absent => e = Absent
              /\ f # Absent => Alike(f, e) /\ e.list = f.list
<1> DEFINE e == IF f = Absent THEN f ELSE [f EXCEPT !.stamp = changes + 1]
<1>1. changes + 1 \in Nat /\ live \in [Node -> [Dn -> MaybeEntry]] /\ flight \in [Node -> FlightSet]
  BY DEF DirTypes
<1>2. e \in MaybeEntry
      /\ (f # Absent => Alike(f, e) /\ e.list = f.list /\ e.stamp = changes + 1)
  <2>1. CASE f = Absent
    BY <2>1
  <2>2. CASE f # Absent
    <3>1. f \in Entry
      BY <2>2, EntryFields
    <3>2. e \in Entry /\ e.list = f.list /\ e.uuid = f.uuid /\ e.alias = f.alias
          /\ e.secret = f.secret /\ e.stamp = changes + 1
      BY <1>1, <2>2, <3>1, StampFields
    <3>3. e # Absent
      BY <3>2, NotAbsent
    <3> HIDE DEF e
    <3> QED BY <2>2, <3>2, <3>3, AbsentIsEntry DEF Alike
  <2> QED BY <2>1, <2>2
<1>3. live' = [live EXCEPT ![n][d] = e]
  BY DEF Changes
<1>4. ((f = Absent) <=> (e = Absent)) /\ (e # Absent => e.stamp = changes + 1)
  BY <1>2 DEF Alike
<1> HIDE DEF e
<1>5. live' \in [Node -> [Dn -> MaybeEntry]] /\ live'[n][d] = e
      /\ (\A k \in Dn \ {d} : live'[n][k] = live[n][k])
      /\ \A m \in Node \ {n} : live'[m] = live[m]
  BY <1>1, <1>2, <1>3
<1>6. \/ f # Absent /\ live[n][d] # Absent /\ flight' = flight
      \/ flight' = Detached(n, d)
  BY DEF Changes
<1>7. FlightBut(n, d, flight')
  <2>1. CASE flight' = flight
    BY <1>1, <2>1 DEF FlightBut, Row
  <2>2. CASE flight' = Detached(n, d)
    BY <2>2, DetachedFields
  <2> QED BY <1>6, <2>1, <2>2
<1>8. \/ flight' = flight /\ e # Absent /\ live[n][d] # Absent
      \/ Aside(n, d, flight'[n].rows[d]) /\ flight'[n].rows[d].over = Row(n, d).over
  BY <1>4, <1>6, DetachedFields
<1>9. Named(n, d) \/ Unnamed(n)
  BY DEF Changes
<1>10. /\ dirty' \in [Node -> BOOLEAN] /\ everything' \in [Node -> BOOLEAN]
       /\ wake' \in [Node -> BOOLEAN] /\ journal' \in [Node -> SUBSET Dn] /\ gen' \in [Node -> Nat]
       /\ gen'[n] = gen[n] + 1 /\ Pend(n, d)' /\ \A k \in Dn : Pend(n, k) => Pend(n, k)'
       /\ \A m \in Node \ {n} : /\ dirty'[m] = dirty[m] /\ everything'[m] = everything[m]
                                /\ journal'[m] = journal[m] /\ gen'[m] = gen[m]
  BY <1>9, Marks
<1>11. /\ store' = store /\ shadow' = shadow /\ committed' = committed /\ failures' = failures
       /\ todo' = todo /\ reading' = reading /\ overtaken' = overtaken /\ troubles' = troubles
       /\ changes' = changes + 1
  BY DEF Changes
<1>12. DirTypes'
  BY <1>1, <1>5, <1>7, <1>10, <1>11 DEF DirTypes, FlightBut
<1>13. OthersStay(n)
  BY <1>5, <1>7, <1>10, <1>11 DEF OthersStay, FlightBut
<1>14. LocalEffect(n, d, e)
  <2>1. \A k \in Dn \ {d} : Row(n, k)' = Row(n, k)
    BY <1>7 DEF FlightBut, Row
  <2>2. \/ Row(n, d)' = Row(n, d) /\ e # Absent /\ live[n][d] # Absent
        \/ Aside(n, d, Row(n, d)') /\ Row(n, d)'.over = Row(n, d).over
    BY <1>8 DEF Row
  <2> QED BY <1>4, <1>5, <1>7, <1>10, <1>11, <1>13, <2>1, <2>2 DEF LocalEffect, FlightBut
<1> QED BY <1>2, <1>4, <1>12, <1>14

(* The four kinds of local change.                                         *)
Adds(n, d, e, v) ==
  /\ Home[v] = d /\ Author[v] = n /\ life[v] = "unused"
  /\ Alike(live[n][d], e) /\ e.list = live[n][d].list \cup {v}
  /\ life' = [life EXCEPT ![v] = "added"] /\ since' = [since EXCEPT ![v] = gen[n] + 1]
Removes(n, d, e, v) ==
  /\ Home[v] = d /\ v \in live[n][d].list
  /\ Alike(live[n][d], e) /\ e.list = live[n][d].list \ {v}
  /\ life' = [life EXCEPT ![v] = IF @ = "gone" THEN @ ELSE "removed"] /\ since' = since
Creates(n, d, e) ==
  /\ live[n][d] = Absent
  /\ e # Absent /\ e.alias = {} /\ e.list = {} /\ e.secret = e.uuid
  /\ e.uuid \in used' \ used
  /\ life' = life /\ since' = since
Deletes(n, d, e) ==
  /\ live[n][d] # Absent /\ e = Absent
  /\ life' = GivenUp(n, {d}) /\ since' = since

LocalKind(n, d, e) ==
  \/ \E v \in Member : Adds(n, d, e, v) \/ Removes(n, d, e, v)
  \/ Creates(n, d, e) \/ Deletes(n, d, e)

LEMMA GivenUpTyped ==
  ASSUME DirTypes, NEW n \in Node, NEW S \in SUBSET Dn
  PROVE  GivenUp(n, S) \in [Member -> Lives]
BY DEF GivenUp, DirTypes, Lives

LEMMA LocalDoes ==
  ASSUME DirTypes, NEW n \in Node, LocalStep(n)
  PROVE  /\ DirTypes'
         /\ \E d \in Dn, e \in MaybeEntry : LocalEffect(n, d, e) /\ LocalKind(n, d, e)
<1>0. live[n] \in [Dn -> MaybeEntry] /\ Home \in [Member -> Dn] /\ life \in [Member -> Lives]
      /\ since \in [Member -> Nat] /\ gen[n] \in Nat /\ used \subseteq Uuid
  BY DirConstants DEF DirTypes
<1>1. ASSUME NEW v \in Member, AddMember(n, v)
      PROVE  /\ DirTypes'
             /\ \E e \in MaybeEntry : LocalEffect(n, Home[v], e) /\ Adds(n, Home[v], e, v)
  <2> DEFINE d == Home[v]
             f == [live[n][d] EXCEPT !.list = live[n][d].list \cup {v}]
  <2>1. d \in Dn /\ live[n][d] \in MaybeEntry /\ live[n][d] # Absent
    BY <1>0, <1>1 DEF AddMember
  <2>2. live[n][d] \in Entry /\ live[n][d].list \cup {v} \in SUBSET Member
    BY <2>1, EntryFields
  <2>3. /\ f \in Entry /\ f.list = live[n][d].list \cup {v} /\ f.uuid = live[n][d].uuid
        /\ f.alias = live[n][d].alias /\ f.secret = live[n][d].secret
    BY <2>2, ListFields
  <2>4. Changes(n, d, f)
    BY <1>1 DEF AddMember
  <2>5. /\ Author[v] = n /\ life[v] = "unused" /\ life' = [life EXCEPT ![v] = "added"]
        /\ since' = [since EXCEPT ![v] = gen[n] + 1] /\ used' = used
    BY <1>1 DEF AddMember
  <2>6. life' \in [Member -> Lives] /\ since' \in [Member -> Nat] /\ used' \subseteq Uuid
    BY <1>0, <2>5 DEF Lives
  <2> HIDE DEF f
  <2>7. f # Absent /\ f \in MaybeEntry
    BY <2>3, NotAbsent, AbsentIsEntry
  <2>8. PICK e \in MaybeEntry : LocalEffect(n, d, e) /\ Alike(f, e) /\ e.list = f.list
    BY <2>1, <2>4, <2>6, <2>7, ChangesDoes
  <2>9. DirTypes'
    BY <2>1, <2>4, <2>6, <2>7, ChangesDoes
  <2>10. Adds(n, d, e, v)
    BY <2>1, <2>3, <2>5, <2>8 DEF Adds, Alike
  <2> QED BY <2>8, <2>9, <2>10
<1>2. ASSUME NEW v \in Member, RemoveMember(n, v)
      PROVE  /\ DirTypes'
             /\ \E e \in MaybeEntry : LocalEffect(n, Home[v], e) /\ Removes(n, Home[v], e, v)
  <2> DEFINE d == Home[v]
             f == [live[n][d] EXCEPT !.list = live[n][d].list \ {v}]
  <2>1. d \in Dn /\ live[n][d] \in MaybeEntry /\ live[n][d] # Absent
    BY <1>0, <1>2 DEF RemoveMember
  <2>2. live[n][d] \in Entry /\ live[n][d].list \ {v} \in SUBSET Member
    BY <2>1, EntryFields
  <2>3. /\ f \in Entry /\ f.list = live[n][d].list \ {v} /\ f.uuid = live[n][d].uuid
        /\ f.alias = live[n][d].alias /\ f.secret = live[n][d].secret
    BY <2>2, ListFields
  <2>4. Changes(n, d, f)
    BY <1>2 DEF RemoveMember
  <2>5. /\ v \in live[n][d].list
        /\ life' = [life EXCEPT ![v] = IF @ = "gone" THEN @ ELSE "removed"]
        /\ since' = since /\ used' = used
    BY <1>2 DEF RemoveMember
  <2>6. life' \in [Member -> Lives] /\ since' \in [Member -> Nat] /\ used' \subseteq Uuid
    BY <1>0, <2>5 DEF Lives
  <2> HIDE DEF f
  <2>7. f # Absent /\ f \in MaybeEntry
    BY <2>3, NotAbsent, AbsentIsEntry
  <2>8. PICK e \in MaybeEntry : LocalEffect(n, d, e) /\ Alike(f, e) /\ e.list = f.list
    BY <2>1, <2>4, <2>6, <2>7, ChangesDoes
  <2>9. DirTypes'
    BY <2>1, <2>4, <2>6, <2>7, ChangesDoes
  <2>10. Removes(n, d, e, v)
    BY <2>1, <2>3, <2>5, <2>8 DEF Removes, Alike
  <2> QED BY <2>8, <2>9, <2>10
<1>3. ASSUME NEW d \in Dn, NEW u \in Uuid, Create(n, d, u)
      PROVE  DirTypes' /\ \E e \in MaybeEntry : LocalEffect(n, d, e) /\ Creates(n, d, e)
  <2>1. New(u) \in Entry /\ New(u).uuid = u /\ New(u).alias = {} /\ New(u).list = {}
        /\ New(u).secret = u
    BY NewFields
  <2>2. New(u) \in MaybeEntry /\ New(u) # Absent
    BY <2>1, NotAbsent, AbsentIsEntry
  <2>3. /\ Changes(n, d, New(u)) /\ live[n][d] = Absent /\ life' = life /\ since' = since
        /\ used' = used \cup {u} /\ u \notin used
    BY <1>3 DEF Create
  <2>4. life' \in [Member -> Lives] /\ since' \in [Member -> Nat] /\ used' \subseteq Uuid
    BY <1>0, <2>3
  <2>5. PICK e \in MaybeEntry : LocalEffect(n, d, e) /\ Alike(New(u), e) /\ e.list = New(u).list
    BY <2>2, <2>3, <2>4, ChangesDoes
  <2>6. DirTypes'
    BY <2>2, <2>3, <2>4, ChangesDoes
  <2>7. Creates(n, d, e)
    BY <2>1, <2>3, <2>5 DEF Creates, Alike
  <2> QED BY <2>5, <2>6, <2>7
<1>4. ASSUME NEW d \in Dn, Delete(n, d)
      PROVE  DirTypes' /\ \E e \in MaybeEntry : LocalEffect(n, d, e) /\ Deletes(n, d, e)
  <2>1. /\ Changes(n, d, Absent) /\ live[n][d] # Absent /\ life' = GivenUp(n, {d})
        /\ since' = since /\ used' = used
    BY <1>4 DEF Delete
  <2>2. life' \in [Member -> Lives] /\ since' \in [Member -> Nat] /\ used' \subseteq Uuid
    BY <1>0, <2>1, GivenUpTyped
  <2>3. PICK e \in MaybeEntry : LocalEffect(n, d, e) /\ e = Absent
    BY <2>1, <2>2, AbsentIsEntry, ChangesDoes
  <2>4. DirTypes'
    BY <2>1, <2>2, AbsentIsEntry, ChangesDoes
  <2>5. Deletes(n, d, e)
    BY <2>1, <2>3 DEF Deletes
  <2> QED BY <2>3, <2>4, <2>5
<1>5. \A v \in Member : Home[v] \in Dn
  BY <1>0
<1> QED BY <1>1, <1>2, <1>3, <1>4, <1>5 DEF LocalStep, LocalKind

(* A flush that starts: what it has of each entry.                         *)
RowTaken(n, d, r) ==
  \/ r = NoWrite /\ (d \in Wanted(n) => live[n][d] = shadow[n][d])
  \/ /\ d \in Wanted(n) /\ live[n][d] = Absent /\ shadow[n][d] # Absent
     /\ r.op = "delete" /\ r.base = Absent /\ r.sent = Absent /\ r.mine = Absent
     /\ ~r.held /\ ~r.over /\ r.outcome = "none" /\ r.entry = Absent
  \/ /\ d \in Wanted(n) /\ live[n][d] # Absent /\ live[n][d] # shadow[n][d]
     /\ r.op = "upsert" /\ r.base = shadow[n][d] /\ r.sent = live[n][d] /\ r.mine = live[n][d]
     /\ r.held /\ ~r.over /\ r.outcome = "none" /\ r.entry = Absent

LEMMA RowOfDoes ==
  ASSUME DirTypes, NEW n \in Node, NEW d \in Dn
  PROVE  LET r == IF d \in Wanted(n) THEN RowOf(n, d) ELSE NoWrite
         IN  r \in RowSet /\ RowTaken(n, d, r)
<1> DEFINE r == IF d \in Wanted(n) THEN RowOf(n, d) ELSE NoWrite
<1>1. live[n][d] \in MaybeEntry /\ shadow[n][d] \in MaybeEntry
  BY RowParts
<1>2. CASE d \notin Wanted(n)
  BY <1>2, NoWriteRow DEF RowTaken
<1>3. CASE d \in Wanted(n) /\ live[n][d] = shadow[n][d]
  <2>1. r = NoWrite
    BY <1>3 DEF RowOf
  <2> QED BY <1>3, <2>1, NoWriteRow DEF RowTaken
<1>4. CASE d \in Wanted(n) /\ live[n][d] # shadow[n][d] /\ live[n][d] = Absent
  <2>1. r = [NoWrite EXCEPT !.op = "delete"]
    BY <1>4 DEF RowOf
  <2>2. r = [op |-> "delete", base |-> Absent, sent |-> Absent, mine |-> Absent, held |-> FALSE,
             over |-> FALSE, outcome |-> "none", entry |-> Absent]
    BY <2>1 DEF NoWrite
  <2> HIDE DEF r
  <2>3. r \in RowSet
    BY <2>2, AbsentIsEntry DEF RowSet
  <2>4. RowTaken(n, d, r)
    BY <1>4, <2>2 DEF RowTaken
  <2> QED BY <2>3, <2>4 DEF r
<1>5. CASE d \in Wanted(n) /\ live[n][d] # shadow[n][d] /\ live[n][d] # Absent
  <2> DEFINE was == shadow[n][d]
             is == live[n][d]
  <2>1. r = [NoWrite EXCEPT !.op = "upsert", !.base = was, !.sent = is, !.mine = is, !.held = TRUE]
    BY <1>5 DEF RowOf
  <2> HIDE DEF r
  <2>2. r = [op |-> "upsert", base |-> was, sent |-> is, mine |-> is, held |-> TRUE,
             over |-> FALSE, outcome |-> "none", entry |-> Absent]
    BY <2>1 DEF NoWrite
  <2>3. r \in RowSet
    BY <1>1, <2>2, AbsentIsEntry DEF RowSet
  <2>4. RowTaken(n, d, r)
    BY <1>5, <2>2 DEF RowTaken
  <2> QED BY <2>3, <2>4 DEF r
<1> QED BY <1>2, <1>3, <1>4, <1>5

TakeEffect(n) ==
  /\ OthersStay(n)
  /\ store' = store /\ live' = live /\ shadow' = shadow /\ reading' = reading
  /\ committed' = committed /\ failures' = failures /\ overtaken' = overtaken /\ gen' = gen
  /\ life' = life /\ since' = since /\ todo' = todo /\ changes' = changes
  /\ flight[n].stage = "idle" /\ flight'[n].stage = "taken" /\ flight'[n].gen = gen[n]
  /\ \A d \in Dn : RowTaken(n, d, Row(n, d)') /\ (Pend(n, d) => d \in Wanted(n))

LEMMA TakeDoes ==
  ASSUME DirTypes, NEW n \in Node, Take(n)
  PROVE  DirTypes' /\ TakeEffect(n)
<1> DEFINE rows == [d \in Dn |-> IF d \in Wanted(n) THEN RowOf(n, d) ELSE NoWrite]
           f == [stage |-> "taken", gen |-> gen[n], rows |-> rows]
<1>1. rows \in [Dn -> RowSet] /\ \A d \in Dn : RowTaken(n, d, rows[d])
  BY RowOfDoes
<1>2. flight' = [flight EXCEPT ![n] = f]
  BY DEF Take
<1> HIDE DEF rows
<1>3. gen[n] \in Nat /\ flight \in [Node -> FlightSet]
  BY DEF DirTypes
<1>4. f \in FlightSet /\ f.stage = "taken" /\ f.gen = gen[n] /\ f.rows = rows
  BY <1>1, <1>3 DEF FlightSet
<1> HIDE DEF f
<1>5. flight' \in [Node -> FlightSet] /\ flight'[n] = f
      /\ \A m \in Node \ {n} : flight'[m] = flight[m]
  BY <1>2, <1>3, <1>4
<1>6. /\ dirty' = [dirty EXCEPT ![n] = FALSE] /\ everything' = [everything EXCEPT ![n] = FALSE]
      /\ journal' = [journal EXCEPT ![n] = {}] /\ wake' = [wake EXCEPT ![n] = FALSE]
      /\ UNCHANGED <<store, live, shadow, gen, committed, failures, todo, reading, life, since,
                     overtaken, used, changes, troubles>>
      /\ flight[n].stage = "idle"
  BY DEF Take
<1>7. /\ dirty' \in [Node -> BOOLEAN] /\ everything' \in [Node -> BOOLEAN]
      /\ journal' \in [Node -> SUBSET Dn] /\ wake' \in [Node -> BOOLEAN]
      /\ \A m \in Node \ {n} : /\ dirty'[m] = dirty[m] /\ everything'[m] = everything[m]
                               /\ journal'[m] = journal[m]
  BY <1>6 DEF DirTypes
<1>8. DirTypes'
  BY <1>5, <1>6, <1>7 DEF DirTypes
<1>9. OthersStay(n)
  BY <1>5, <1>6, <1>7 DEF OthersStay
<1>10. \A d \in Dn : RowTaken(n, d, Row(n, d)')
  BY <1>1, <1>4, <1>5 DEF Row
<1>11. \A d \in Dn : Pend(n, d) => d \in Wanted(n)
  BY DEF Pend, Wanted
<1> QED BY <1>4, <1>5, <1>6, <1>8, <1>9, <1>10, <1>11 DEF TakeEffect

(* The steps that move nothing of an entry.                                *)
StillEffect(n) ==
  /\ OthersStay(n)
  /\ store' = store /\ live' = live /\ shadow' = shadow /\ flight' = flight /\ reading' = reading
  /\ failures' = failures /\ overtaken' = overtaken /\ gen' = gen /\ life' = life /\ since' = since
  /\ dirty' = dirty /\ everything' = everything /\ journal' = journal
  /\ todo' = todo /\ changes' = changes
  /\ \/ committed' = committed
     \/ committed'[n] = gen[n] /\ ~dirty[n] /\ flight[n].stage = "idle"

LEMMA TakeNothingDoes ==
  ASSUME DirTypes, NEW n \in Node, TakeNothing(n)
  PROVE  DirTypes' /\ StillEffect(n)
BY DEF DirTypes, TakeNothing, StillEffect, OthersStay

LEMMA FlushAskedDoes ==
  ASSUME DirTypes, NEW n \in Node, FlushAsked(n)
  PROVE  DirTypes' /\ StillEffect(n)
BY DEF DirTypes, FlushAsked, StillEffect, OthersStay

LEMMA IdleFlight == Idle \in FlightSet /\ Idle.stage = "idle" /\ Idle.gen = 0
                    /\ \A d \in Dn : Idle.rows[d] = NoWrite
BY NoWriteRow DEF Idle, FlightSet

LEMMA NotReadingSet == NotReading \in ReadSet /\ NotReading.dn = Absent /\ ~NotReading.late
BY AbsentIsEntry DEF NotReading, ReadSet

LEMMA NotLate ==
  ASSUME DirTypes, NEW n \in Node, reading' = [reading EXCEPT ![n].late = FALSE]
  PROVE  /\ reading' \in [Node -> ReadSet] /\ \A m \in Node \ {n} : reading'[m] = reading[m]
         /\ reading'[n].dn = reading[n].dn /\ reading'[n].row = reading[n].row
         /\ ~reading'[n].late
<1>1. reading \in [Node -> ReadSet] /\ reading[n] \in ReadSet
  BY DEF DirTypes
<1> DEFINE r == [reading[n] EXCEPT !.late = FALSE]
<1>2. r \in ReadSet /\ r.dn = reading[n].dn /\ r.row = reading[n].row /\ r.late = FALSE
  BY <1>1 DEF ReadSet
<1>3. reading' = [reading EXCEPT ![n] = r]
  OBVIOUS
<1> HIDE DEF r
<1> QED BY <1>1, <1>2, <1>3

FailEffect(n) ==
  /\ OthersStay(n)
  /\ store' = store /\ live' = live /\ shadow' = shadow
  /\ overtaken' = overtaken /\ gen' = gen /\ committed' = committed
  /\ life' = life /\ since' = since /\ todo' = todo /\ changes' = changes
  /\ flight'[n] = Idle /\ failures'[n] = failures[n] + 1
  /\ reading'[n].dn = reading[n].dn /\ reading'[n].row = reading[n].row /\ ~reading'[n].late

LEMMA FlushFailsDoes ==
  ASSUME DirTypes, NEW n \in Node, FlushFails(n)
  PROVE  DirTypes' /\ FailEffect(n)
<1>1. /\ troubles' = troubles + 1 /\ flight' = [flight EXCEPT ![n] = Idle]
      /\ dirty' = [dirty EXCEPT ![n] = TRUE] /\ failures' = [failures EXCEPT ![n] = failures[n] + 1]
      /\ reading' = [reading EXCEPT ![n].late = FALSE]
      /\ UNCHANGED <<store, live, shadow, everything, journal, wake, gen, committed, todo,
                     life, since, overtaken, used, changes>>
  BY DEF FlushFails
<1>2. /\ troubles \in Nat /\ flight \in [Node -> FlightSet] /\ dirty \in [Node -> BOOLEAN]
      /\ failures \in [Node -> Nat] /\ failures[n] + 1 \in Nat /\ troubles + 1 \in Nat
  BY DEF DirTypes
<1>3. flight' \in [Node -> FlightSet] /\ flight'[n] = Idle
      /\ \A m \in Node \ {n} : flight'[m] = flight[m]
  BY <1>1, <1>2, IdleFlight
<1>4. /\ reading' \in [Node -> ReadSet] /\ \A m \in Node \ {n} : reading'[m] = reading[m]
      /\ reading'[n].dn = reading[n].dn /\ reading'[n].row = reading[n].row /\ ~reading'[n].late
  BY <1>1, NotLate
<1>5. /\ dirty' \in [Node -> BOOLEAN] /\ failures' \in [Node -> Nat]
      /\ failures'[n] = failures[n] + 1
      /\ \A m \in Node \ {n} : dirty'[m] = dirty[m] /\ failures'[m] = failures[m]
  BY <1>1, <1>2
<1>6. DirTypes'
  BY <1>1, <1>2, <1>3, <1>4, <1>5 DEF DirTypes
<1>7. OthersStay(n)
  BY <1>1, <1>3, <1>4, <1>5 DEF OthersStay
<1> QED BY <1>1, <1>3, <1>4, <1>5, <1>6, <1>7 DEF FailEffect

ReadEffect(n, d) ==
  /\ OthersStay(n)
  /\ store' = store /\ live' = live /\ shadow' = shadow /\ flight' = flight
  /\ failures' = failures /\ overtaken' = overtaken /\ gen' = gen /\ committed' = committed
  /\ life' = life /\ since' = since
  /\ dirty' = dirty /\ everything' = everything /\ journal' = journal
  /\ changes' = changes /\ \A m \in Node \ {n} : todo'[m] = todo[m]
  /\ \A k \in Dn \ {d} : k \in todo[n] => k \in todo'[n]
  /\ reading[n] = NotReading
  /\ reading'[n].dn = d /\ reading'[n].row = store[d]
  /\ reading'[n].late <=> flight[n].stage = "written"

LEMMA ReadDoes ==
  ASSUME DirTypes, NEW n \in Node, NEW d \in Dn, Read(n, d)
  PROVE  DirTypes' /\ ReadEffect(n, d)
<1> DEFINE r == [dn |-> d, row |-> store[d], late |-> flight[n].stage = "written"]
<1>1. /\ reading' = [reading EXCEPT ![n] = r] /\ todo' = [todo EXCEPT ![n] = todo[n] \ {d}]
      /\ reading[n] = NotReading
      /\ UNCHANGED <<store, live, shadow, dirty, everything, journal, wake, gen, committed,
                     failures, flight, life, since, overtaken, used, changes, troubles>>
  BY DEF Read
<1>2. r \in ReadSet /\ r.dn = d /\ r.row = store[d] /\ (r.late <=> flight[n].stage = "written")
  BY DEF DirTypes, ReadSet
<1> HIDE DEF r
<1>3. reading \in [Node -> ReadSet] /\ todo \in [Node -> SUBSET Dn]
  BY DEF DirTypes
<1>4. /\ reading' \in [Node -> ReadSet] /\ reading'[n] = r /\ todo' \in [Node -> SUBSET Dn]
      /\ \A m \in Node \ {n} : reading'[m] = reading[m] /\ todo'[m] = todo[m]
      /\ todo'[n] = todo[n] \ {d}
  BY <1>1, <1>2, <1>3
<1>5. DirTypes'
  BY <1>1, <1>4 DEF DirTypes
<1> QED BY <1>1, <1>2, <1>4, <1>5 DEF ReadEffect, OthersStay

RestartEffect(n) ==
  /\ OthersStay(n)
  /\ store' = store /\ live'[n] = store /\ shadow'[n] = store
  /\ overtaken' = overtaken /\ gen'[n] = 0 /\ committed'[n] = 0 /\ failures'[n] = 0
  /\ flight'[n] = Idle /\ reading'[n] = NotReading
  /\ life' = GivenUp(n, Dn) /\ since' = since
  /\ changes' = changes /\ \A m \in Node \ {n} : todo'[m] = todo[m]

LEMMA RestartDoes ==
  ASSUME DirTypes, NEW n \in Node, Restart(n)
  PROVE  DirTypes' /\ RestartEffect(n)
<1>1. /\ troubles' = troubles + 1
      /\ live' = [live EXCEPT ![n] = store] /\ shadow' = [shadow EXCEPT ![n] = store]
      /\ dirty' = [dirty EXCEPT ![n] = FALSE] /\ everything' = [everything EXCEPT ![n] = FALSE]
      /\ journal' = [journal EXCEPT ![n] = {}] /\ wake' = [wake EXCEPT ![n] = FALSE]
      /\ gen' = [gen EXCEPT ![n] = 0] /\ committed' = [committed EXCEPT ![n] = 0]
      /\ failures' = [failures EXCEPT ![n] = 0]
      /\ flight' = [flight EXCEPT ![n] = Idle]
      /\ todo' = [todo EXCEPT ![n] = {}] /\ reading' = [reading EXCEPT ![n] = NotReading]
      /\ life' = GivenUp(n, Dn)
      /\ UNCHANGED <<store, since, overtaken, used, changes>>
  BY DEF Restart
<1>2. GivenUp(n, Dn) \in [Member -> Lives]
  BY GivenUpTyped
<1>3. /\ store \in [Dn -> MaybeEntry] /\ live \in [Node -> [Dn -> MaybeEntry]]
      /\ shadow \in [Node -> [Dn -> MaybeEntry]]
      /\ flight \in [Node -> FlightSet] /\ reading \in [Node -> ReadSet]
  BY DEF DirTypes
<1>4. /\ live' \in [Node -> [Dn -> MaybeEntry]] /\ live'[n] = store
      /\ shadow' \in [Node -> [Dn -> MaybeEntry]] /\ shadow'[n] = store
      /\ \A m \in Node \ {n} : live'[m] = live[m] /\ shadow'[m] = shadow[m]
  BY <1>1, <1>3
<1>5. /\ flight' \in [Node -> FlightSet] /\ flight'[n] = Idle
      /\ reading' \in [Node -> ReadSet] /\ reading'[n] = NotReading
      /\ \A m \in Node \ {n} : flight'[m] = flight[m] /\ reading'[m] = reading[m]
  BY <1>1, <1>3, IdleFlight, NotReadingSet
<1>6. /\ dirty' \in [Node -> BOOLEAN] /\ everything' \in [Node -> BOOLEAN]
      /\ journal' \in [Node -> SUBSET Dn] /\ wake' \in [Node -> BOOLEAN]
      /\ todo' \in [Node -> SUBSET Dn]
      /\ gen' \in [Node -> Nat] /\ committed' \in [Node -> Nat] /\ failures' \in [Node -> Nat]
      /\ troubles' \in Nat
      /\ gen'[n] = 0 /\ committed'[n] = 0 /\ failures'[n] = 0
      /\ \A m \in Node \ {n} : /\ dirty'[m] = dirty[m] /\ everything'[m] = everything[m]
                               /\ journal'[m] = journal[m] /\ gen'[m] = gen[m]
                               /\ committed'[m] = committed[m] /\ failures'[m] = failures[m]
                               /\ todo'[m] = todo[m]
  BY <1>1 DEF DirTypes
<1>7. DirTypes'
  BY <1>1, <1>2, <1>4, <1>5, <1>6 DEF DirTypes
<1>8. OthersStay(n)
  BY <1>1, <1>4, <1>5, <1>6 DEF OthersStay
<1> QED BY <1>1, <1>4, <1>5, <1>6, <1>7, <1>8 DEF RestartEffect

(* The transaction of a flush: what it makes of each row, and of the       *)
(* flush's own record of it.                                               *)
RowVerdict(n, d) == MergeEntry(Row(n, d).base, Mine(n, d), store[d])

RowCommitted(n, d, r, s) ==
  /\ r.op = Row(n, d).op /\ r.base = Row(n, d).base /\ r.sent = Row(n, d).sent
  /\ r.mine = Row(n, d).mine /\ r.over = Row(n, d).over /\ ~r.held
  /\ \/ r.op = "none" /\ s = store[d] /\ r.outcome = Row(n, d).outcome /\ r.entry = Row(n, d).entry
     \/ r.op = "delete" /\ s = Absent /\ r.outcome = Row(n, d).outcome /\ r.entry = Row(n, d).entry
     \/ /\ r.op = "upsert" /\ RowVerdict(n, d).outcome = "mine"
        /\ s = RowVerdict(n, d).entry /\ r.outcome = Row(n, d).outcome /\ r.entry = Row(n, d).entry
     \/ /\ r.op = "upsert" /\ RowVerdict(n, d).outcome = "merged"
        /\ s = RowVerdict(n, d).entry /\ r.outcome = "merged" /\ r.entry = s
     \/ /\ r.op = "upsert" /\ RowVerdict(n, d).outcome \in {"theirs", "deleted"}
        /\ s = store[d] /\ r.outcome = RowVerdict(n, d).outcome /\ r.entry = RowVerdict(n, d).entry

CommitEffect(n) ==
  /\ OthersStay(n)
  /\ live' = live /\ shadow' = shadow /\ reading' = reading
  /\ failures' = failures /\ overtaken' = overtaken /\ gen' = gen /\ committed' = committed
  /\ dirty' = dirty /\ everything' = everything /\ journal' = journal /\ since' = since
  /\ flight[n].stage = "taken" /\ flight'[n].stage = "written" /\ flight'[n].gen = flight[n].gen
  /\ \A d \in Dn : RowCommitted(n, d, Row(n, d)', store'[d])
  /\ \A v \in Member : life'[v] = LifeAfter(v, store[Home[v]], store'[Home[v]])
  /\ changes' = changes /\ todo'[n] = todo[n]
  /\ \A m \in Node \ {n}, d \in Dn : d \in todo[m] \/ store'[d] # store[d] => d \in todo'[m]

LEMMA CommitDoes ==
  ASSUME DirTypes, NEW n \in Node, Commit(n)
  PROVE  DirTypes' /\ CommitEffect(n)
<1> DEFINE rows == flight[n].rows
           mine(d) == IF rows[d].held THEN live[n][d] ELSE rows[d].mine
           verdict(d) == MergeEntry(rows[d].base, mine(d), store[d])
           writes(d) == \/ rows[d].op = "delete"
                        \/ rows[d].op = "upsert" /\ verdict(d).outcome \in {"mine", "merged"}
           after(d) == IF ~writes(d) THEN store[d]
                       ELSE IF rows[d].op = "delete" THEN Absent ELSE verdict(d).entry
           settled(d) == IF rows[d].op = "upsert" /\ verdict(d).outcome # "mine"
                         THEN [rows[d] EXCEPT !.held = FALSE, !.outcome = verdict(d).outcome,
                                              !.entry = verdict(d).entry]
                         ELSE [rows[d] EXCEPT !.held = FALSE]
           of == [d \in Dn |-> settled(d)]
<1>1. /\ flight[n].stage = "taken" /\ store' = [d \in Dn |-> after(d)]
      /\ flight' = [flight EXCEPT ![n].stage = "written", ![n].rows = of]
      /\ todo' = [m \in Node |-> IF m = n THEN todo[m]
                                 ELSE todo[m] \cup {d \in Dn : writes(d)}]
      /\ life' = [v \in Member |-> LifeAfter(v, store[Home[v]], after(Home[v]))]
      /\ UNCHANGED <<live, shadow, dirty, everything, journal, wake, gen, committed, failures,
                     reading, since, overtaken, used, changes, troubles>>
  BY DEF Commit
<1>2. ASSUME NEW d \in Dn
      PROVE  /\ after(d) \in MaybeEntry /\ settled(d) \in RowSet
             /\ RowCommitted(n, d, settled(d), after(d))
  <2> DEFINE r == Row(n, d)
             v == RowVerdict(n, d)
  <2>1. /\ r \in RowSet /\ r.base \in MaybeEntry /\ Mine(n, d) \in MaybeEntry
        /\ store[d] \in MaybeEntry /\ r.op \in {"none", "upsert", "delete"}
    BY RowParts
  <2>2. /\ v.entry \in MaybeEntry /\ v.outcome \in {"mine", "theirs", "merged", "deleted"}
    BY <2>1, MergeFacts DEF RowVerdict
  <2>3. rows[d] = r /\ verdict(d) = v
    BY DEF Row, Mine, RowVerdict
  <2>4. writes(d) <=> \/ r.op = "delete"
                      \/ r.op = "upsert" /\ v.outcome \in {"mine", "merged"}
    BY <2>3
  <2>5. after(d) = IF ~writes(d) THEN store[d] ELSE IF r.op = "delete" THEN Absent ELSE v.entry
    BY <2>3
  <2>6. settled(d) = IF r.op = "upsert" /\ v.outcome # "mine"
                     THEN [r EXCEPT !.held = FALSE, !.outcome = v.outcome, !.entry = v.entry]
                     ELSE [r EXCEPT !.held = FALSE]
    BY <2>3
  <2> HIDE DEF v, r, verdict, mine, rows
  <2>7. after(d) \in MaybeEntry
    BY <2>1, <2>2, <2>5, AbsentIsEntry
  <2> HIDE DEF writes, after, settled
  <2>8. CASE r.op = "upsert" /\ v.outcome # "mine"
    <3> DEFINE a == [r EXCEPT !.held = FALSE]
               b == [a EXCEPT !.outcome = v.outcome]
               c == [b EXCEPT !.entry = v.entry]
    <3>1. a \in RowSet /\ a.op = r.op /\ a.base = r.base /\ a.sent = r.sent
          /\ a.over = r.over /\ a.mine = r.mine /\ a.held = FALSE
      BY <2>1 DEF RowSet
    <3> HIDE DEF a
    <3>2. b \in RowSet /\ b.op = a.op /\ b.base = a.base /\ b.sent = a.sent
          /\ b.over = a.over /\ b.mine = a.mine /\ b.held = a.held /\ b.outcome = v.outcome
      BY <2>2, <2>8, <3>1 DEF RowSet
    <3> HIDE DEF b
    <3>3. c \in RowSet /\ c.op = b.op /\ c.base = b.base /\ c.sent = b.sent
          /\ c.over = b.over /\ c.mine = b.mine /\ c.held = b.held
          /\ c.outcome = b.outcome /\ c.entry = v.entry
      BY <2>2, <3>2 DEF RowSet
    <3>4. settled(d) = c
      BY <2>6, <2>8 DEF a, b
    <3> HIDE DEF c
    <3>5. RowCommitted(n, d, c, after(d))
      BY <2>2, <2>4, <2>5, <2>8, <3>1, <3>2, <3>3 DEF RowCommitted, v, r
    <3> QED BY <2>7, <3>3, <3>4, <3>5
  <2>9. CASE ~(r.op = "upsert" /\ v.outcome # "mine")
    <3> DEFINE a == [r EXCEPT !.held = FALSE]
    <3>1. a \in RowSet /\ a.op = r.op /\ a.base = r.base /\ a.sent = r.sent
          /\ a.over = r.over /\ a.mine = r.mine /\ a.held = FALSE
          /\ a.outcome = r.outcome /\ a.entry = r.entry
      BY <2>1 DEF RowSet
    <3>2. settled(d) = a
      BY <2>6, <2>9
    <3> HIDE DEF a
    <3>3. RowCommitted(n, d, a, after(d))
      BY <2>1, <2>4, <2>5, <2>9, <3>1 DEF RowCommitted, v, r
    <3> QED BY <2>7, <3>1, <3>2, <3>3
  <2> QED BY <2>8, <2>9
<1> HIDE DEF settled, after, writes
<1>3. store' \in [Dn -> MaybeEntry] /\ \A d \in Dn : store'[d] = after(d)
  BY <1>1, <1>2
<1>4. of \in [Dn -> RowSet] /\ \A d \in Dn : of[d] = settled(d)
  BY <1>2
<1> HIDE DEF of
<1>5. /\ flight' \in [Node -> FlightSet] /\ flight'[n].stage = "written"
      /\ flight'[n].gen = flight[n].gen /\ flight'[n].rows = of
      /\ \A m \in Node \ {n} : flight'[m] = flight[m]
  <2> DEFINE a == [flight[n] EXCEPT !.stage = "written"]
             b == [a EXCEPT !.rows = of]
  <2>1. flight \in [Node -> FlightSet] /\ flight[n] \in FlightSet
    BY DEF DirTypes
  <2>2. a \in FlightSet /\ a.stage = "written" /\ a.gen = flight[n].gen
    BY <2>1 DEF FlightSet
  <2>3. flight' = [flight EXCEPT ![n] = b]
    BY <1>1, <2>1
  <2> HIDE DEF a
  <2>4. b \in FlightSet /\ b.stage = a.stage /\ b.gen = a.gen /\ b.rows = of
    BY <1>4, <2>2 DEF FlightSet
  <2> HIDE DEF b
  <2> QED BY <2>1, <2>2, <2>3, <2>4
<1>6. todo' \in [Node -> SUBSET Dn]
  BY <1>1 DEF DirTypes
<1>7. life' \in [Member -> Lives]
  BY <1>1 DEF DirTypes, LifeAfter, Lives
<1>8. DirTypes'
  BY <1>1, <1>3, <1>5, <1>6, <1>7 DEF DirTypes
<1>9. OthersStay(n)
  BY <1>1, <1>5 DEF OthersStay
<1>10. \A d \in Dn : RowCommitted(n, d, Row(n, d)', store'[d])
  BY <1>2, <1>3, <1>4, <1>5 DEF Row
<1>11. \A v \in Member : life'[v] = LifeAfter(v, store[Home[v]], store'[Home[v]])
  BY <1>1, <1>3, DirConstants
<1>12. todo'[n] = todo[n]
       /\ \A m \in Node \ {n}, d \in Dn : d \in todo[m] \/ store'[d] # store[d] => d \in todo'[m]
  <2>1. \A d \in Dn : after(d) # store[d] => writes(d)
    BY DEF after
  <2> QED BY <1>1, <1>3, <2>1
<1> QED BY <1>1, <1>5, <1>8, <1>9, <1>10, <1>11, <1>12 DEF CommitEffect

(* What node n serves at d once its flush is answered.                     *)
Again(n, d) == /\ Row(n, d).outcome = "merged"
               /\ live[n][d] # Absent /\ live[n][d] # Row(n, d).sent
Settled(n, d) == IF Again(n, d)
                 THEN MergeEntry(Row(n, d).sent, live[n][d], Row(n, d).entry).entry
                 ELSE Row(n, d).entry

Resolved(n, d, now) ==
  \/ Row(n, d).outcome = "none" /\ now = live[n][d]
  \/ Row(n, d).outcome = "deleted" /\ now = Absent
  \/ /\ Row(n, d).outcome \in {"theirs", "merged"} /\ now = Applied(live[n][d], Settled(n, d))
     /\ Pend(n, d)' \/ (~Again(n, d) /\ now = Row(n, d).entry)

ResolveEffect(n) ==
  /\ OthersStay(n)
  /\ store' = store /\ failures' = failures /\ since' = since
  /\ todo' = todo /\ changes' = changes
  /\ flight[n].stage = "written" /\ flight'[n] = Idle
  /\ InOrder => reading[n] = NotReading \/ reading[n].late
  /\ reading'[n].dn = reading[n].dn /\ reading'[n].row = reading[n].row /\ ~reading'[n].late
  /\ \A d \in Dn : /\ shadow'[n][d] = Believed(Row(n, d), shadow[n][d], live[n][d])
                   /\ Resolved(n, d, live'[n][d])
                   /\ Pend(n, d) => Pend(n, d)'
  /\ gen[n] <= gen'[n]
  /\ committed'[n] = IF committed[n] < flight[n].gen THEN flight[n].gen ELSE committed[n]
  /\ life' = GivenUp(n, {d \in Dn : Row(n, d).outcome \in {"theirs", "deleted"}})
  /\ overtaken'[n] = (overtaken[n] \/ \E d \in Dn : /\ Row(n, d).over
                                                    /\ Row(n, d).outcome \in {"none", "merged"})

(* The merge of an entry that moved since it was sent is an entry.         *)
LEMMA SettledTyped ==
  ASSUME DirShape, NEW n \in Node, NEW d \in Dn, Row(n, d).outcome \in {"theirs", "merged"}
  PROVE  Settled(n, d) \in Entry
<1>1. /\ Row(n, d).sent \in MaybeEntry /\ Row(n, d).entry \in MaybeEntry
      /\ live[n][d] \in MaybeEntry
  BY RowParts DEF DirShape
<1>2. RowShape(n, d)
  BY DEF DirShape
<1>3. Row(n, d).entry # Absent
  BY <1>2 DEF RowShape, SameUuid
<1>4. CASE Again(n, d)
  <2> DEFINE v == MergeEntry(Row(n, d).sent, live[n][d], Row(n, d).entry)
  <2>1. live[n][d] # Absent
    BY <1>4 DEF Again
  <2>2. v.entry \in MaybeEntry /\ v.entry # Absent
    BY <1>1, <1>3, <2>1, MergeFacts DEF SameUuid
  <2> QED BY <1>4, <2>2, EntryFields DEF Settled
<1>5. CASE ~Again(n, d)
  BY <1>1, <1>3, <1>5, EntryFields DEF Settled
<1> QED BY <1>4, <1>5

LEMMA ResolveDoes ==
  ASSUME DirShape, NEW n \in Node, Resolve(n)
  PROVE  DirTypes' /\ ResolveEffect(n)
<1> DEFINE rows == flight[n].rows
           here(d) == live[n][d]
           decided(d) == rows[d].outcome # "none"
           moved(d) == here(d) # Absent /\ here(d) # rows[d].sent
           again(d) == rows[d].outcome = "merged" /\ moved(d)
           put(d) == IF again(d) THEN MergeEntry(rows[d].sent, here(d), rows[d].entry).entry
                     ELSE rows[d].entry
           now(d) == IF ~decided(d) THEN here(d)
                     ELSE IF rows[d].outcome = "deleted" THEN Absent
                     ELSE Applied(here(d), put(d))
           owed == {d \in Dn : decided(d) /\ rows[d].outcome # "deleted"
                               /\ (again(d) \/ now(d) # put(d))}
           was(d) == Believed(rows[d], shadow[n][d], here(d))
           lost == {d \in Dn : rows[d].outcome \in {"theirs", "deleted"}}
           over == \E d \in Dn : rows[d].over /\ rows[d].outcome \in {"none", "merged"}
<1>0. DirTypes
  BY DEF DirShape
<1>1. /\ flight[n].stage = "written"
      /\ InOrder => reading[n] = NotReading \/ reading[n].late
      /\ flight' = [flight EXCEPT ![n] = Idle]
      /\ shadow' = [shadow EXCEPT ![n] = [d \in Dn |-> was(d)]]
      /\ live' = [live EXCEPT ![n] = [d \in Dn |-> now(d)]]
      /\ committed' = [committed EXCEPT ![n] = IF @ < flight[n].gen THEN flight[n].gen ELSE @]
      /\ life' = GivenUp(n, lost)
      /\ reading' = [reading EXCEPT ![n].late = FALSE]
      /\ overtaken' = [overtaken EXCEPT ![n] = @ \/ over]
      /\ UNCHANGED <<store, failures, todo, since, used, changes, troubles>>
  BY DEF Resolve
<1>2. IF owed = {} THEN Unmarked
      ELSE /\ dirty' = [dirty EXCEPT ![n] = TRUE]
           /\ journal' = [journal EXCEPT ![n] = @ \cup owed]
           /\ gen' = [gen EXCEPT ![n] = @ + Cardinality(owed)]
           /\ wake' = [wake EXCEPT ![n] = TRUE]
           /\ UNCHANGED everything
  BY DEF Resolve
<1>3. owed \in SUBSET Dn /\ Cardinality(owed) \in Nat /\ lost \in SUBSET Dn
  <2>1. owed \subseteq Dn /\ lost \subseteq Dn /\ IsFiniteSet(Dn)
    BY DirConstants
  <2>2. IsFiniteSet(owed)
    BY <2>1, FS_Subset
  <2> HIDE DEF owed, lost
  <2> QED BY <2>1, <2>2, FS_CardinalityType
<1>4. ASSUME NEW d \in Dn
      PROVE  /\ now(d) \in MaybeEntry /\ was(d) \in MaybeEntry
             /\ was(d) = Believed(Row(n, d), shadow[n][d], live[n][d])
             /\ \/ Row(n, d).outcome = "none" /\ now(d) = live[n][d]
                \/ Row(n, d).outcome = "deleted" /\ now(d) = Absent
                \/ /\ Row(n, d).outcome \in {"theirs", "merged"}
                   /\ now(d) = Applied(live[n][d], Settled(n, d))
                   /\ d \in owed \/ (~Again(n, d) /\ now(d) = Row(n, d).entry)
  <2>1. rows[d] = Row(n, d) /\ (again(d) <=> Again(n, d)) /\ put(d) = Settled(n, d)
    BY DEF Row, Again, Settled
  <2>2. /\ Row(n, d).sent \in MaybeEntry /\ Row(n, d).entry \in MaybeEntry
        /\ live[n][d] \in MaybeEntry /\ shadow[n][d] \in MaybeEntry
        /\ Row(n, d).outcome \in {"none", "theirs", "merged", "deleted"}
    BY <1>0, RowParts
  <2>3. was(d) \in MaybeEntry
    BY <2>1, <2>2 DEF Believed
  <2>4. CASE Row(n, d).outcome = "none"
    <3>1. now(d) = live[n][d]
      BY <2>1, <2>4
    <3> HIDE DEF now, was
    <3> QED BY <2>1, <2>2, <2>3, <2>4, <3>1 DEF was
  <2>5. CASE Row(n, d).outcome = "deleted"
    <3>1. now(d) = Absent
      BY <2>1, <2>5
    <3> HIDE DEF now, was
    <3> QED BY <2>1, <2>3, <2>5, <3>1, AbsentIsEntry DEF was
  <2>6. CASE Row(n, d).outcome \in {"theirs", "merged"}
    <3>1. Settled(n, d) \in Entry
      BY <2>6, SettledTyped
    <3>2. now(d) = Applied(live[n][d], Settled(n, d))
      BY <2>1, <2>6
    <3>3. now(d) \in MaybeEntry
      BY <2>2, <3>1, <3>2, AppliedFields, AbsentIsEntry
    <3>4. d \in owed <=> (again(d) \/ now(d) # put(d))
      BY <2>1, <2>6
    <3> HIDE DEF now, was, owed, again, put
    <3>5. d \in owed \/ (~Again(n, d) /\ now(d) = Settled(n, d))
      BY <2>1, <3>4
    <3>6. ~Again(n, d) => Settled(n, d) = Row(n, d).entry
      BY DEF Settled
    <3> QED BY <2>1, <2>3, <2>6, <3>2, <3>3, <3>5, <3>6 DEF was
  <2> QED BY <2>2, <2>4, <2>5, <2>6
<1>5. /\ live \in [Node -> [Dn -> MaybeEntry]] /\ shadow \in [Node -> [Dn -> MaybeEntry]]
      /\ flight \in [Node -> FlightSet] /\ flight[n].gen \in Nat
      /\ dirty \in [Node -> BOOLEAN] /\ wake \in [Node -> BOOLEAN]
      /\ journal \in [Node -> SUBSET Dn] /\ gen \in [Node -> Nat] /\ committed \in [Node -> Nat]
      /\ overtaken \in [Node -> BOOLEAN]
  BY <1>0 DEF DirTypes, FlightSet
<1>6. /\ dirty' \in [Node -> BOOLEAN] /\ everything' = everything /\ wake' \in [Node -> BOOLEAN]
      /\ journal' \in [Node -> SUBSET Dn] /\ gen' \in [Node -> Nat] /\ gen[n] <= gen'[n]
      /\ \A d \in Dn : (Pend(n, d) => Pend(n, d)') /\ (d \in owed => Pend(n, d)')
      /\ \A m \in Node \ {n} : /\ dirty'[m] = dirty[m] /\ everything'[m] = everything[m]
                               /\ journal'[m] = journal[m] /\ gen'[m] = gen[m]
  <2> HIDE DEF owed
  <2>1. gen[n] \in Nat /\ everything \in [Node -> BOOLEAN]
    BY <1>0 DEF DirTypes
  <2>2. CASE owed = {}
    BY <1>0, <1>2, <1>5, <2>1, <2>2 DEF Unmarked, Pend, DirTypes
  <2>3. CASE owed # {}
    <3>1. /\ dirty' = [dirty EXCEPT ![n] = TRUE]
          /\ journal' = [journal EXCEPT ![n] = journal[n] \cup owed]
          /\ gen' = [gen EXCEPT ![n] = gen[n] + Cardinality(owed)]
          /\ wake' = [wake EXCEPT ![n] = TRUE] /\ everything' = everything
      BY <1>2, <2>3
    <3>2. gen[n] + Cardinality(owed) \in Nat /\ gen[n] <= gen[n] + Cardinality(owed)
      BY <1>3, <2>1
    <3> QED BY <1>3, <1>5, <3>1, <3>2 DEF Pend
  <2> QED BY <2>2, <2>3
<1>7. GivenUp(n, lost) \in [Member -> Lives]
  BY <1>0, <1>3, GivenUpTyped
<1>8. /\ reading' \in [Node -> ReadSet] /\ \A m \in Node \ {n} : reading'[m] = reading[m]
      /\ reading'[n].dn = reading[n].dn /\ reading'[n].row = reading[n].row
      /\ ~reading'[n].late
  BY <1>0, <1>1, NotLate
<1>9. /\ flight' \in [Node -> FlightSet] /\ flight'[n] = Idle
      /\ \A m \in Node \ {n} : flight'[m] = flight[m]
  BY <1>1, <1>5, IdleFlight
<1>10. lost = {d \in Dn : Row(n, d).outcome \in {"theirs", "deleted"}}
       /\ (over <=> \E d \in Dn : Row(n, d).over /\ Row(n, d).outcome \in {"none", "merged"})
  BY DEF Row
<1>11. over \in BOOLEAN
  OBVIOUS
<1> HIDE DEF now, was, owed, lost, over
<1>12. /\ [d \in Dn |-> now(d)] \in [Dn -> MaybeEntry]
       /\ [d \in Dn |-> was(d)] \in [Dn -> MaybeEntry]
  BY <1>4
<1>13. /\ live' \in [Node -> [Dn -> MaybeEntry]] /\ \A d \in Dn : live'[n][d] = now(d)
       /\ \A m \in Node \ {n} : live'[m] = live[m]
  BY <1>1, <1>5, <1>12
<1>14. /\ shadow' \in [Node -> [Dn -> MaybeEntry]] /\ \A d \in Dn : shadow'[n][d] = was(d)
       /\ \A m \in Node \ {n} : shadow'[m] = shadow[m]
  BY <1>1, <1>5, <1>12
<1>15. /\ committed' \in [Node -> Nat]
       /\ committed'[n] = IF committed[n] < flight[n].gen THEN flight[n].gen ELSE committed[n]
       /\ \A m \in Node \ {n} : committed'[m] = committed[m]
  BY <1>1, <1>5
<1>16. /\ overtaken' \in [Node -> BOOLEAN] /\ overtaken'[n] = (overtaken[n] \/ over)
       /\ \A m \in Node \ {n} : overtaken'[m] = overtaken[m]
  BY <1>1, <1>5, <1>11
<1>17. DirTypes'
  BY <1>0, <1>1, <1>6, <1>7, <1>8, <1>9, <1>13, <1>14, <1>15, <1>16 DEF DirTypes
<1>18. OthersStay(n)
  BY <1>1, <1>6, <1>8, <1>9, <1>13, <1>14, <1>15, <1>16 DEF OthersStay
<1>19. \A d \in Dn : /\ shadow'[n][d] = Believed(Row(n, d), shadow[n][d], live[n][d])
                     /\ Resolved(n, d, live'[n][d])
                     /\ Pend(n, d) => Pend(n, d)'
  BY <1>4, <1>6, <1>13, <1>14 DEF Resolved
<1> QED BY <1>1, <1>6, <1>8, <1>9, <1>10, <1>15, <1>16, <1>17, <1>18, <1>19 DEF ResolveEffect

(* Another node's row put in place at n: what is kept of the change that   *)
(* was waiting there, and what is served.                                  *)
Waiting(n, d) == live[n][d] # shadow[n][d]
RowMerge(n, d) == MergeEntry(shadow[n][d], live[n][d], reading[n].row)
KeptHere(n, d) == /\ Waiting(n, d)
                  /\ live[n][d] = Absent \/ RowMerge(n, d).outcome \in {"mine", "merged"}
PutHere(n, d) == IF KeptHere(n, d) THEN RowMerge(n, d).entry ELSE reading[n].row
NowHere(n, d) == IF PutHere(n, d) = Absent THEN Absent ELSE Applied(live[n][d], PutHere(n, d))

ApplyEffect(n, d) ==
  /\ OthersStay(n)
  /\ store' = store /\ failures' = failures /\ committed' = committed /\ since' = since
  /\ overtaken' = overtaken /\ todo' = todo /\ changes' = changes
  /\ InOrder => ~(flight[n].stage = "written" /\ reading[n].late)
  /\ reading'[n] = NotReading
  /\ live'[n][d] = NowHere(n, d) /\ shadow'[n][d] = reading[n].row
  /\ \A k \in Dn \ {d} : /\ live'[n][k] = live[n][k] /\ shadow'[n][k] = shadow[n][k]
                         /\ Row(n, k)' = Row(n, k)
  /\ flight'[n].stage = flight[n].stage /\ flight'[n].gen = flight[n].gen
  /\ \/ KeptHere(n, d) /\ NowHere(n, d) = live[n][d] /\ Row(n, d)' = Row(n, d)
     \/ /\ KeptHere(n, d)
        /\ Aside(n, d, Row(n, d)') /\ Row(n, d)'.over = Row(n, d).over
     \/ /\ ~KeptHere(n, d)
        /\ Aside(n, d, Row(n, d)') /\ Row(n, d)'.over = (Row(n, d).op # "none")
  /\ gen[n] <= gen'[n] /\ \A k \in Dn : Pend(n, k) => Pend(n, k)'
  /\ Pend(n, d)' \/ (~KeptHere(n, d) /\ NowHere(n, d) = reading[n].row)
  /\ life' = IF Waiting(n, d) /\ ~KeptHere(n, d) THEN GivenUp(n, {d}) ELSE life

LEMMA PutTyped ==
  ASSUME DirTypes, NEW n \in Node, NEW d \in Dn
  PROVE  PutHere(n, d) \in MaybeEntry /\ NowHere(n, d) \in MaybeEntry
<1>1. /\ live[n][d] \in MaybeEntry /\ shadow[n][d] \in MaybeEntry
      /\ reading[n].row \in MaybeEntry
  BY RowParts
<1>2. RowMerge(n, d).entry \in MaybeEntry
  BY <1>1, MergeFacts DEF RowMerge
<1>3. PutHere(n, d) \in MaybeEntry
  BY <1>1, <1>2 DEF PutHere
<1>4. PutHere(n, d) # Absent => Applied(live[n][d], PutHere(n, d)) \in Entry
  BY <1>1, <1>3, EntryFields, AppliedFields
<1> QED BY <1>3, <1>4, AbsentIsEntry DEF NowHere

LEMMA ApplyRowDoes ==
  ASSUME DirTypes, NEW n \in Node, ApplyRow(n)
  PROVE  DirTypes' /\ \E d \in Dn : reading[n].dn = d /\ ApplyEffect(n, d)
<1>0. reading[n] \in ReadSet /\ reading[n].dn # Absent
  BY DEF DirTypes, ApplyRow
<1>1. PICK d \in Dn : d = reading[n].dn
  BY <1>0 DEF ReadSet
<1> DEFINE row == reading[n].row
           put == PutHere(n, d)
           now == NowHere(n, d)
           kept == KeptHere(n, d)
<1>2. /\ InOrder => ~(flight[n].stage = "written" /\ reading[n].late)
      /\ reading' = [reading EXCEPT ![n] = NotReading]
      /\ live' = [live EXCEPT ![n][d] = now]
      /\ shadow' = [shadow EXCEPT ![n][d] = row]
      /\ flight' = IF kept /\ now = live[n][d] THEN flight
                   ELSE IF kept THEN Detached(n, d) ELSE Replaced(n, d)
      /\ IF kept \/ now # put
         THEN /\ dirty' = [dirty EXCEPT ![n] = TRUE]
              /\ journal' = [journal EXCEPT ![n] = @ \cup {d}]
              /\ gen' = [gen EXCEPT ![n] = @ + 1]
              /\ wake' = [wake EXCEPT ![n] = TRUE]
              /\ UNCHANGED everything
         ELSE Unmarked
      /\ life' = IF Waiting(n, d) /\ ~kept THEN GivenUp(n, {d}) ELSE life
      /\ UNCHANGED <<store, committed, failures, todo, since, overtaken, used, changes, troubles>>
  BY <1>1 DEF ApplyRow, Waiting, RowMerge, KeptHere, PutHere, NowHere
<1>3. now \in MaybeEntry /\ row \in MaybeEntry
  BY <1>0, PutTyped DEF ReadSet
<1>4. /\ live \in [Node -> [Dn -> MaybeEntry]] /\ shadow \in [Node -> [Dn -> MaybeEntry]]
      /\ flight \in [Node -> FlightSet] /\ reading \in [Node -> ReadSet]
      /\ dirty \in [Node -> BOOLEAN] /\ everything \in [Node -> BOOLEAN]
      /\ wake \in [Node -> BOOLEAN] /\ journal \in [Node -> SUBSET Dn] /\ gen \in [Node -> Nat]
      /\ life \in [Member -> Lives] /\ gen[n] \in Nat
  BY DEF DirTypes
<1>5. GivenUp(n, {d}) \in [Member -> Lives]
  BY GivenUpTyped
<1>6. ~kept => put = row
  BY DEF PutHere
<1>7. kept \in BOOLEAN
  BY DEF KeptHere
<1> HIDE DEF now, put, kept, row
<1>8. /\ live' \in [Node -> [Dn -> MaybeEntry]] /\ live'[n][d] = now
      /\ \A k \in Dn \ {d} : live'[n][k] = live[n][k]
      /\ \A m \in Node \ {n} : live'[m] = live[m]
  BY <1>2, <1>3, <1>4
<1>9. /\ shadow' \in [Node -> [Dn -> MaybeEntry]] /\ shadow'[n][d] = row
      /\ \A k \in Dn \ {d} : shadow'[n][k] = shadow[n][k]
      /\ \A m \in Node \ {n} : shadow'[m] = shadow[m]
  BY <1>2, <1>3, <1>4
<1>10. /\ reading' \in [Node -> ReadSet] /\ reading'[n] = NotReading
       /\ \A m \in Node \ {n} : reading'[m] = reading[m]
  BY <1>2, <1>4, NotReadingSet
<1>11. FlightBut(n, d, flight) /\ FlightBut(n, d, Detached(n, d)) /\ FlightBut(n, d, Replaced(n, d))
  BY <1>4, DetachedFields, ReplacedFields DEF FlightBut, Row
<1>12. FlightBut(n, d, flight')
  BY <1>2, <1>11
<1>13. \/ kept /\ now = live[n][d] /\ flight'[n].rows[d] = Row(n, d)
       \/ /\ kept
          /\ Aside(n, d, flight'[n].rows[d]) /\ flight'[n].rows[d].over = Row(n, d).over
       \/ /\ ~kept
          /\ Aside(n, d, flight'[n].rows[d])
          /\ flight'[n].rows[d].over = (Row(n, d).op # "none")
  <2>1. CASE kept /\ now = live[n][d]
    BY <1>2, <2>1 DEF Row
  <2>2. CASE kept /\ now # live[n][d]
    BY <1>2, <2>2, DetachedFields
  <2>3. CASE ~kept
    BY <1>2, <2>3, ReplacedFields
  <2> QED BY <2>1, <2>2, <2>3
<1>14. /\ dirty' \in [Node -> BOOLEAN] /\ everything' = everything /\ wake' \in [Node -> BOOLEAN]
       /\ journal' \in [Node -> SUBSET Dn] /\ gen' \in [Node -> Nat] /\ gen[n] <= gen'[n]
       /\ \A k \in Dn : Pend(n, k) => Pend(n, k)'
       /\ (kept \/ now # put) => Pend(n, d)'
       /\ \A m \in Node \ {n} : /\ dirty'[m] = dirty[m] /\ everything'[m] = everything[m]
                                /\ journal'[m] = journal[m] /\ gen'[m] = gen[m]
  <2>1. CASE kept \/ now # put
    <3>1. /\ dirty' = [dirty EXCEPT ![n] = TRUE]
          /\ journal' = [journal EXCEPT ![n] = @ \cup {d}]
          /\ gen' = [gen EXCEPT ![n] = @ + 1]
          /\ wake' = [wake EXCEPT ![n] = TRUE] /\ everything' = everything
      BY <1>2, <2>1
    <3> QED BY <1>4, <3>1 DEF Pend
  <2>2. CASE ~(kept \/ now # put)
    <3>1. Unmarked
      BY <1>2, <2>2
    <3> QED BY <1>4, <2>2, <3>1 DEF Unmarked, Pend
  <2> QED BY <2>1, <2>2
<1>15. Pend(n, d)' \/ (~kept /\ now = row)
  BY <1>6, <1>14
<1>16. life' \in [Member -> Lives]
  BY <1>2, <1>4, <1>5
<1>17. DirTypes'
  BY <1>2, <1>8, <1>9, <1>10, <1>12, <1>14, <1>16 DEF DirTypes, FlightBut
<1>18. OthersStay(n)
  BY <1>2, <1>8, <1>9, <1>10, <1>12, <1>14 DEF OthersStay, FlightBut
<1>19. \A k \in Dn \ {d} : Row(n, k)' = Row(n, k)
  BY <1>12 DEF FlightBut, Row
<1>20. flight'[n].stage = flight[n].stage /\ flight'[n].gen = flight[n].gen
  BY <1>12 DEF FlightBut
<1>21. \/ kept /\ now = live[n][d] /\ Row(n, d)' = Row(n, d)
       \/ kept /\ Aside(n, d, Row(n, d)') /\ Row(n, d)'.over = Row(n, d).over
       \/ ~kept /\ Aside(n, d, Row(n, d)') /\ Row(n, d)'.over = (Row(n, d).op # "none")
  <2>1. Row(n, d)' = flight'[n].rows[d]
    BY DEF Row
  <2> QED BY <1>13, <2>1
<1>22. ApplyEffect(n, d)
  BY <1>2, <1>8, <1>9, <1>10, <1>14, <1>15, <1>18, <1>19, <1>20, <1>21
     DEF ApplyEffect, now, kept, row
<1> QED BY <1>1, <1>17, <1>22

-----------------------------------------------------------------------------
(* The shape of a flush is kept.                                           *)

(* What a step of one node leaves of another.                              *)
LEMMA OthersKept ==
  ASSUME NEW n \in Node, NEW m \in Node \ {n}, NEW d \in Dn, OthersStay(n)
  PROVE  /\ live'[m][d] = live[m][d] /\ shadow'[m][d] = shadow[m][d]
         /\ Row(m, d)' = Row(m, d) /\ Mine(m, d)' = Mine(m, d)
         /\ Pend(m, d)' = Pend(m, d) /\ flight'[m] = flight[m] /\ reading'[m] = reading[m]
         /\ gen'[m] = gen[m] /\ committed'[m] = committed[m] /\ failures'[m] = failures[m]
         /\ overtaken'[m] = overtaken[m]
BY DEF OthersStay, Row, Mine, Pend

LEMMA OthersShape ==
  ASSUME DirShape, NEW n \in Node, NEW m \in Node \ {n}, OthersStay(n)
  PROVE  GenShape(m)' /\ \A d \in Dn : RowShape(m, d)'
<1>1. GenShape(m) /\ \A d \in Dn : RowShape(m, d)
  BY DEF DirShape
<1>2. GenShape(m)'
  BY <1>1 DEF GenShape, OthersStay
<1>3. ASSUME NEW d \in Dn PROVE RowShape(m, d)'
  <2>1. Row(m, d)' = Row(m, d) /\ Mine(m, d)' = Mine(m, d) /\ flight'[m] = flight[m]
    BY OthersKept
  <2> QED BY <1>1, <2>1 DEF RowShape
<1> QED BY <1>2, <1>3

LEMMA SameShape ==
  ASSUME NEW n \in Node, NEW d \in Dn, RowShape(n, d), Row(n, d)' = Row(n, d),
         flight'[n].stage = flight[n].stage, Row(n, d).held => live'[n][d] = live[n][d]
  PROVE  RowShape(n, d)' /\ Mine(n, d)' = Mine(n, d)
<1>1. Mine(n, d)' = Mine(n, d)
  BY DEF Mine
<1> QED BY <1>1 DEF RowShape

LEMMA AsideShape ==
  ASSUME NEW n \in Node, NEW d \in Dn, RowShape(n, d), Aside(n, d, Row(n, d)'),
         flight'[n].stage = flight[n].stage, Row(n, d)'.over => Row(n, d).op # "none"
  PROVE  RowShape(n, d)' /\ Mine(n, d)' = Mine(n, d)
<1>1. Mine(n, d)' = Mine(n, d)
  BY DEF Mine, Aside
<1> QED BY <1>1 DEF RowShape, Aside

LEMMA LocalKeepsShape ==
  ASSUME DirShape, DirTypes', NEW n \in Node, NEW d \in Dn, NEW e \in MaybeEntry,
         LocalEffect(n, d, e), LocalKind(n, d, e)
  PROVE  DirShape'
<1>1. GenShape(n) /\ \A k \in Dn : RowShape(n, k)
  BY DEF DirShape
<1>2. OthersStay(n)
  BY DEF LocalEffect
<1>3. GenShape(n)'
  BY <1>1 DEF GenShape, LocalEffect, DirShape, DirTypes, FlightSet
<1>4. ASSUME NEW k \in Dn PROVE RowShape(n, k)'
  <2>1. CASE k # d
    BY <1>1, <2>1, SameShape DEF LocalEffect
  <2>2. CASE k = d /\ Aside(n, d, Row(n, d)')
    <3>1. Row(n, d)'.over = Row(n, d).over \/ Row(n, d)' = Row(n, d)
      BY DEF LocalEffect
    <3>2. Row(n, d)'.over => Row(n, d).op # "none"
      BY <1>1, <3>1 DEF RowShape
    <3> QED BY <1>1, <2>2, <3>2, AsideShape DEF LocalEffect
  <2>3. CASE k = d /\ Row(n, d)' = Row(n, d) /\ e # Absent /\ live[n][d] # Absent
    <3>1. Alike(live[n][d], e)
      BY <2>3 DEF LocalKind, Adds, Removes, Creates, Deletes
    <3>2. Mine(n, d)' = IF Row(n, d).held THEN e ELSE Mine(n, d)
      BY <2>3 DEF Mine, LocalEffect
    <3>3. Row(n, d).held => Mine(n, d) = live[n][d]
      BY DEF Mine
    <3>4. SameUuid(Row(n, d).sent, Mine(n, d)) => SameUuid(Row(n, d).sent, Mine(n, d)')
      BY <3>1, <3>2, <3>3 DEF SameUuid, Alike
    <3>5. flight'[n].stage = flight[n].stage
      BY DEF LocalEffect
    <3>6. RowShape(n, d)
      BY <1>1
    <3> QED BY <2>3, <3>4, <3>5, <3>6 DEF RowShape
  <2> QED BY <2>1, <2>2, <2>3 DEF LocalEffect
<1> QED BY <1>2, <1>3, <1>4, OthersShape DEF DirShape

LEMMA NothingInFlight ==
  ASSUME NEW n \in Node, NEW d \in Dn, flight'[n] = Idle
  PROVE  Row(n, d)' = NoWrite /\ RowShape(n, d)'
<1>1. Row(n, d)' = NoWrite /\ flight'[n].stage = "idle"
  BY IdleFlight DEF Row
<1> QED BY <1>1 DEF RowShape, NoWrite

LEMMA FlushKeepsShape ==
  ASSUME DirShape, DirTypes', NEW n \in Node,
         \/ TakeEffect(n) \/ StillEffect(n) \/ CommitEffect(n) \/ ResolveEffect(n) \/ FailEffect(n)
  PROVE  DirShape'
<1>0. DirTypes /\ GenShape(n) /\ \A d \in Dn : RowShape(n, d)
  BY DEF DirShape
<1>1. /\ gen[n] \in Nat /\ committed[n] \in Nat /\ flight[n].gen \in Nat
      /\ gen'[n] \in Nat
  BY <1>0 DEF DirTypes, FlightSet
<1>2. CASE TakeEffect(n)
  <2>1. OthersStay(n) /\ GenShape(n)'
    BY <1>0, <1>1, <1>2 DEF GenShape, TakeEffect
  <2>2. ASSUME NEW d \in Dn PROVE RowShape(n, d)'
    <3>1. RowTaken(n, d, Row(n, d)') /\ flight'[n].stage = "taken" /\ live'[n][d] = live[n][d]
      BY <1>2 DEF TakeEffect
    <3> QED BY <3>1 DEF RowShape, RowTaken, Mine, NoWrite, SameUuid
  <2> QED BY <2>1, <2>2, OthersShape DEF DirShape
<1>3. CASE StillEffect(n)
  <2>1. OthersStay(n) /\ GenShape(n)'
    BY <1>0, <1>1, <1>3 DEF GenShape, StillEffect
  <2>2. ASSUME NEW d \in Dn PROVE RowShape(n, d)'
    <3>1. Row(n, d)' = Row(n, d) /\ flight'[n].stage = flight[n].stage
          /\ live'[n][d] = live[n][d]
      BY <1>3 DEF StillEffect, Row
    <3> QED BY <1>0, <3>1, SameShape
  <2> QED BY <2>1, <2>2, OthersShape DEF DirShape
<1>4. CASE CommitEffect(n)
  <2>1. OthersStay(n) /\ GenShape(n)'
    BY <1>0, <1>1, <1>4 DEF GenShape, CommitEffect
  <2>2. ASSUME NEW d \in Dn PROVE RowShape(n, d)'
    <3>1. RowCommitted(n, d, Row(n, d)', store'[d]) /\ flight'[n].stage = "written"
          /\ flight[n].stage = "taken"
      BY <1>4 DEF CommitEffect
    <3>2. RowShape(n, d)
      BY <1>0
    <3>3. Row(n, d).outcome = "none"
      BY <3>1, <3>2 DEF RowShape
    <3>4. LET v == RowVerdict(n, d)
          IN  /\ v.outcome = "deleted" => v.entry = Absent
              /\ v.outcome = "theirs" => v.entry # Absent
              /\ v.outcome = "merged" => SameUuid(Mine(n, d), v.entry)
      BY <1>0, RowParts, MergeFacts DEF RowVerdict
    <3>5. Row(n, d).op = "upsert" => SameUuid(Row(n, d).sent, Mine(n, d))
      BY <3>1, <3>2 DEF RowShape
    <3> QED BY <3>1, <3>2, <3>3, <3>4, <3>5 DEF RowShape, RowCommitted, SameUuid
  <2> QED BY <2>1, <2>2, OthersShape DEF DirShape
<1>5. CASE ResolveEffect(n)
  <2>1. OthersStay(n) /\ GenShape(n)'
    BY <1>0, <1>1, <1>5, IdleFlight DEF GenShape, ResolveEffect
  <2>2. ASSUME NEW d \in Dn PROVE RowShape(n, d)'
    BY <1>5, NothingInFlight DEF ResolveEffect
  <2> QED BY <2>1, <2>2, OthersShape DEF DirShape
<1>6. CASE FailEffect(n)
  <2>1. OthersStay(n) /\ GenShape(n)'
    BY <1>0, <1>1, <1>6, IdleFlight DEF GenShape, FailEffect
  <2>2. ASSUME NEW d \in Dn PROVE RowShape(n, d)'
    BY <1>6, NothingInFlight DEF FailEffect
  <2> QED BY <2>1, <2>2, OthersShape DEF DirShape
<1> QED BY <1>2, <1>3, <1>4, <1>5, <1>6

LEMMA RowsKeepShape ==
  ASSUME DirShape, DirTypes', NEW n \in Node, NEW d \in Dn,
         \/ ReadEffect(n, d) \/ RestartEffect(n)
         \/ ApplyEffect(n, d)
  PROVE  DirShape'
<1>0. DirTypes /\ GenShape(n) /\ \A k \in Dn : RowShape(n, k)
  BY DEF DirShape
<1>1. /\ gen[n] \in Nat /\ committed[n] \in Nat /\ flight[n].gen \in Nat
      /\ gen'[n] \in Nat
  BY <1>0 DEF DirTypes, FlightSet
<1>2. CASE ReadEffect(n, d)
  <2>1. OthersStay(n) /\ GenShape(n)'
    BY <1>0, <1>1, <1>2 DEF GenShape, ReadEffect
  <2>2. ASSUME NEW k \in Dn PROVE RowShape(n, k)'
    <3>1. Row(n, k)' = Row(n, k) /\ flight'[n].stage = flight[n].stage
          /\ live'[n][k] = live[n][k]
      BY <1>2 DEF ReadEffect, Row
    <3> QED BY <1>0, <3>1, SameShape
  <2> QED BY <2>1, <2>2, OthersShape DEF DirShape
<1>3. CASE RestartEffect(n)
  <2>1. OthersStay(n) /\ GenShape(n)'
    BY <1>0, <1>1, <1>3, IdleFlight, NotReadingSet DEF GenShape, RestartEffect
  <2>2. ASSUME NEW k \in Dn PROVE RowShape(n, k)'
    BY <1>3, NothingInFlight DEF RestartEffect
  <2> QED BY <2>1, <2>2, OthersShape DEF DirShape
<1>4. CASE ApplyEffect(n, d)
  <2>1. OthersStay(n) /\ GenShape(n)'
    BY <1>0, <1>1, <1>4, NotReadingSet DEF GenShape, ApplyEffect
  <2>2. ASSUME NEW k \in Dn PROVE RowShape(n, k)'
    <3>1. flight'[n].stage = flight[n].stage /\ RowShape(n, k)
      BY <1>0, <1>4 DEF ApplyEffect
    <3>2. CASE k # d
      <4>1. Row(n, k)' = Row(n, k) /\ live'[n][k] = live[n][k]
        BY <1>4, <3>2 DEF ApplyEffect
      <4> QED BY <3>1, <4>1, SameShape
    <3>3. CASE k = d /\ Row(n, d)' = Row(n, d) /\ NowHere(n, d) = live[n][d]
      <4>1. live'[n][d] = live[n][d]
        BY <1>4, <3>3 DEF ApplyEffect
      <4> QED BY <3>1, <3>3, <4>1, SameShape
    <3>4. CASE /\ k = d /\ Aside(n, d, Row(n, d)')
               /\ Row(n, d)'.over \in {Row(n, d).over, Row(n, d).op # "none"}
      <4>1. Row(n, d)'.over => Row(n, d).op # "none"
        BY <3>1, <3>4 DEF RowShape
      <4> QED BY <3>1, <3>4, <4>1, AsideShape
    <3> QED BY <1>4, <3>2, <3>3, <3>4 DEF ApplyEffect
  <2> QED BY <2>1, <2>2, OthersShape DEF DirShape
<1> QED BY <1>2, <1>3, <1>4

LEMMA ShapeInit == DirInit => DirShape
<1> SUFFICES ASSUME DirInit PROVE DirShape
  OBVIOUS
<1>1. \A d \in Dn : Seeded[d] # Absent => Seeded[d] \in Uuid /\ New(Seeded[d]) \in Entry
  BY DirConstants, NewFields
<1>2. store \in [Dn -> MaybeEntry]
  BY <1>1, AbsentIsEntry DEF DirInit
<1>3. DirTypes
  <2>1. used \subseteq Uuid
    BY DirConstants DEF DirInit
  <2>2. flight \in [Node -> FlightSet] /\ reading \in [Node -> ReadSet]
    BY IdleFlight, NotReadingSet DEF DirInit
  <2> QED BY <1>2, <2>1, <2>2 DEF DirInit, DirTypes, Lives
<1>4. ASSUME NEW n \in Node PROVE GenShape(n) /\ \A d \in Dn : RowShape(n, d)
  <2>1. flight[n] = Idle /\ reading[n] = NotReading /\ gen[n] = 0 /\ committed[n] = 0
    BY DEF DirInit
  <2>2. GenShape(n)
    BY <2>1, IdleFlight, NotReadingSet DEF GenShape
  <2>3. ASSUME NEW d \in Dn PROVE RowShape(n, d)
    <3>1. Row(n, d) = NoWrite /\ flight[n].stage = "idle"
      BY <2>1, IdleFlight DEF Row
    <3> QED BY <3>1 DEF RowShape, NoWrite
  <2> QED BY <2>2, <2>3
<1> QED BY <1>3, <1>4 DEF DirShape

(* Every step is one of these.                                             *)
DirEffect(n) ==
  \/ \E d \in Dn, e \in MaybeEntry : LocalEffect(n, d, e) /\ LocalKind(n, d, e)
  \/ TakeEffect(n) \/ StillEffect(n) \/ CommitEffect(n) \/ ResolveEffect(n)
  \/ FlushFails(n) /\ FailEffect(n)
  \/ RestartEffect(n)
  \/ \E d \in Dn : \/ ReadEffect(n, d)
                   \/ reading[n].dn = d /\ ApplyEffect(n, d)

LEMMA StepsDo ==
  ASSUME DirShape, DirNext
  PROVE  DirShape' /\ \E n \in Node : DirEffect(n)
<1>0. DirTypes
  BY DEF DirShape
<1>1. ASSUME NEW n \in Node, LocalStep(n) PROVE DirShape' /\ DirEffect(n)
  BY <1>0, <1>1, LocalDoes, LocalKeepsShape DEF DirEffect
<1>2. ASSUME NEW n \in Node, FlushStep(n) \/ FlushFails(n) PROVE DirShape' /\ DirEffect(n)
  <2>1. /\ DirTypes'
        /\ \/ TakeEffect(n) \/ StillEffect(n) \/ CommitEffect(n) \/ ResolveEffect(n)
           \/ FlushFails(n) /\ FailEffect(n)
    BY <1>0, <1>2, TakeDoes, TakeNothingDoes, FlushAskedDoes, CommitDoes, ResolveDoes,
       FlushFailsDoes DEF FlushStep
  <2> QED BY <2>1, FlushKeepsShape DEF DirEffect
<1>3. ASSUME NEW n \in Node, Restart(n) PROVE DirShape' /\ DirEffect(n)
  <2>1. DirTypes' /\ RestartEffect(n)
    BY <1>0, <1>3, RestartDoes
  <2>2. ASSUME NEW m \in Node \ {n} PROVE GenShape(m)' /\ \A d \in Dn : RowShape(m, d)'
    BY <2>1, OthersShape DEF RestartEffect
  <2>3. GenShape(n)' /\ \A d \in Dn : RowShape(n, d)'
    <3>1. flight'[n] = Idle /\ reading'[n] = NotReading /\ gen'[n] = 0 /\ committed'[n] = 0
      BY <2>1 DEF RestartEffect
    <3>2. GenShape(n)'
      BY <3>1, IdleFlight, NotReadingSet DEF GenShape
    <3> QED BY <3>1, <3>2, NothingInFlight
  <2> QED BY <2>1, <2>2, <2>3 DEF DirShape, DirEffect
<1>4. ASSUME NEW n \in Node, ApplyRow(n) PROVE DirShape' /\ DirEffect(n)
  BY <1>0, <1>4, ApplyRowDoes, RowsKeepShape DEF DirEffect
<1>5. ASSUME NEW n \in Node, NEW d \in Dn, Read(n, d) PROVE DirShape' /\ DirEffect(n)
  BY <1>0, <1>5, ReadDoes, RowsKeepShape DEF DirEffect
<1> QED BY <1>1, <1>2, <1>3, <1>4, <1>5 DEF DirNext

LEMMA ShapeStutters == DirShape /\ UNCHANGED dirvars => DirShape'
BY DEF DirShape, DirTypes, GenShape, RowShape, Mine, Row, dirvars

LEMMA ShapeAlways == DirSpec => []DirShape
<1>1. DirShape /\ [DirNext]_dirvars => DirShape'
  BY StepsDo, ShapeStutters
<1> QED BY <1>1, ShapeInit, PTL DEF DirSpec

(* The store, the entries served and believed, the flushes and what a node *)
(* has marked keep their types for every number of nodes and entries.      *)
THEOREM DirTyping == DirSpec => []DirTypeOK
BY ShapeAlways, ShapeImplies, PTL

-----------------------------------------------------------------------------
(* No change is forgotten.                                                 *)

(* What n serves at d is journalled, or what n believes stored, or what    *)
(* the flush in flight sent; or the transaction decided otherwise, and the *)
(* answer will say.                                                        *)
Remembered(n, d) ==
  LET r == Row(n, d)
  IN  \/ Pend(n, d)
      \/ r.op = "none" /\ live[n][d] = shadow[n][d]
      \/ r.op # "none" /\ (live[n][d] = r.sent \/ r.over)
      \/ r.outcome # "none"

RememberInv == \A n \in Node, d \in Dn : failures[n] = 0 /\ ~overtaken[n] => Remembered(n, d)

LEMMA RememberInit == DirInit => RememberInv
<1> SUFFICES ASSUME DirInit, NEW n \in Node, NEW d \in Dn PROVE Remembered(n, d)
  BY DEF RememberInv
<1>1. Row(n, d) = NoWrite /\ live[n][d] = shadow[n][d]
  BY IdleFlight DEF DirInit, Row
<1> QED BY <1>1 DEF Remembered, NoWrite

LEMMA RememberStep ==
  ASSUME DirShape, DirShape', RememberInv, NEW n \in Node, DirEffect(n)
  PROVE  RememberInv'
<1> SUFFICES ASSUME NEW m \in Node, NEW k \in Dn, failures'[m] = 0, ~overtaken'[m]
             PROVE  Remembered(m, k)'
  BY DEF RememberInv
<1>0. OthersStay(n)
  BY DEF DirEffect, LocalEffect, TakeEffect, StillEffect, CommitEffect, ResolveEffect, FailEffect,
         RestartEffect, ReadEffect, ApplyEffect
<1>00. DirTypes /\ RowShape(m, k) /\ RowShape(m, k)'
  BY DEF DirShape
<1>1. CASE m # n
  <2>1. /\ live'[m][k] = live[m][k] /\ shadow'[m][k] = shadow[m][k] /\ Row(m, k)' = Row(m, k)
        /\ Pend(m, k)' = Pend(m, k) /\ failures'[m] = failures[m] /\ overtaken'[m] = overtaken[m]
    BY <1>0, <1>1, OthersKept
  <2>2. Remembered(m, k)
    BY <2>1 DEF RememberInv
  <2> QED BY <2>1, <2>2 DEF Remembered
<1>2. ASSUME m = n, NEW d \in Dn, NEW e \in MaybeEntry, LocalEffect(n, d, e)
      PROVE  Remembered(n, k)'
  <2>1. failures[n] = 0 /\ ~overtaken[n]
    BY <1>2 DEF LocalEffect
  <2>2. Remembered(n, k)
    BY <2>1 DEF RememberInv
  <2>3. CASE k = d
    BY <1>2, <2>3 DEF LocalEffect, Remembered
  <2>4. CASE k # d
    BY <1>2, <2>2, <2>4 DEF LocalEffect, Remembered
  <2> QED BY <2>3, <2>4
<1>3. CASE m = n /\ TakeEffect(n)
  <2>1. failures[n] = 0 /\ ~overtaken[n] /\ live'[n][k] = live[n][k] /\ shadow'[n][k] = shadow[n][k]
    BY <1>3 DEF TakeEffect
  <2>2. Remembered(n, k)
    BY <2>1 DEF RememberInv
  <2>3. Row(n, k).op = "none" /\ Row(n, k).outcome = "none"
    BY <1>00, <1>3 DEF RowShape, TakeEffect
  <2>4. k \in Wanted(n) \/ live[n][k] = shadow[n][k]
    BY <1>3, <2>2, <2>3 DEF TakeEffect, Remembered
  <2>5. RowTaken(n, k, Row(n, k)')
    BY <1>3 DEF TakeEffect
  <2> QED BY <1>3, <2>1, <2>4, <2>5 DEF Remembered, RowTaken, NoWrite
<1>4. CASE m = n /\ StillEffect(n)
  <2>1. /\ failures[n] = 0 /\ ~overtaken[n] /\ live'[n][k] = live[n][k]
        /\ shadow'[n][k] = shadow[n][k] /\ Row(n, k)' = Row(n, k) /\ Pend(n, k)' = Pend(n, k)
    BY <1>4 DEF StillEffect, Row, Pend
  <2>2. Remembered(n, k)
    BY <2>1 DEF RememberInv
  <2> QED BY <1>4, <2>1, <2>2 DEF Remembered
<1>5. CASE m = n /\ CommitEffect(n)
  <2>1. /\ failures[n] = 0 /\ ~overtaken[n] /\ live'[n][k] = live[n][k]
        /\ shadow'[n][k] = shadow[n][k] /\ Pend(n, k)' = Pend(n, k)
        /\ RowCommitted(n, k, Row(n, k)', store'[k])
    BY <1>5 DEF CommitEffect, Pend
  <2>2. Remembered(n, k)
    BY <2>1 DEF RememberInv
  <2> QED BY <1>5, <1>00, <2>1, <2>2 DEF Remembered, RowCommitted, RowShape
<1>6. CASE m = n /\ ResolveEffect(n)
  <2>1. /\ failures[n] = 0 /\ ~overtaken[n]
        /\ ~(Row(n, k).over /\ Row(n, k).outcome \in {"none", "merged"})
        /\ Resolved(n, k, live'[n][k]) /\ (Pend(n, k) => Pend(n, k)')
        /\ shadow'[n][k] = Believed(Row(n, k), shadow[n][k], live[n][k])
    BY <1>6 DEF ResolveEffect, DirTypes
  <2>2. Remembered(n, k)
    BY <2>1 DEF RememberInv
  <2>3. Row(n, k)' = NoWrite
    BY <1>6, NothingInFlight DEF ResolveEffect
  <2>4. Pend(n, k)' \/ live'[n][k] = shadow'[n][k]
    <3>1. CASE Row(n, k).outcome = "none"
      BY <2>1, <2>2, <3>1 DEF Resolved, Believed, Remembered
    <3>2. CASE Row(n, k).outcome = "deleted"
      BY <1>00, <1>6, <2>1, <3>2 DEF Resolved, Believed, RowShape
    <3>3. CASE Row(n, k).outcome \in {"theirs", "merged"}
      BY <2>1, <3>3 DEF Resolved, Believed
    <3> QED BY <1>00, <3>1, <3>2, <3>3, RowParts
  <2> QED BY <1>6, <2>3, <2>4 DEF Remembered, NoWrite
<1>7. CASE m = n /\ FailEffect(n)
  <2>1. failures'[n] = failures[n] + 1 /\ failures[n] \in Nat
    BY <1>00, <1>7 DEF FailEffect, DirTypes
  <2> QED BY <1>7, <2>1
<1>8. CASE m = n /\ RestartEffect(n)
  <2>1. Row(n, k)' = NoWrite /\ live'[n][k] = shadow'[n][k]
    BY <1>8, NothingInFlight DEF RestartEffect
  <2> QED BY <1>8, <2>1 DEF Remembered, NoWrite
<1>9. ASSUME m = n, NEW d \in Dn, ReadEffect(n, d)
      PROVE  Remembered(n, k)'
  <2>1. /\ failures[n] = 0 /\ ~overtaken[n] /\ live'[n][k] = live[n][k]
        /\ shadow'[n][k] = shadow[n][k] /\ Row(n, k)' = Row(n, k) /\ Pend(n, k)' = Pend(n, k)
    BY <1>9 DEF ReadEffect, Row, Pend
  <2>2. Remembered(n, k)
    BY <2>1 DEF RememberInv
  <2> QED BY <2>1, <2>2 DEF Remembered
<1>10. ASSUME m = n, NEW d \in Dn, ApplyEffect(n, d)
       PROVE  Remembered(n, k)'
  <2>1. failures[n] = 0 /\ ~overtaken[n]
    BY <1>10 DEF ApplyEffect
  <2>2. Remembered(n, k)
    BY <2>1 DEF RememberInv
  <2>3. CASE k # d
    BY <1>10, <2>2, <2>3 DEF ApplyEffect, Remembered
  <2>4. CASE k = d /\ Pend(n, d)'
    BY <2>4 DEF Remembered
  <2>5. CASE k = d /\ ~KeptHere(n, d) /\ NowHere(n, d) = reading[n].row
    <3>1. live'[n][d] = shadow'[n][d] /\ Aside(n, d, Row(n, d)')
          /\ Row(n, d)'.over = (Row(n, d).op # "none")
      BY <1>10, <2>5 DEF ApplyEffect
    <3> QED BY <2>5, <3>1 DEF Remembered, Aside
  <2> QED BY <1>10, <2>3, <2>4, <2>5 DEF ApplyEffect
<1> QED BY <1>1, <1>2, <1>3, <1>4, <1>5, <1>6, <1>7, <1>8, <1>9, <1>10 DEF DirEffect

LEMMA RememberAlways == DirSpec => []RememberInv
<1>1. DirShape /\ DirShape' /\ RememberInv /\ [DirNext]_dirvars => RememberInv'
  <2>1. DirShape /\ DirShape' /\ RememberInv /\ DirNext => RememberInv'
    BY StepsDo, RememberStep
  <2>2. RememberInv /\ UNCHANGED dirvars => RememberInv'
    BY DEF RememberInv, Remembered, Pend, Row, dirvars
  <2> QED BY <2>1, <2>2
<1> QED BY <1>1, RememberInit, ShapeAlways, PTL DEF DirSpec

(* While none of a node's flushes failed or was overtaken, whatever it     *)
(* serves and does not believe stored is in its journal or in flight: the  *)
(* generations, outcomes and applied rows of flush, advanceShadow and      *)
(* applyDirectoryChange drop no change.                                    *)
THEOREM ChangesRemembered == DirSpec => []NothingForgotten
<1>1. DirShape /\ RememberInv => NothingForgotten
  <2> SUFFICES ASSUME DirShape, RememberInv, NEW n \in Node, failures[n] = 0, ~overtaken[n],
                      ~dirty[n], flight[n].stage = "idle"
               PROVE  live[n] = shadow[n]
    BY DEF NothingForgotten
  <2>1. ASSUME NEW d \in Dn PROVE live[n][d] = shadow[n][d]
    <3>1. Remembered(n, d) /\ RowShape(n, d)
      BY DEF RememberInv, DirShape
    <3> QED BY <3>1 DEF Remembered, RowShape, Pend
  <2>2. live[n] \in [Dn -> MaybeEntry] /\ shadow[n] \in [Dn -> MaybeEntry]
    BY DEF DirShape, DirTypes
  <2> QED BY <2>1, <2>2
<1> QED BY <1>1, ShapeAlways, RememberAlways, PTL

-----------------------------------------------------------------------------
(* Sets of entries that no step leaves: E[d] holds every version of the    *)
(* entry at d there is, stored, served, believed, in flight or read.       *)

EntriesIn(E) == \A d \in Dn :
  /\ store[d] \in E[d]
  /\ \A n \in Node :
       /\ live[n][d] \in E[d] /\ shadow[n][d] \in E[d]
       /\ Row(n, d).base \in E[d] /\ Row(n, d).sent \in E[d]
       /\ Row(n, d).mine \in E[d] /\ Row(n, d).entry \in E[d]
       /\ reading[n].dn = d => reading[n].row \in E[d]

EntriesOf(E, n, d) ==
  /\ live[n][d] \in E[d] /\ shadow[n][d] \in E[d]
  /\ Row(n, d).base \in E[d] /\ Row(n, d).sent \in E[d]
  /\ Row(n, d).mine \in E[d] /\ Row(n, d).entry \in E[d]
  /\ reading[n].dn = d => reading[n].row \in E[d]

OwnIn(E, n) == \A d \in Dn : store[d] \in E[d] /\ EntriesOf(E, n, d)

MixedIn(S) ==
  /\ Absent \in S
  /\ \A b \in S, m \in S, t \in S : MergeEntry(b, m, t).entry \in S
  /\ \A here \in S, e \in S : e # Absent => Applied(here, e) \in S

Closed(E) == \A d \in Dn :
  /\ Absent \in E[d]
  /\ \A e \in E[d], f \in Entry, v \in Member :
       Alike(e, f) /\ Home[v] = d /\ f.list \in {e.list \cup {v}, e.list \ {v}} => f \in E[d]
  /\ \A b \in E[d], m \in E[d], t \in E[d] : MergeEntry(b, m, t).entry \in E[d]
  /\ \A here \in E[d], e \in E[d] : e # Absent => Applied(here, e) \in E[d]

(* Every entry that may be created is one of them.                         *)
Blank(f) == f.alias = {} /\ f.list = {} /\ f.secret = f.uuid
Made(E) == \A d \in Dn, f \in Entry : Blank(f) => f \in E[d]

(* What a step of n makes of its own entries and of the store.             *)
LEMMA EntriesOwn ==
  ASSUME DirShape, NEW E \in [Dn -> SUBSET MaybeEntry], \A d \in Dn : MixedIn(E[d]),
         NEW n \in Node, DirEffect(n), OwnIn(E, n),
         \A d \in Dn, e \in MaybeEntry :
           LocalEffect(n, d, e) /\ LocalKind(n, d, e) => e \in E[d]
  PROVE  OwnIn(E, n)'
<1>0. DirTypes
  BY DEF DirShape
<1>1. \A k \in Dn : EntriesOf(E, n, k) /\ store[k] \in E[k] /\ Mine(n, k) \in E[k]
  BY DEF OwnIn, EntriesOf, Mine
<1>2. \A k \in Dn : Absent \in E[k]
  BY DEF MixedIn
<1>3. ASSUME NEW k \in Dn, Row(n, k)' = NoWrite, live'[n][k] \in E[k], shadow'[n][k] \in E[k],
             reading'[n].dn = k => reading'[n].row \in E[k]
      PROVE  EntriesOf(E, n, k)'
  BY <1>2, <1>3 DEF NoWrite, EntriesOf
<1>4. ASSUME NEW k \in Dn, Aside(n, k, Row(n, k)'), live'[n][k] \in E[k], shadow'[n][k] \in E[k],
             reading'[n].dn = k => reading'[n].row \in E[k]
      PROVE  EntriesOf(E, n, k)'
  BY <1>1, <1>4 DEF Aside, EntriesOf
<1>5. ASSUME NEW k \in Dn, Row(n, k)' = Row(n, k), live'[n][k] \in E[k], shadow'[n][k] \in E[k],
             reading'[n].dn = k => reading'[n].row \in E[k]
      PROVE  EntriesOf(E, n, k)'
  BY <1>1, <1>5 DEF EntriesOf
<1>6. (\A k \in Dn : store'[k] \in E[k] /\ EntriesOf(E, n, k)') => OwnIn(E, n)'
  BY DEF OwnIn
<1>7. ASSUME NEW d \in Dn, NEW e \in MaybeEntry, LocalEffect(n, d, e), LocalKind(n, d, e)
      PROVE  OwnIn(E, n)'
  <2>1. /\ store' = store /\ shadow' = shadow /\ reading' = reading /\ live'[n][d] = e
        /\ \A k \in Dn \ {d} : live'[n][k] = live[n][k] /\ Row(n, k)' = Row(n, k)
        /\ Row(n, d)' = Row(n, d) \/ Aside(n, d, Row(n, d)')
    BY <1>7 DEF LocalEffect
  <2>2. e \in E[d]
    BY <1>7
  <2>3. \A k \in Dn : live'[n][k] \in E[k] /\ shadow'[n][k] \in E[k]
                      /\ (reading'[n].dn = k => reading'[n].row \in E[k]) /\ store'[k] \in E[k]
    BY <1>1, <2>1, <2>2 DEF EntriesOf
  <2> QED BY <1>4, <1>5, <1>6, <2>1, <2>3
<1>8. CASE TakeEffect(n)
  <2>1. /\ store' = store /\ live' = live /\ shadow' = shadow /\ reading' = reading
        /\ \A k \in Dn : RowTaken(n, k, Row(n, k)')
    BY <1>8 DEF TakeEffect
  <2>2. ASSUME NEW k \in Dn PROVE store'[k] \in E[k] /\ EntriesOf(E, n, k)'
    <3>1. RowTaken(n, k, Row(n, k)') /\ live[n][k] \in E[k] /\ shadow[n][k] \in E[k]
          /\ store[k] \in E[k] /\ (reading[n].dn = k => reading[n].row \in E[k])
      BY <1>1, <2>1 DEF EntriesOf
    <3> QED BY <1>2, <2>1, <3>1 DEF RowTaken, EntriesOf, NoWrite
  <2> QED BY <1>6, <2>2
<1>9. CASE StillEffect(n)
  <2>1. /\ store' = store /\ live' = live /\ shadow' = shadow /\ reading' = reading
        /\ \A k \in Dn : Row(n, k)' = Row(n, k)
    BY <1>9 DEF StillEffect, Row
  <2> QED BY <1>1, <1>6, <2>1 DEF EntriesOf
<1>10. CASE CommitEffect(n)
  <2>1. /\ live' = live /\ shadow' = shadow /\ reading' = reading
        /\ \A k \in Dn : RowCommitted(n, k, Row(n, k)', store'[k])
    BY <1>10 DEF CommitEffect
  <2>2. ASSUME NEW k \in Dn PROVE store'[k] \in E[k] /\ EntriesOf(E, n, k)'
    <3>1. RowVerdict(n, k).entry \in E[k]
      BY <1>1 DEF RowVerdict, MixedIn, EntriesOf
    <3>2. /\ RowCommitted(n, k, Row(n, k)', store'[k]) /\ store[k] \in E[k] /\ EntriesOf(E, n, k)
          /\ Mine(n, k) \in E[k]
      BY <1>1, <2>1
    <3>3. Row(n, k)'.base \in E[k] /\ Row(n, k)'.sent \in E[k] /\ Row(n, k)'.entry \in E[k]
          /\ store'[k] \in E[k]
      BY <1>2, <3>1, <3>2 DEF RowCommitted, EntriesOf
    <3>4. Row(n, k)'.mine \in E[k]
      BY <3>2 DEF RowCommitted, EntriesOf
    <3> QED BY <2>1, <3>2, <3>3, <3>4 DEF EntriesOf
  <2> QED BY <1>6, <2>2
<1>11. CASE ResolveEffect(n)
  <2>1. /\ store' = store /\ reading'[n].dn = reading[n].dn /\ reading'[n].row = reading[n].row
        /\ \A k \in Dn : /\ shadow'[n][k] = Believed(Row(n, k), shadow[n][k], live[n][k])
                         /\ Resolved(n, k, live'[n][k]) /\ Row(n, k)' = NoWrite
    BY <1>11, NothingInFlight DEF ResolveEffect
  <2>2. ASSUME NEW k \in Dn PROVE store'[k] \in E[k] /\ EntriesOf(E, n, k)'
    <3>1. EntriesOf(E, n, k) /\ store[k] \in E[k]
      BY <1>1
    <3>2. shadow'[n][k] \in E[k]
      <4>1. Row(n, k).op \in {"none", "upsert", "delete"}
        BY <1>0, RowParts
      <4> QED BY <2>1, <3>1, <4>1 DEF Believed, EntriesOf
    <3>3. live'[n][k] \in E[k]
      <4>1. CASE Row(n, k).outcome \in {"theirs", "merged"}
        <5>1. Settled(n, k) \in Entry
          BY <4>1, SettledTyped
        <5>2. Settled(n, k) \in E[k]
          BY <3>1 DEF Settled, MixedIn, EntriesOf
        <5>3. live'[n][k] = Applied(live[n][k], Settled(n, k))
          BY <2>1, <4>1 DEF Resolved
        <5> QED BY <3>1, <5>1, <5>2, <5>3, NotAbsent DEF MixedIn, EntriesOf
      <4>2. CASE Row(n, k).outcome \notin {"theirs", "merged"}
        BY <1>2, <2>1, <3>1, <4>2 DEF Resolved, EntriesOf
      <4> QED BY <4>1, <4>2
    <3>4. reading'[n].dn = k => reading'[n].row \in E[k]
      BY <2>1, <3>1 DEF EntriesOf
    <3> QED BY <1>3, <2>1, <3>1, <3>2, <3>3, <3>4
  <2> QED BY <1>6, <2>2
<1>12. CASE FailEffect(n)
  <2>1. /\ store' = store /\ live' = live /\ shadow' = shadow
        /\ reading'[n].dn = reading[n].dn /\ reading'[n].row = reading[n].row
        /\ \A k \in Dn : Row(n, k)' = NoWrite
    BY <1>12, NothingInFlight DEF FailEffect
  <2>2. \A k \in Dn : live'[n][k] \in E[k] /\ shadow'[n][k] \in E[k]
                      /\ (reading'[n].dn = k => reading'[n].row \in E[k]) /\ store'[k] \in E[k]
    BY <1>1, <2>1 DEF EntriesOf
  <2> QED BY <1>3, <1>6, <2>1, <2>2
<1>13. CASE RestartEffect(n)
  <2>1. /\ store' = store /\ live'[n] = store /\ shadow'[n] = store /\ reading'[n] = NotReading
        /\ \A k \in Dn : Row(n, k)' = NoWrite
    BY <1>13, NothingInFlight DEF RestartEffect
  <2>2. \A k \in Dn : live'[n][k] \in E[k] /\ shadow'[n][k] \in E[k]
                      /\ (reading'[n].dn = k => reading'[n].row \in E[k]) /\ store'[k] \in E[k]
    BY <1>1, <1>2, <2>1 DEF NotReading
  <2> QED BY <1>3, <1>6, <2>1, <2>2
<1>14. ASSUME NEW d \in Dn, ReadEffect(n, d)
       PROVE  OwnIn(E, n)'
  <2>1. /\ store' = store /\ live' = live /\ shadow' = shadow
        /\ reading'[n].dn = d /\ reading'[n].row = store[d]
        /\ \A k \in Dn : Row(n, k)' = Row(n, k)
    BY <1>14 DEF ReadEffect, Row
  <2>2. \A k \in Dn : live'[n][k] \in E[k] /\ shadow'[n][k] \in E[k]
                      /\ (reading'[n].dn = k => reading'[n].row \in E[k]) /\ store'[k] \in E[k]
    BY <1>1, <2>1 DEF EntriesOf
  <2> QED BY <1>5, <1>6, <2>1, <2>2
<1>15. ASSUME NEW d \in Dn, reading[n].dn = d, ApplyEffect(n, d)
       PROVE  OwnIn(E, n)'
  <2>1. /\ store' = store /\ reading'[n] = NotReading
        /\ live'[n][d] = NowHere(n, d) /\ shadow'[n][d] = reading[n].row
        /\ \A k \in Dn \ {d} : /\ live'[n][k] = live[n][k] /\ shadow'[n][k] = shadow[n][k]
                               /\ Row(n, k)' = Row(n, k)
        /\ Row(n, d)' = Row(n, d) \/ Aside(n, d, Row(n, d)')
    BY <1>15 DEF ApplyEffect
  <2>2. EntriesOf(E, n, d) /\ reading[n].row \in E[d]
    BY <1>1, <1>15 DEF EntriesOf
  <2>3. PutHere(n, d) \in E[d]
    <3>1. RowMerge(n, d).entry \in E[d]
      BY <2>2 DEF RowMerge, MixedIn, EntriesOf
    <3> QED BY <2>2, <3>1 DEF PutHere
  <2>4. NowHere(n, d) \in E[d]
    BY <1>2, <2>2, <2>3 DEF NowHere, MixedIn, EntriesOf
  <2>5. \A k \in Dn : live'[n][k] \in E[k] /\ shadow'[n][k] \in E[k]
                      /\ (reading'[n].dn = k => reading'[n].row \in E[k]) /\ store'[k] \in E[k]
    BY <1>1, <1>2, <2>1, <2>2, <2>4 DEF EntriesOf, NotReading
  <2> QED BY <1>4, <1>5, <1>6, <2>1, <2>5
<1> QED BY <1>7, <1>8, <1>9, <1>10, <1>11, <1>12, <1>13, <1>14, <1>15 DEF DirEffect

(* The same for every node, the entries of the others staying.             *)
LEMMA EntriesMove ==
  ASSUME DirShape, NEW E \in [Dn -> SUBSET MaybeEntry], \A d \in Dn : MixedIn(E[d]),
         EntriesIn(E), NEW n \in Node, DirEffect(n),
         \A d \in Dn, e \in MaybeEntry :
           LocalEffect(n, d, e) /\ LocalKind(n, d, e) => e \in E[d]
  PROVE  EntriesIn(E)'
<1>1. OthersStay(n)
  BY DEF DirEffect, LocalEffect, TakeEffect, StillEffect, CommitEffect, ResolveEffect, FailEffect,
         RestartEffect, ReadEffect, ApplyEffect
<1>2. \A m \in Node, k \in Dn : EntriesOf(E, m, k) /\ store[k] \in E[k]
  BY DEF EntriesIn, EntriesOf
<1>3. \A k \in Dn : store'[k] \in E[k] /\ EntriesOf(E, n, k)'
  <2>1. OwnIn(E, n)
    BY <1>2 DEF OwnIn
  <2>2. OwnIn(E, n)'
    BY <2>1, EntriesOwn
  <2> QED BY <2>2 DEF OwnIn
<1>4. ASSUME NEW m \in Node \ {n}, NEW k \in Dn PROVE EntriesOf(E, m, k)'
  <2>1. /\ live'[m][k] = live[m][k] /\ shadow'[m][k] = shadow[m][k]
        /\ Row(m, k)' = Row(m, k) /\ reading'[m] = reading[m]
    BY <1>1, OthersKept
  <2> QED BY <1>2, <2>1 DEF EntriesOf
<1> QED BY <1>3, <1>4 DEF EntriesIn, EntriesOf

LEMMA LocalIn ==
  ASSUME NEW E, Closed(E), NEW n \in Node, NEW d \in Dn, live[n][d] \in E[d],
         NEW e \in MaybeEntry, LocalKind(n, d, e), Creates(n, d, e) => e \in E[d]
  PROVE  e \in E[d]
<1>1. ASSUME NEW v \in Member, Adds(n, d, e, v) \/ Removes(n, d, e, v) PROVE e \in E[d]
  <2>1. Alike(live[n][d], e) /\ Home[v] = d
        /\ e.list \in {live[n][d].list \cup {v}, live[n][d].list \ {v}}
    BY <1>1 DEF Adds, Removes
  <2>2. e \in Entry
    BY <2>1, EntryFields DEF Alike
  <2> QED BY <2>1, <2>2 DEF Closed
<1>2. Deletes(n, d, e) => e \in E[d]
  BY DEF Deletes, Closed
<1> QED BY <1>1, <1>2 DEF LocalKind

LEMMA EntriesStep ==
  ASSUME DirShape, NEW E \in [Dn -> SUBSET MaybeEntry], Closed(E), EntriesIn(E),
         NEW n \in Node, DirEffect(n),
         \A d \in Dn, e \in MaybeEntry : Creates(n, d, e) => e \in E[d]
  PROVE  EntriesIn(E)'
<1>1. \A d \in Dn : MixedIn(E[d])
  BY DEF Closed, MixedIn
<1>2. \A d \in Dn : live[n][d] \in E[d]
  BY DEF EntriesIn
<1>3. \A d \in Dn, e \in MaybeEntry : LocalKind(n, d, e) => e \in E[d]
  BY <1>2, LocalIn
<1> QED BY <1>1, <1>3, EntriesMove

-----------------------------------------------------------------------------
(* A value is only ever found in the entry it was added to.                *)

AtHome == [d \in Dn |-> {e \in MaybeEntry : e # Absent => \A v \in e.list : Home[v] = d}]

LEMMA AtHomeClosed == AtHome \in [Dn -> SUBSET MaybeEntry] /\ Closed(AtHome) /\ Made(AtHome)
<1>1. AtHome \in [Dn -> SUBSET MaybeEntry]
  BY DEF AtHome
<1>2. ASSUME NEW d \in Dn
      PROVE  /\ Absent \in AtHome[d]
             /\ \A f \in Entry : Blank(f) => f \in AtHome[d]
             /\ \A e \in AtHome[d], f \in Entry, v \in Member :
                  Alike(e, f) /\ Home[v] = d /\ f.list \in {e.list \cup {v}, e.list \ {v}}
                    => f \in AtHome[d]
  <2>1. \A e : e \in AtHome[d] <=> e \in MaybeEntry /\ (e # Absent => \A v \in e.list : Home[v] = d)
    BY DEF AtHome
  <2>2. Absent \in AtHome[d]
    BY <2>1, AbsentIsEntry
  <2>3. \A f \in Entry : Blank(f) => f \in AtHome[d]
    BY <2>1, AbsentIsEntry DEF Blank
  <2>4. ASSUME NEW e \in AtHome[d], NEW f \in Entry, NEW v \in Member,
               Alike(e, f), Home[v] = d, f.list \in {e.list \cup {v}, e.list \ {v}}
        PROVE  f \in AtHome[d]
    <3>1. \A w \in e.list : Home[w] = d
      BY <2>1, <2>4 DEF Alike
    <3>2. \A w \in f.list : Home[w] = d
      BY <2>4, <3>1
    <3> QED BY <2>1, <3>2, AbsentIsEntry
  <2> QED BY <2>2, <2>3, <2>4
<1>3. ASSUME NEW d \in Dn, NEW b \in AtHome[d], NEW m \in AtHome[d], NEW t \in AtHome[d]
      PROVE  MergeEntry(b, m, t).entry \in AtHome[d]
  <2> DEFINE v == MergeEntry(b, m, t)
  <2>1. \A e : e \in AtHome[d] <=> e \in MaybeEntry /\ (e # Absent => \A w \in e.list : Home[w] = d)
    BY DEF AtHome
  <2>2. b \in MaybeEntry /\ m \in MaybeEntry /\ t \in MaybeEntry
    BY <2>1
  <2>3. /\ v.entry \in MaybeEntry
        /\ \/ v.entry \in {Absent, m, t}
           \/ /\ m # Absent /\ t # Absent
              /\ v.entry.list \subseteq t.list \cup m.list
    BY <2>2, MergeFacts DEF SameUuid
  <2> HIDE DEF v
  <2>4. CASE v.entry \in {Absent, m, t}
    BY <2>1, <2>4, AbsentIsEntry DEF v
  <2>5. CASE m # Absent /\ t # Absent /\ v.entry.list \subseteq t.list \cup m.list
    <3>1. \A w \in t.list \cup m.list : Home[w] = d
      BY <2>1, <2>5
    <3> QED BY <2>1, <2>3, <2>5, <3>1 DEF v
  <2> QED BY <2>3, <2>4, <2>5 DEF v
<1>4. ASSUME NEW d \in Dn, NEW here \in AtHome[d], NEW e \in AtHome[d], e # Absent
      PROVE  Applied(here, e) \in AtHome[d]
  <2>1. \A f : f \in AtHome[d] <=> f \in MaybeEntry /\ (f # Absent => \A w \in f.list : Home[w] = d)
    BY DEF AtHome
  <2>2. here \in MaybeEntry /\ e \in Entry
    BY <1>4, <2>1, EntryFields
  <2>3. Applied(here, e) \in Entry /\ Applied(here, e).list = e.list
    BY <2>2, AppliedFields
  <2> QED BY <1>4, <2>1, <2>3, AbsentIsEntry
<1> QED BY <1>1, <1>2, <1>3, <1>4 DEF Closed, Made

LEMMA MadeCreates ==
  ASSUME NEW E \in [Dn -> SUBSET MaybeEntry], Made(E), NEW n \in Node
  PROVE  \A d \in Dn, e \in MaybeEntry : Creates(n, d, e) => e \in E[d]
BY EntryFields DEF Creates, Made, Blank

LEMMA EntriesInit ==
  ASSUME NEW E \in [Dn -> SUBSET MaybeEntry], Closed(E), DirInit,
         \A d \in Dn : Seeded[d] # Absent => New(Seeded[d]) \in E[d]
  PROVE  EntriesIn(E)
<1>1. \A d \in Dn : Absent \in E[d]
  BY DEF Closed
<1>2. \A d \in Dn : store[d] \in E[d]
  BY <1>1, DirConstants DEF DirInit
<1>3. \A n \in Node, d \in Dn : Row(n, d) = NoWrite
  BY IdleFlight DEF DirInit, Row
<1>4. \A n \in Node : live[n] = store /\ shadow[n] = store /\ reading[n].row = Absent
  BY DEF DirInit, NotReading
<1> QED BY <1>1, <1>2, <1>3, <1>4 DEF EntriesIn, NoWrite

LEMMA MadeSeeds ==
  ASSUME NEW E \in [Dn -> SUBSET MaybeEntry], Made(E)
  PROVE  \A d \in Dn : Seeded[d] # Absent => New(Seeded[d]) \in E[d]
<1>1. ASSUME NEW d \in Dn, NEW u \in Uuid PROVE New(u) \in E[d]
  BY NewFields DEF Made, Blank
<1> QED BY <1>1, DirConstants

LEMMA EntriesStutter == \A E \in [Dn -> SUBSET MaybeEntry] :
                          EntriesIn(E) /\ UNCHANGED dirvars => EntriesIn(E)'
BY DEF EntriesIn, Row, dirvars

HomeInv == EntriesIn(AtHome)

LEMMA HomeAlways == DirSpec => []HomeInv
<1>1. DirInit => HomeInv
  BY AtHomeClosed, MadeSeeds, EntriesInit DEF HomeInv
<1>2. DirShape /\ HomeInv /\ [DirNext]_dirvars => HomeInv'
  <2> SUFFICES ASSUME DirShape, HomeInv, [DirNext]_dirvars PROVE HomeInv'
    OBVIOUS
  <2>1. ASSUME DirNext PROVE HomeInv'
    <3>1. PICK n \in Node : DirEffect(n)
      BY <2>1, StepsDo
    <3> QED BY <3>1, AtHomeClosed, MadeCreates, EntriesStep DEF HomeInv
  <2>2. ASSUME UNCHANGED dirvars PROVE HomeInv'
    BY <2>2, AtHomeClosed, EntriesStutter DEF HomeInv
  <2> QED BY <2>1, <2>2
<1> QED BY <1>1, <1>2, ShapeAlways, PTL DEF DirSpec

(* The entries of a directory no two of whose entries were created within  *)
(* the window of a create race: each has its own password and no alias.    *)
NoCreateRace == \A u \in Uuid, w \in Uuid : u # w => Apart(u, w) > Window

Plain == [d \in Dn |-> {e \in AtHome[d] : e # Absent => e.alias = {} /\ e.secret = e.uuid}]

LEMMA PlainApplied ==
  ASSUME NoCreateRace, NEW here \in MaybeEntry, NEW e \in Entry, e.alias = {},
         here # Absent => here.alias = {}
  PROVE  Applied(here, e) = e
<1>1. CASE here = Absent
  BY <1>1 DEF Applied
<1>2. CASE here # Absent /\ here.uuid = e.uuid
  <2>1. Applied(here, e) = [e EXCEPT !.uuid = e.uuid, !.alias = {}]
    <3>1. ({} \cup {e.uuid, e.uuid}) \ {e.uuid} = {}
      OBVIOUS
    <3> QED BY <1>2, <3>1 DEF Applied
  <2>2. [e EXCEPT !.uuid = e.uuid, !.alias = {}] = e
    BY DEF Entry
  <2> QED BY <2>1, <2>2
<1>3. CASE here # Absent /\ here.uuid # e.uuid
  <2>1. Apart(here.uuid, e.uuid) > Window
    <3>1. here.uuid \in Uuid /\ e.uuid \in Uuid
      BY <1>3, EntryFields DEF Entry
    <3> QED BY <1>3, <3>1 DEF NoCreateRace
  <2>2. here.alias = {}
    BY <1>3
  <2> QED BY <1>3, <2>1, <2>2 DEF Applied
<1> QED BY <1>1, <1>2, <1>3

LEMMA PlainClosed == ASSUME NoCreateRace
                     PROVE  Plain \in [Dn -> SUBSET MaybeEntry] /\ Closed(Plain) /\ Made(Plain)
<1>0. AtHome \in [Dn -> SUBSET MaybeEntry] /\ Closed(AtHome) /\ Made(AtHome)
  BY AtHomeClosed
<1>1. Plain \in [Dn -> SUBSET MaybeEntry]
  BY <1>0 DEF Plain
<1>2. ASSUME NEW d \in Dn
      PROVE  \A e : e \in Plain[d] <=>
               /\ e \in AtHome[d] /\ e \in MaybeEntry
               /\ e # Absent => e.alias = {} /\ e.secret = e.uuid
  BY <1>0 DEF Plain
<1>3. ASSUME NEW d \in Dn
      PROVE  /\ Absent \in Plain[d]
             /\ \A f \in Entry : Blank(f) => f \in Plain[d]
             /\ \A e \in Plain[d], f \in Entry, v \in Member :
                  Alike(e, f) /\ Home[v] = d /\ f.list \in {e.list \cup {v}, e.list \ {v}}
                    => f \in Plain[d]
  <2>1. /\ Absent \in AtHome[d]
        /\ \A f \in Entry : Blank(f) => f \in AtHome[d]
        /\ \A e \in AtHome[d], f \in Entry, v \in Member :
             Alike(e, f) /\ Home[v] = d /\ f.list \in {e.list \cup {v}, e.list \ {v}}
               => f \in AtHome[d]
    BY <1>0 DEF Closed, Made
  <2> QED BY <1>2, <2>1, AbsentIsEntry DEF Alike, Blank
<1>4. ASSUME NEW d \in Dn, NEW b \in Plain[d], NEW m \in Plain[d], NEW t \in Plain[d]
      PROVE  MergeEntry(b, m, t).entry \in Plain[d]
  <2> DEFINE v == MergeEntry(b, m, t)
  <2>0. /\ b \in AtHome[d] /\ m \in AtHome[d] /\ t \in AtHome[d]
        /\ b \in MaybeEntry /\ m \in MaybeEntry /\ t \in MaybeEntry
    BY <1>2
  <2>1. v.entry \in AtHome[d] /\ v.entry \in MaybeEntry
    BY <1>0, <2>0 DEF Closed
  <2>2. \/ v.entry \in {Absent, m, t}
        \/ /\ m # Absent /\ t # Absent /\ m.uuid = t.uuid
           /\ v.entry = MergeAttributes(b, m, t)
    <3>1. CASE m = Absent
      BY <3>1, MergeDeleted, VerdictFields
    <3>2. CASE m # Absent /\ t = Absent
      BY <3>2, MergeRowGone, VerdictFields
    <3>3. CASE m # Absent /\ t # Absent
      <4>1. v = IF AnotherEntry(b, m, t) THEN Verdict("theirs", t)
                ELSE IF ReCreated(b, m) THEN Verdict("mine", m)
                ELSE IF MergeAttributes(b, m, t) = m THEN Verdict("mine", m)
                ELSE Verdict("merged", MergeAttributes(b, m, t))
        BY <3>3, MergeOfTwo
      <4>2. ~AnotherEntry(b, m, t) /\ ~ReCreated(b, m) => m.uuid = t.uuid
        BY DEF AnotherEntry, ReCreated
      <4> HIDE DEF v
      <4>3. v.entry \in {Absent, m, t} \/ (m.uuid = t.uuid /\ v.entry = MergeAttributes(b, m, t))
        BY <4>1, <4>2, VerdictFields
      <4> QED BY <3>3, <4>3 DEF v
    <3> QED BY <3>1, <3>2, <3>3
  <2> HIDE DEF v
  <2>3. CASE v.entry \in {Absent, m, t}
    BY <1>3, <2>3 DEF v
  <2>4. CASE m # Absent /\ t # Absent /\ m.uuid = t.uuid /\ v.entry = MergeAttributes(b, m, t)
    <3>1. m \in Entry /\ t \in Entry /\ m.alias = {} /\ t.alias = {} /\ m.secret = m.uuid
          /\ t.secret = t.uuid
      BY <1>2, <2>0, <2>4, EntryFields
    <3>2. /\ v.entry.uuid = t.uuid /\ v.entry.alias = {}
          /\ v.entry.secret \in {m.secret, t.secret}
      BY <2>0, <2>4, <3>1, MergedFields
    <3> QED BY <1>2, <2>1, <2>4, <3>1, <3>2 DEF v
  <2> QED BY <2>2, <2>3, <2>4 DEF v
<1>5. ASSUME NEW d \in Dn, NEW here \in Plain[d], NEW e \in Plain[d], e # Absent
      PROVE  Applied(here, e) \in Plain[d]
  <2>1. here \in MaybeEntry /\ e \in Entry /\ e.alias = {} /\ (here # Absent => here.alias = {})
    BY <1>2, <1>5, EntryFields
  <2>2. Applied(here, e) = e
    BY <2>1, PlainApplied
  <2> QED BY <2>2
<1> QED BY <1>1, <1>3, <1>4, <1>5 DEF Closed, Made

PlainInv == EntriesIn(Plain)

LEMMA PlainAlways == ASSUME NoCreateRace PROVE DirSpec => []PlainInv
<1>1. DirInit => PlainInv
  BY PlainClosed, MadeSeeds, EntriesInit DEF PlainInv
<1>2. DirShape /\ PlainInv /\ [DirNext]_dirvars => PlainInv'
  <2> SUFFICES ASSUME DirShape, PlainInv, [DirNext]_dirvars PROVE PlainInv'
    OBVIOUS
  <2>1. ASSUME DirNext PROVE PlainInv'
    <3>1. PICK n \in Node : DirEffect(n)
      BY <2>1, StepsDo
    <3> QED BY <3>1, PlainClosed, MadeCreates, EntriesStep DEF PlainInv
  <2>2. ASSUME UNCHANGED dirvars PROVE PlainInv'
    BY <2>2, PlainClosed, EntriesStutter DEF PlainInv
  <2> QED BY <2>1, <2>2
<1> QED BY <1>1, <1>2, ShapeAlways, PTL DEF DirSpec

(* Where no two entries were created at once, a merge never gives one      *)
(* person's password to another: of two versions it mixes attributes only  *)
(* when entryUUID says they are one entry (mergeEntry).                    *)
THEOREM OwnPasswords == ASSUME NoCreateRace PROVE DirSpec => []NoChimera
<1>1. PlainInv => NoChimera
  <2> SUFFICES ASSUME PlainInv PROVE NoChimera
    OBVIOUS
  <2>1. \A d \in Dn : \A e \in Plain[d] : OwnSecret(e)
    BY DEF Plain, OwnSecret
  <2> QED BY <2>1 DEF PlainInv, EntriesIn, NoChimera
<1> QED BY <1>1, PlainAlways, PTL

-----------------------------------------------------------------------------
(* Where a value is before the store has taken it.                         *)

(* A merge makes no value up, and keeps what is mine and new.              *)
LEMMA MergeHas ==
  ASSUME NEW base \in MaybeEntry, NEW mine \in MaybeEntry, NEW theirs \in MaybeEntry, NEW v
  PROVE  LET m == MergeEntry(base, mine, theirs)
         IN  /\ Has(v, m.entry) => Has(v, mine) \/ Has(v, theirs)
             /\ m.outcome \in {"mine", "merged"} /\ Has(v, mine) /\ ~Has(v, base)
                  => Has(v, m.entry)
<1> DEFINE m == MergeEntry(base, mine, theirs)
           b == IF base = Absent THEN {} ELSE base.list
<1>1. m.outcome \in {"mine", "theirs", "merged", "deleted"}
  BY MergeFacts
<1>2. /\ m.outcome = "deleted" => m.entry = Absent
      /\ m.outcome = "theirs" => m.entry = theirs
  BY MergeFacts
<1>3. m.outcome \in {"mine", "merged"} =>
        \/ m.entry = mine
        \/ /\ SameUuid(mine, theirs) /\ SameUuid(mine, m.entry)
           /\ m.entry.list = (theirs.list \ (b \ mine.list)) \cup (mine.list \ b)
  BY MergeFacts
<1>4. ~Has(v, base) => v \notin b
  BY DEF Has
<1> HIDE DEF m, b
<1>5. Has(v, m.entry) => Has(v, mine) \/ Has(v, theirs)
  BY <1>1, <1>2, <1>3 DEF Has, SameUuid
<1>6. m.outcome \in {"mine", "merged"} /\ Has(v, mine) /\ ~Has(v, base) => Has(v, m.entry)
  BY <1>3, <1>4 DEF Has, SameUuid
<1> QED BY <1>5, <1>6 DEF m

(* What is done over after a merge keeps what is served and was not sent.  *)
LEMMA SettledHas ==
  ASSUME DirShape, NEW n \in Node, NEW d \in Dn, NEW v,
         Row(n, d).outcome \in {"theirs", "merged"}
  PROVE  /\ Has(v, Settled(n, d)) => Has(v, live[n][d]) \/ Has(v, Row(n, d).entry)
         /\ Has(v, Applied(live[n][d], Settled(n, d))) <=> Has(v, Settled(n, d))
         /\ Again(n, d) /\ Has(v, live[n][d]) /\ ~Has(v, Row(n, d).sent) => Has(v, Settled(n, d))
<1> DEFINE m == MergeEntry(Row(n, d).sent, live[n][d], Row(n, d).entry)
<1>1. /\ Row(n, d).sent \in MaybeEntry /\ Row(n, d).entry \in MaybeEntry
      /\ live[n][d] \in MaybeEntry
  BY RowParts DEF DirShape
<1>2. /\ Has(v, m.entry) => Has(v, live[n][d]) \/ Has(v, Row(n, d).entry)
      /\ m.outcome \in {"mine", "merged"} /\ Has(v, live[n][d]) /\ ~Has(v, Row(n, d).sent)
           => Has(v, m.entry)
  BY <1>1, MergeHas
<1>3. Settled(n, d) = IF Again(n, d) THEN m.entry ELSE Row(n, d).entry
  BY DEF Settled
<1>4. Settled(n, d) \in Entry
  BY SettledTyped
<1>5. Has(v, Applied(live[n][d], Settled(n, d))) <=> Has(v, Settled(n, d))
  BY <1>1, <1>4, AppliedFields, NotAbsent DEF Has
<1>6. Again(n, d) => m.outcome \in {"mine", "merged"}
  <2> SUFFICES ASSUME Again(n, d) PROVE m.outcome \in {"mine", "merged"}
    OBVIOUS
  <2>1. SameUuid(Row(n, d).sent, Row(n, d).entry) /\ live[n][d] # Absent
    BY DEF Again, DirShape, RowShape
  <2>2. m.outcome \in {"mine", "theirs", "merged", "deleted"}
    BY <1>1, MergeFacts
  <2>3. ~AnotherEntry(Row(n, d).sent, live[n][d], Row(n, d).entry) /\ Row(n, d).entry # Absent
    BY <2>1 DEF AnotherEntry, SameUuid
  <2> QED BY <2>1, <2>3, MergeOfTwo, VerdictFields
<1> HIDE DEF m
<1> QED BY <1>2, <1>3, <1>5, <1>6

Fresh(v) == life[v] \in {"unused", "added"}

(* It is with its author, if it was added, and nowhere else; and not in    *)
(* what the author's flush has written.                                    *)
Unstored(v, n, d) ==
  LET r == Row(n, d)
  IN  /\ ~Has(v, shadow[n][d]) /\ ~Has(v, r.base) /\ ~Has(v, r.entry)
      /\ reading[n].dn = d => ~Has(v, reading[n].row)
      /\ n # Author[v] \/ life[v] = "unused" =>
           ~Has(v, live[n][d]) /\ ~Has(v, r.sent) /\ ~Has(v, r.mine)
      /\ r.op = "upsert" /\ flight[n].stage = "taken" /\ Has(v, r.sent) => Has(v, Mine(n, d))
      /\ r.op = "upsert" /\ flight[n].stage = "written" /\ r.outcome \in {"none", "merged"} =>
           ~Has(v, r.sent)

PlaceInv == \A v \in Member : Fresh(v) =>
  ~Has(v, store[Home[v]]) /\ \A n \in Node : Unstored(v, n, Home[v])

LEMMA PlaceInit == DirInit => PlaceInv
<1> SUFFICES ASSUME DirInit, NEW v \in Member, NEW n \in Node
             PROVE  ~Has(v, store[Home[v]]) /\ Unstored(v, n, Home[v])
  BY DirConstants DEF PlaceInv
<1>1. PICK d \in Dn : d = Home[v]
  BY DirConstants
<1>2. ~Has(v, store[d])
  <2>1. Seeded[d] # Absent => Seeded[d] \in Uuid
    BY DirConstants
  <2>2. Seeded[d] # Absent => New(Seeded[d]).list = {}
    BY <2>1, NewFields
  <2> QED BY <2>2 DEF DirInit, Has
<1>3. Row(n, d) = NoWrite /\ live[n][d] = store[d] /\ shadow[n][d] = store[d]
      /\ reading[n].row = Absent
  BY IdleFlight DEF DirInit, Row, NotReading
<1> QED BY <1>1, <1>2, <1>3 DEF Unstored, NoWrite, Has

(* What becomes of a value a step does not take away.                      *)
LEMMA FreshBefore ==
  ASSUME DirTypes, NEW n \in Node, DirEffect(n), NEW v \in Member, Fresh(v)'
  PROVE  /\ Fresh(v)
         /\ \/ life'[v] = life[v] /\ since'[v] = since[v]
            \/ life'[v] = "added" /\ Author[v] = n
<1>1. life \in [Member -> Lives] /\ since \in [Member -> Nat]
  BY DEF DirTypes
<1>2. \A S \in SUBSET Dn : life' = GivenUp(n, S) => life'[v] \in {life[v], "void"}
  BY DEF GivenUp
<1>3. ASSUME NEW d \in Dn, NEW e \in MaybeEntry, LocalKind(n, d, e)
      PROVE  /\ Fresh(v)
             /\ \/ life'[v] = life[v] /\ since'[v] = since[v]
                \/ life'[v] = "added" /\ Author[v] = n
  <2>1. ASSUME NEW w \in Member, Adds(n, d, e, w)
        PROVE  /\ Fresh(v)
               /\ \/ life'[v] = life[v] /\ since'[v] = since[v]
                  \/ life'[v] = "added" /\ Author[v] = n
    BY <1>1, <2>1 DEF Adds, Fresh
  <2>2. ASSUME NEW w \in Member, Removes(n, d, e, w)
        PROVE  Fresh(v) /\ life'[v] = life[v] /\ since'[v] = since[v]
    BY <1>1, <2>2 DEF Removes, Fresh
  <2>3. Creates(n, d, e) \/ Deletes(n, d, e) =>
          Fresh(v) /\ life'[v] = life[v] /\ since'[v] = since[v]
    BY <1>1, <1>2 DEF Creates, Deletes, Fresh
  <2> QED BY <1>3, <2>1, <2>2, <2>3 DEF LocalKind
<1>4. CASE CommitEffect(n)
  BY <1>4 DEF CommitEffect, LifeAfter, Fresh
<1>5. CASE TakeEffect(n) \/ StillEffect(n) \/ FailEffect(n) \/ \E d \in Dn : ReadEffect(n, d)
  BY <1>5 DEF TakeEffect, StillEffect, FailEffect, ReadEffect, Fresh
<1>6. CASE ResolveEffect(n)
  <2>1. {d \in Dn : Row(n, d).outcome \in {"theirs", "deleted"}} \in SUBSET Dn
    OBVIOUS
  <2> QED BY <1>2, <1>6, <2>1 DEF ResolveEffect, Fresh
<1>7. CASE RestartEffect(n)
  BY <1>2, <1>7 DEF RestartEffect, Fresh
<1>8. CASE \E d \in Dn : ApplyEffect(n, d)
  <2>1. PICK d \in Dn : ApplyEffect(n, d)
    BY <1>8
  <2>2. life' = GivenUp(n, {d}) \/ life' = life
    BY <2>1 DEF ApplyEffect
  <2>3. life'[v] \in {life[v], "void"}
    BY <1>2, <2>2
  <2> QED BY <2>1, <2>3 DEF ApplyEffect, Fresh
<1> QED BY <1>3, <1>4, <1>5, <1>6, <1>7, <1>8 DEF DirEffect

LEMMA PlaceOthers ==
  ASSUME DirTypes, NEW n \in Node, DirEffect(n), OthersStay(n), NEW m \in Node \ {n},
         NEW v \in Member, NEW d \in Dn, Fresh(v)', Unstored(v, m, d)
  PROVE  Unstored(v, m, d)'
<1>1. /\ live'[m][d] = live[m][d] /\ shadow'[m][d] = shadow[m][d] /\ Row(m, d)' = Row(m, d)
      /\ Mine(m, d)' = Mine(m, d) /\ flight'[m] = flight[m] /\ reading'[m] = reading[m]
  BY OthersKept
<1>2. life'[v] = "unused" => life[v] = "unused"
  BY FreshBefore DEF Fresh
<1>3. m # Author[v] \/ life'[v] = "unused" => m # Author[v] \/ life[v] = "unused"
  BY <1>2
<1> QED BY <1>1, <1>3 DEF Unstored

(* A step of n itself, one entry.                                          *)
LEMMA PlaceOwn ==
  ASSUME DirShape, NEW n \in Node, DirEffect(n), NEW v \in Member, NEW d \in Dn, d = Home[v],
         Fresh(v)', ~Has(v, store[d]), \A m \in Node : Unstored(v, m, d)
  PROVE  ~Has(v, store'[d]) /\ Unstored(v, n, d)'
<1>0. DirTypes /\ RowShape(n, d) /\ Unstored(v, n, d)
  BY DEF DirShape
<1>1. Fresh(v) /\ (life'[v] = "unused" => life[v] = "unused")
      /\ (life'[v] = life[v] \/ (life'[v] = "added" /\ Author[v] = n))
  BY <1>0, FreshBefore DEF Fresh
<1> DEFINE away == n # Author[v] \/ life[v] = "unused"
           away2 == n # Author[v] \/ life'[v] = "unused"
<1>2. /\ away2 => away
      /\ away => ~Has(v, live[n][d]) /\ ~Has(v, Row(n, d).sent) /\ ~Has(v, Row(n, d).mine)
                 /\ ~Has(v, Mine(n, d))
  BY <1>0, <1>1 DEF Unstored, Mine
<1>3. ~Has(v, Absent) /\ ~Has(v, NoWrite.base) /\ ~Has(v, NoWrite.sent) /\ ~Has(v, NoWrite.mine)
      /\ ~Has(v, NoWrite.entry) /\ NoWrite.op = "none"
  BY DEF Has, NoWrite
<1>4. /\ store[d] \in MaybeEntry /\ live[n][d] \in MaybeEntry /\ shadow[n][d] \in MaybeEntry
      /\ Mine(n, d) \in MaybeEntry /\ Row(n, d).base \in MaybeEntry
      /\ Row(n, d).op \in {"none", "upsert", "delete"} /\ reading[n].row \in MaybeEntry
  BY <1>0, RowParts
<1> HIDE DEF away, away2
<1>5. ASSUME Row(n, d)' = NoWrite, ~Has(v, shadow'[n][d]), away => ~Has(v, live'[n][d]),
             reading'[n].dn = d => ~Has(v, reading'[n].row)
      PROVE  Unstored(v, n, d)'
  BY <1>2, <1>3, <1>5 DEF Unstored, away2
<1>6. ASSUME /\ Row(n, d)'.op = Row(n, d).op /\ Row(n, d)'.base = Row(n, d).base
             /\ Row(n, d)'.sent = Row(n, d).sent /\ Row(n, d)'.entry = Row(n, d).entry
             /\ Row(n, d)'.outcome = Row(n, d).outcome
             /\ Row(n, d)'.mine \in {Row(n, d).mine, Mine(n, d)},
             flight'[n].stage = flight[n].stage, Has(v, Mine(n, d)) => Has(v, Mine(n, d)'),
             ~Has(v, shadow'[n][d]), away2 => ~Has(v, live'[n][d]),
             reading'[n].dn = d => ~Has(v, reading'[n].row)
      PROVE  Unstored(v, n, d)'
  BY <1>0, <1>2, <1>6 DEF Unstored, away2
<1>7. ASSUME NEW k \in Dn, NEW e \in MaybeEntry, LocalEffect(n, k, e), LocalKind(n, k, e)
      PROVE  ~Has(v, store'[d]) /\ Unstored(v, n, d)'
  <2>1. /\ store' = store /\ shadow' = shadow /\ reading' = reading
        /\ flight'[n].stage = flight[n].stage
    BY <1>7 DEF LocalEffect
  <2>2. CASE k # d
    <3>1. Row(n, d)' = Row(n, d) /\ live'[n][d] = live[n][d]
      BY <1>7, <2>2 DEF LocalEffect
    <3>2. Mine(n, d)' = Mine(n, d)
      BY <3>1 DEF Mine
    <3> QED BY <1>0, <1>2, <1>6, <2>1, <3>1, <3>2 DEF Unstored
  <2>3. CASE k = d
    <3>1. live'[n][d] = e
      BY <1>7, <2>3 DEF LocalEffect
    <3>2. Has(v, live[n][d]) /\ e # Absent => Has(v, e)
      <4>1. ASSUME NEW w \in Member, Removes(n, d, e, w), Has(v, live[n][d]) PROVE Has(v, e)
        <5>1. v # w
          BY <1>0, <4>1 DEF Removes, Fresh, DirTypes
        <5> QED BY <4>1, <5>1 DEF Removes, Has, Alike
      <4>2. ASSUME NEW w \in Member, Adds(n, d, e, w), Has(v, live[n][d]) PROVE Has(v, e)
        BY <4>2 DEF Adds, Has, Alike
      <4>3. Creates(n, d, e) => ~Has(v, live[n][d])
        BY DEF Creates, Has
      <4>4. Deletes(n, d, e) => e = Absent
        BY DEF Deletes
      <4> QED BY <1>7, <2>3, <4>1, <4>2, <4>3, <4>4 DEF LocalKind
    <3>3. away2 => ~Has(v, e)
      <4> SUFFICES ASSUME away2 PROVE ~Has(v, e)
        OBVIOUS
      <4>1. away /\ ~Has(v, live[n][d])
        BY <1>2
      <4>2. ASSUME NEW w \in Member, Removes(n, d, e, w) PROVE ~Has(v, e)
        BY <4>1, <4>2 DEF Removes, Has, Alike
      <4>3. ASSUME NEW w \in Member, Adds(n, d, e, w) PROVE ~Has(v, e)
        <5>1. w # v
          BY <1>0, <4>3 DEF Adds, away2, DirTypes
        <5> QED BY <4>1, <4>3, <5>1 DEF Adds, Has, Alike
      <4>4. Creates(n, d, e) \/ Deletes(n, d, e) => ~Has(v, e)
        BY DEF Creates, Deletes, Has
      <4> QED BY <1>7, <2>3, <4>2, <4>3, <4>4 DEF LocalKind
    <3>4. CASE Row(n, d)' = Row(n, d) /\ e # Absent
      <4>1. Has(v, Mine(n, d)) => Has(v, Mine(n, d)')
        BY <3>1, <3>2, <3>4 DEF Mine
      <4> QED BY <1>0, <1>6, <2>1, <3>1, <3>3, <3>4, <4>1 DEF Unstored
    <3>5. CASE Aside(n, d, Row(n, d)')
      <4>1. Mine(n, d)' = Mine(n, d)
        BY <3>5 DEF Mine, Aside
      <4> QED BY <1>0, <1>6, <2>1, <3>1, <3>3, <3>5, <4>1 DEF Unstored, Aside
    <3> QED BY <1>7, <2>3, <3>4, <3>5 DEF LocalEffect
  <2> QED BY <2>2, <2>3
<1>8. CASE TakeEffect(n)
  <2>1. /\ store' = store /\ live' = live /\ shadow' = shadow /\ reading' = reading
        /\ flight'[n].stage = "taken" /\ RowTaken(n, d, Row(n, d)')
    BY <1>8 DEF TakeEffect
  <2>2. ~Has(v, shadow[n][d]) /\ (reading[n].dn = d => ~Has(v, reading[n].row))
    BY <1>0 DEF Unstored
  <2>3. CASE Row(n, d)' = NoWrite
    BY <1>2, <1>5, <2>1, <2>2, <2>3
  <2>4. CASE Row(n, d)' # NoWrite
    <3>1. Mine(n, d)' = IF Row(n, d)'.held THEN live[n][d] ELSE Row(n, d)'.mine
      BY <2>1 DEF Mine
    <3> QED BY <1>2, <1>3, <2>1, <2>2, <2>4, <3>1 DEF RowTaken, Unstored, away2
  <2> QED BY <2>3, <2>4
<1>9. CASE StillEffect(n)
  <2>1. /\ store' = store /\ live' = live /\ shadow' = shadow /\ reading' = reading
        /\ flight' = flight /\ Row(n, d)' = Row(n, d) /\ Mine(n, d)' = Mine(n, d)
    BY <1>9 DEF StillEffect, Row, Mine
  <2> QED BY <1>0, <1>2, <1>6, <2>1 DEF Unstored
<1>10. CASE CommitEffect(n)
  <2>1. /\ live' = live /\ shadow' = shadow /\ reading' = reading
        /\ flight[n].stage = "taken" /\ flight'[n].stage = "written"
        /\ RowCommitted(n, d, Row(n, d)', store'[d])
        /\ life'[v] = LifeAfter(v, store[d], store'[d])
    BY <1>10 DEF CommitEffect
  <2> DEFINE m == RowVerdict(n, d)
  <2>2. /\ Has(v, m.entry) => Has(v, Mine(n, d)) \/ Has(v, store[d])
        /\ m.outcome \in {"mine", "merged"} /\ Has(v, Mine(n, d)) /\ ~Has(v, Row(n, d).base)
             => Has(v, m.entry)
    BY <1>4, MergeHas DEF RowVerdict
  <2>3. Row(n, d).outcome = "none" /\ ~Has(v, Row(n, d).entry) /\ ~Has(v, Row(n, d).base)
    BY <1>0, <2>1 DEF RowShape, Unstored
  <2>4. ~Has(v, store'[d])
    <3>1. Has(v, store'[d]) => Has(v, Mine(n, d))
      BY <1>3, <2>1, <2>2 DEF RowCommitted
    <3>2. Has(v, store'[d]) => life[v] = "added"
      BY <1>1, <1>2, <3>1 DEF away, Fresh
    <3> QED BY <2>1, <3>2 DEF LifeAfter, Has, Fresh
  <2>5. ~Has(v, Row(n, d)'.entry)
    <3>1. m.outcome \in {"theirs", "deleted"} => ~Has(v, m.entry)
      <4>1. /\ m.outcome = "theirs" => m.entry = store[d]
            /\ m.outcome = "deleted" => m.entry = Absent
        BY <1>4, MergeFacts DEF RowVerdict
      <4> QED BY <1>3, <4>1
    <3> QED BY <2>1, <2>3, <2>4, <3>1 DEF RowCommitted
  <2>6. Row(n, d)'.op = "upsert" /\ Row(n, d)'.outcome \in {"none", "merged"}
          => ~Has(v, Row(n, d)'.sent)
    <3>1. Row(n, d).op = "upsert" /\ Has(v, Row(n, d).sent) => Has(v, Mine(n, d))
      BY <1>0, <2>1 DEF Unstored
    <3>2. Row(n, d).op = "upsert" /\ Row(n, d)'.outcome \in {"none", "merged"}
            => store'[d] = m.entry /\ m.outcome \in {"mine", "merged"}
      BY <2>1, <2>3 DEF RowCommitted
    <3>3. Row(n, d)'.op = Row(n, d).op /\ Row(n, d)'.sent = Row(n, d).sent
      BY <2>1 DEF RowCommitted
    <3> QED BY <2>2, <2>3, <2>4, <3>1, <3>2, <3>3
  <2> HIDE DEF m
  <2>7. /\ Row(n, d)'.base = Row(n, d).base /\ Row(n, d)'.sent = Row(n, d).sent
        /\ Row(n, d)'.mine = Row(n, d).mine
    BY <2>1 DEF RowCommitted
  <2> QED BY <1>0, <1>2, <2>1, <2>4, <2>5, <2>6, <2>7 DEF Unstored, away2
<1>11. CASE ResolveEffect(n)
  <2>1. /\ store' = store /\ flight[n].stage = "written" /\ Row(n, d)' = NoWrite
        /\ reading'[n].dn = reading[n].dn /\ reading'[n].row = reading[n].row
        /\ shadow'[n][d] = Believed(Row(n, d), shadow[n][d], live[n][d])
        /\ Resolved(n, d, live'[n][d])
    BY <1>11, NothingInFlight DEF ResolveEffect
  <2>2. ~Has(v, shadow'[n][d])
    <3>1. Row(n, d).op = "delete" => Row(n, d).sent = Absent
      BY <1>0 DEF RowShape
    <3> QED BY <1>0, <1>3, <1>4, <2>1, <3>1 DEF Believed, Unstored
  <2>3. away => ~Has(v, live'[n][d])
    <3>1. Row(n, d).outcome \in {"theirs", "merged"} =>
            /\ Has(v, Settled(n, d)) => Has(v, live[n][d]) \/ Has(v, Row(n, d).entry)
            /\ Has(v, Applied(live[n][d], Settled(n, d))) <=> Has(v, Settled(n, d))
      BY SettledHas
    <3> QED BY <1>0, <1>2, <1>3, <2>1, <3>1 DEF Resolved, Unstored
  <2> QED BY <1>0, <1>5, <2>1, <2>2, <2>3 DEF Unstored
<1>12. CASE FailEffect(n)
  <2>1. /\ store' = store /\ live' = live /\ shadow' = shadow /\ Row(n, d)' = NoWrite
        /\ reading'[n].dn = reading[n].dn /\ reading'[n].row = reading[n].row
    BY <1>12, NothingInFlight DEF FailEffect
  <2> QED BY <1>0, <1>2, <1>5, <2>1 DEF Unstored
<1>13. CASE RestartEffect(n)
  <2>1. /\ store' = store /\ live'[n] = store /\ shadow'[n] = store /\ Row(n, d)' = NoWrite
        /\ reading'[n] = NotReading
    BY <1>13, NothingInFlight DEF RestartEffect
  <2> QED BY <1>3, <1>5, <2>1 DEF NotReading
<1>14. ASSUME NEW k \in Dn, ReadEffect(n, k)
       PROVE  ~Has(v, store'[d]) /\ Unstored(v, n, d)'
  <2>1. /\ store' = store /\ live' = live /\ shadow' = shadow /\ flight' = flight
        /\ reading'[n].dn = k /\ reading'[n].row = store[k]
        /\ Row(n, d)' = Row(n, d) /\ Mine(n, d)' = Mine(n, d)
    BY <1>14 DEF ReadEffect, Row, Mine
  <2> QED BY <1>0, <1>2, <1>6, <2>1 DEF Unstored
<1>15. ASSUME NEW k \in Dn, reading[n].dn = k, ApplyEffect(n, k)
       PROVE  ~Has(v, store'[d]) /\ Unstored(v, n, d)'
  <2>1. /\ store' = store /\ reading'[n] = NotReading /\ flight'[n].stage = flight[n].stage
    BY <1>15 DEF ApplyEffect
  <2>2. reading'[n].dn = d => ~Has(v, reading'[n].row)
    BY <1>3, <2>1 DEF NotReading
  <2>3. CASE k # d
    <3>1. Row(n, d)' = Row(n, d) /\ live'[n][d] = live[n][d] /\ shadow'[n][d] = shadow[n][d]
      BY <1>15, <2>3 DEF ApplyEffect
    <3>2. Mine(n, d)' = Mine(n, d)
      BY <3>1 DEF Mine
    <3> QED BY <1>0, <1>2, <1>6, <2>1, <2>2, <3>1, <3>2 DEF Unstored
  <2>4. CASE k = d
    <3>1. /\ live'[n][d] = NowHere(n, d) /\ shadow'[n][d] = reading[n].row
          /\ \/ NowHere(n, d) = live[n][d] /\ Row(n, d)' = Row(n, d)
             \/ Aside(n, d, Row(n, d)')
      BY <1>15, <2>4 DEF ApplyEffect
    <3>2. ~Has(v, reading[n].row)
      BY <1>0, <1>15, <2>4 DEF Unstored
    <3>3. away => ~Has(v, NowHere(n, d))
      <4>1. Has(v, RowMerge(n, d).entry) => Has(v, live[n][d]) \/ Has(v, reading[n].row)
        BY <1>4, MergeHas DEF RowMerge
      <4>2. Has(v, PutHere(n, d)) => Has(v, live[n][d])
        BY <3>2, <4>1 DEF PutHere
      <4>3. PutHere(n, d) # Absent =>
              (Has(v, Applied(live[n][d], PutHere(n, d))) <=> Has(v, PutHere(n, d)))
        <5>1. PutHere(n, d) \in MaybeEntry
          BY <1>0, PutTyped
        <5> QED BY <1>4, <5>1, EntryFields, AppliedFields, NotAbsent DEF Has
      <4> QED BY <1>2, <1>3, <4>2, <4>3 DEF NowHere
    <3>4. Mine(n, d)' = Mine(n, d)
      BY <3>1 DEF Mine, Aside
    <3>5. /\ Row(n, d)'.op = Row(n, d).op /\ Row(n, d)'.base = Row(n, d).base
          /\ Row(n, d)'.sent = Row(n, d).sent /\ Row(n, d)'.entry = Row(n, d).entry
          /\ Row(n, d)'.outcome = Row(n, d).outcome
          /\ Row(n, d)'.mine \in {Row(n, d).mine, Mine(n, d)}
      BY <3>1 DEF Aside
    <3> QED BY <1>2, <1>6, <2>1, <2>2, <3>1, <3>2, <3>3, <3>4, <3>5
  <2> QED BY <2>3, <2>4
<1> QED BY <1>7, <1>8, <1>9, <1>10, <1>11, <1>12, <1>13, <1>14, <1>15 DEF DirEffect

LEMMA EffectStays ==
  ASSUME NEW n \in Node, DirEffect(n)
  PROVE  OthersStay(n)
BY DEF DirEffect, LocalEffect, TakeEffect, StillEffect, CommitEffect, ResolveEffect, FailEffect,
       RestartEffect, ReadEffect, ApplyEffect

LEMMA PlaceStep ==
  ASSUME DirShape, PlaceInv, NEW n \in Node, DirEffect(n)
  PROVE  PlaceInv'
<1> SUFFICES ASSUME NEW v \in Member, Fresh(v)'
             PROVE  ~Has(v, store'[Home[v]]) /\ \A m \in Node : Unstored(v, m, Home[v])'
  BY DEF PlaceInv
<1>1. PICK d \in Dn : d = Home[v]
  BY DirConstants
<1>2. DirTypes /\ OthersStay(n)
  BY EffectStays DEF DirShape
<1>3. Fresh(v)
  BY <1>2, FreshBefore
<1>4. ~Has(v, store[d]) /\ \A m \in Node : Unstored(v, m, d)
  BY <1>1, <1>3 DEF PlaceInv
<1>5. ~Has(v, store'[d]) /\ Unstored(v, n, d)'
  BY <1>1, <1>4, PlaceOwn
<1>6. ASSUME NEW m \in Node \ {n} PROVE Unstored(v, m, d)'
  BY <1>2, <1>4, PlaceOthers
<1> QED BY <1>1, <1>5, <1>6

LEMMA PlaceAlways == DirSpec => []PlaceInv
<1>1. DirShape /\ PlaceInv /\ [DirNext]_dirvars => PlaceInv'
  <2>1. DirShape /\ PlaceInv /\ DirNext => PlaceInv'
    BY StepsDo, PlaceStep
  <2>2. PlaceInv /\ UNCHANGED dirvars => PlaceInv'
    BY DEF PlaceInv, Unstored, Fresh, Mine, Row, dirvars
  <2> QED BY <2>1, <2>2
<1> QED BY <1>1, PlaceInit, ShapeAlways, PTL DEF DirSpec

-----------------------------------------------------------------------------
(* What the commit barrier believes of a change.                           *)

(* A value that was added and not stored yet is served by its author; and  *)
(* while no flush of that node failed, the generation of the change has    *)
(* not been counted as committed, because the change is journalled for a   *)
(* flush yet to start, or in the flush that is running, or the transaction *)
(* decided against it and the answer will say.                             *)
Waits(v, n, d) ==
  LET r == Row(n, d)
  IN  \/ Pend(n, d) /\ (flight[n].stage = "idle" \/ since[v] > flight[n].gen)
      \/ flight[n].stage = "taken" /\ r.op = "upsert" /\ Has(v, Mine(n, d))
      \/ flight[n].stage = "written" /\ r.outcome \in {"theirs", "deleted"}

Owed(v, n, d) ==
  /\ Has(v, live[n][d]) /\ since[v] <= gen[n]
  /\ failures[n] = 0 => since[v] > committed[n] /\ Waits(v, n, d)

OwedInv == \A v \in Member : life[v] = "added" => Owed(v, Author[v], Home[v])

LEMMA OwedOwn ==
  ASSUME DirShape, DirShape', PlaceInv, NEW n \in Node, DirEffect(n),
         NEW v \in Member, NEW d \in Dn, d = Home[v], Author[v] = n,
         life'[v] = "added", life[v] = "added" => Owed(v, n, d)
  PROVE  Owed(v, n, d)'
<1>0. DirTypes /\ RowShape(n, d) /\ RowShape(n, d)' /\ GenShape(n) /\ GenShape(n)'
  BY DEF DirShape
<1>1. /\ gen[n] \in Nat /\ gen'[n] \in Nat /\ committed[n] \in Nat /\ committed'[n] \in Nat
      /\ flight[n].gen \in Nat /\ since[v] \in Nat /\ failures[n] \in Nat /\ since'[v] \in Nat
      /\ committed[n] <= gen[n] /\ flight[n].gen <= gen[n]
  BY <1>0 DEF DirTypes, GenShape, FlightSet, DirShape
<1>2. /\ life \in [Member -> Lives] /\ live[n][d] \in MaybeEntry /\ Mine(n, d) \in MaybeEntry
      /\ store[d] \in MaybeEntry /\ Row(n, d).base \in MaybeEntry
      /\ Row(n, d).outcome \in {"none", "theirs", "merged", "deleted"}
      /\ Row(n, d).op \in {"none", "upsert", "delete"} /\ reading[n].row \in MaybeEntry
      /\ shadow[n][d] \in MaybeEntry
      /\ flight[n].stage \in {"idle", "taken", "written"}
  BY <1>0, RowParts DEF DirTypes
<1>3. Fresh(v) /\ (life[v] = "added" => since'[v] = since[v])
  <2>1. Fresh(v)' => Fresh(v)
    BY <1>0, FreshBefore
  <2>2. life[v] = "added" => since'[v] = since[v]
    <3>1. CASE \E k \in Dn, e \in MaybeEntry : LocalKind(n, k, e)
      BY <1>0, <3>1 DEF LocalKind, Adds, Removes, Creates, Deletes, DirTypes
    <3>2. CASE ~\E k \in Dn, e \in MaybeEntry : LocalKind(n, k, e)
      BY <3>2 DEF DirEffect, TakeEffect, StillEffect, CommitEffect, ResolveEffect, FailEffect,
                  RestartEffect, ReadEffect, ApplyEffect
    <3> QED BY <3>1, <3>2
  <2> QED BY <2>1, <2>2 DEF Fresh
<1>4. Unstored(v, n, d) /\ ~Has(v, store[d])
  BY <1>3 DEF PlaceInv
<1>5. ~Has(v, Absent)
  BY DEF Has
<1>6. ASSUME NEW k \in Dn, NEW e \in MaybeEntry, LocalEffect(n, k, e), LocalKind(n, k, e)
      PROVE  Owed(v, n, d)'
  <2>1. /\ gen'[n] = gen[n] + 1 /\ committed' = committed /\ failures' = failures
        /\ flight'[n].stage = flight[n].stage /\ flight'[n].gen = flight[n].gen
        /\ live'[n][k] = e /\ Pend(n, k)' /\ (Pend(n, d) => Pend(n, d)')
    BY <1>6 DEF LocalEffect
  <2>2. CASE Adds(n, k, e, v)
    <3>1. k = d /\ since'[v] = gen[n] + 1 /\ Has(v, e)
      BY <1>0, <2>2 DEF Adds, Has, Alike, DirTypes
    <3> QED BY <1>1, <2>1, <3>1 DEF Owed, Waits
  <2>3. CASE ~Adds(n, k, e, v)
    <3>1. life[v] = "added" /\ (k = d => e # Absent /\ Has(v, e))
      <4>1. ASSUME NEW w \in Member, Adds(n, k, e, w)
            PROVE  life[v] = "added" /\ (k = d => e # Absent /\ Has(v, e))
        <5>1. w # v /\ life[v] = "added"
          BY <1>2, <2>3, <4>1 DEF Adds
        <5> QED BY <4>1, <5>1 DEF Adds, Has, Alike, Owed
      <4>2. ASSUME NEW w \in Member, Removes(n, k, e, w)
            PROVE  life[v] = "added" /\ (k = d => e # Absent /\ Has(v, e))
        <5>1. w # v /\ life[v] = "added"
          BY <1>2, <4>2 DEF Removes
        <5> QED BY <4>2, <5>1 DEF Removes, Has, Alike, Owed
      <4>3. CASE Creates(n, k, e)
        BY <4>3 DEF Creates, Has, Owed
      <4>4. CASE Deletes(n, k, e)
        BY <4>4 DEF Deletes, GivenUp
      <4> QED BY <1>6, <4>1, <4>2, <4>3, <4>4 DEF LocalKind
    <3>2. Owed(v, n, d) /\ since'[v] = since[v]
      BY <1>3, <3>1
    <3>3. Has(v, live'[n][d])
      BY <1>6, <2>1, <3>1, <3>2 DEF LocalEffect, Owed
    <3>4. Has(v, Mine(n, d)) => Has(v, Mine(n, d)')
      <4>1. CASE k # d
        <5>1. Row(n, d)' = Row(n, d) /\ live'[n][d] = live[n][d]
          BY <1>6, <4>1 DEF LocalEffect
        <5> QED BY <5>1 DEF Mine
      <4>2. CASE k = d /\ Row(n, d)' = Row(n, d)
        BY <3>3, <4>2 DEF Mine
      <4>3. CASE k = d /\ Aside(n, d, Row(n, d)')
        BY <4>3 DEF Mine, Aside
      <4> QED BY <1>6, <4>1, <4>2, <4>3 DEF LocalEffect
    <3>5. Row(n, d)'.op = Row(n, d).op /\ Row(n, d)'.outcome = Row(n, d).outcome
      BY <1>6 DEF LocalEffect, Aside
    <3>6. Waits(v, n, d) => Waits(v, n, d)'
      BY <2>1, <3>2, <3>4, <3>5 DEF Waits
    <3> QED BY <1>1, <2>1, <3>2, <3>3, <3>6 DEF Owed
  <2> QED BY <2>2, <2>3
<1>7. CASE TakeEffect(n)
  <2>1. /\ live' = live /\ committed' = committed /\ failures' = failures /\ gen' = gen
        /\ life' = life /\ since' = since /\ flight[n].stage = "idle"
        /\ flight'[n].stage = "taken" /\ RowTaken(n, d, Row(n, d)')
        /\ (Pend(n, d) => d \in Wanted(n))
    BY <1>7 DEF TakeEffect
  <2>2. Owed(v, n, d)
    BY <2>1
  <2>3. failures[n] = 0 => Waits(v, n, d)'
    <3> SUFFICES ASSUME failures[n] = 0 PROVE Waits(v, n, d)'
      OBVIOUS
    <3>1. Row(n, d).outcome = "none" /\ Waits(v, n, d)
      BY <1>0, <2>1, <2>2 DEF Owed, RowShape
    <3>2. d \in Wanted(n)
      BY <2>1, <3>1 DEF Waits
    <3>3. Has(v, live[n][d]) /\ ~Has(v, shadow[n][d])
      BY <1>4, <2>2 DEF Owed, Unstored
    <3>4. Row(n, d)'.op = "upsert" /\ Row(n, d)'.held
      BY <2>1, <3>2, <3>3 DEF RowTaken, Has
    <3> QED BY <2>1, <3>3, <3>4 DEF Waits, Mine
  <2> QED BY <2>1, <2>2, <2>3 DEF Owed
<1>8. CASE StillEffect(n)
  <2>1. /\ live' = live /\ failures' = failures /\ gen' = gen /\ life' = life /\ since' = since
        /\ flight' = flight /\ Row(n, d)' = Row(n, d) /\ Mine(n, d)' = Mine(n, d)
        /\ Pend(n, d)' = Pend(n, d)
    BY <1>8 DEF StillEffect, Row, Mine, Pend
  <2>2. Owed(v, n, d) /\ (Waits(v, n, d) => Waits(v, n, d)')
    BY <2>1 DEF Waits
  <2>3. CASE committed' = committed
    BY <2>1, <2>2, <2>3 DEF Owed
  <2>4. CASE ~dirty[n] /\ flight[n].stage = "idle"
    <3>1. ~Waits(v, n, d)
      BY <2>4 DEF Waits, Pend
    <3> QED BY <2>1, <2>2, <3>1 DEF Owed
  <2> QED BY <1>8, <2>3, <2>4 DEF StillEffect
<1>9. CASE CommitEffect(n)
  <2>1. /\ live' = live /\ committed' = committed /\ failures' = failures /\ gen' = gen
        /\ since' = since /\ flight[n].stage = "taken" /\ flight'[n].stage = "written"
        /\ flight'[n].gen = flight[n].gen /\ Pend(n, d)' = Pend(n, d)
        /\ RowCommitted(n, d, Row(n, d)', store'[d])
        /\ life'[v] = LifeAfter(v, store[d], store'[d])
    BY <1>9 DEF CommitEffect, Pend
  <2>2. life[v] = "added" /\ ~Has(v, store'[d])
    BY <1>3, <2>1 DEF LifeAfter, Has, Fresh
  <2>3. Owed(v, n, d)
    BY <2>2
  <2>4. Waits(v, n, d) => Waits(v, n, d)'
    <3>1. CASE Pend(n, d) /\ (flight[n].stage = "idle" \/ since[v] > flight[n].gen)
      BY <2>1, <3>1 DEF Waits
    <3>2. CASE Row(n, d).op = "upsert" /\ Has(v, Mine(n, d))
      <4> DEFINE m == RowVerdict(n, d)
      <4>1. m.outcome \in {"mine", "merged"} => Has(v, m.entry)
        <5>1. ~Has(v, Row(n, d).base)
          BY <1>4 DEF Unstored
        <5> QED BY <1>2, <3>2, <5>1, MergeHas DEF RowVerdict
      <4>2. Row(n, d)'.outcome \in {"theirs", "deleted"}
        BY <2>1, <2>2, <3>2, <4>1 DEF RowCommitted
      <4> QED BY <2>1, <4>2 DEF Waits
    <3> QED BY <2>1, <3>1, <3>2 DEF Waits
  <2> QED BY <2>1, <2>3, <2>4 DEF Owed
<1>10. CASE ResolveEffect(n)
  <2>1. /\ since' = since /\ failures' = failures /\ gen[n] <= gen'[n]
        /\ flight[n].stage = "written" /\ flight'[n].stage = "idle"
        /\ Resolved(n, d, live'[n][d]) /\ (Pend(n, d) => Pend(n, d)')
        /\ committed'[n] = (IF committed[n] < flight[n].gen THEN flight[n].gen ELSE committed[n])
        /\ life' = GivenUp(n, {k \in Dn : Row(n, k).outcome \in {"theirs", "deleted"}})
    BY <1>10, IdleFlight DEF ResolveEffect
  <2>2. life[v] = "added" /\ Row(n, d).outcome \in {"none", "merged"}
    BY <1>2, <2>1 DEF GivenUp
  <2>3. Owed(v, n, d)
    BY <2>2
  <2>4. Has(v, live'[n][d])
    <3>1. CASE Row(n, d).outcome = "none"
      BY <2>1, <2>3, <3>1 DEF Resolved, Owed
    <3>2. CASE Row(n, d).outcome = "merged"
      <4>1. ~Has(v, Row(n, d).sent) /\ Has(v, live[n][d])
        BY <1>0, <1>2, <1>4, <2>1, <2>3, <3>2 DEF Unstored, Owed, RowShape
      <4>2. Again(n, d)
        BY <3>2, <4>1 DEF Again, Has
      <4>3. Has(v, Applied(live[n][d], Settled(n, d)))
        BY <3>2, <4>1, <4>2, SettledHas
      <4> QED BY <2>1, <3>2, <4>3 DEF Resolved
    <3> QED BY <2>2, <3>1, <3>2
  <2>5. failures[n] = 0 => since[v] > committed'[n] /\ Waits(v, n, d)'
    BY <1>1, <2>1, <2>2, <2>3 DEF Owed, Waits
  <2> QED BY <1>1, <2>1, <2>3, <2>4, <2>5 DEF Owed
<1>11. CASE FailEffect(n)
  <2>1. live' = live /\ gen' = gen /\ life' = life /\ since' = since /\ failures'[n] # 0
    BY <1>1, <1>11 DEF FailEffect
  <2> QED BY <2>1 DEF Owed
<1>12. CASE RestartEffect(n)
  BY <1>12 DEF RestartEffect, GivenUp
<1>13. ASSUME NEW k \in Dn, ReadEffect(n, k)
       PROVE  Owed(v, n, d)'
  <2>1. /\ live' = live /\ failures' = failures /\ gen' = gen /\ life' = life /\ since' = since
        /\ committed' = committed /\ Pend(n, d)' = Pend(n, d)
        /\ flight' = flight /\ Row(n, d)' = Row(n, d) /\ Mine(n, d)' = Mine(n, d)
    BY <1>13 DEF ReadEffect, Row, Mine, Pend
  <2> QED BY <2>1 DEF Owed, Waits
<1>14. ASSUME NEW k \in Dn, reading[n].dn = k, ApplyEffect(n, k)
       PROVE  Owed(v, n, d)'
  <2>1. /\ since' = since /\ failures' = failures /\ committed' = committed /\ gen[n] <= gen'[n]
        /\ flight'[n].stage = flight[n].stage /\ flight'[n].gen = flight[n].gen
        /\ (Pend(n, d) => Pend(n, d)')
        /\ life' = IF Waiting(n, k) /\ ~KeptHere(n, k) THEN GivenUp(n, {k}) ELSE life
    BY <1>14 DEF ApplyEffect
  <2>2. life[v] = "added" /\ Owed(v, n, d) /\ (k = d => ~Waiting(n, d) \/ KeptHere(n, d))
    BY <1>2, <2>1 DEF GivenUp
  <2>3. Has(v, live'[n][d]) /\ (Has(v, Mine(n, d)) => Has(v, Mine(n, d)'))
        /\ Row(n, d)'.op = Row(n, d).op /\ Row(n, d)'.outcome = Row(n, d).outcome
    <3>1. CASE k # d
      <4>1. Row(n, d)' = Row(n, d) /\ live'[n][d] = live[n][d]
        BY <1>14, <3>1 DEF ApplyEffect
      <4> QED BY <2>2, <4>1 DEF Mine, Owed
    <3>2. CASE k = d
      <4>1. Has(v, live[n][d]) /\ ~Has(v, shadow[n][d])
        BY <1>4, <2>2 DEF Owed, Unstored
      <4>2. KeptHere(n, d) /\ RowMerge(n, d).outcome \in {"mine", "merged"}
        BY <2>2, <3>2, <4>1 DEF Waiting, KeptHere, Has
      <4>3. PutHere(n, d) = RowMerge(n, d).entry /\ Has(v, RowMerge(n, d).entry)
        BY <1>2, <4>1, <4>2, MergeHas DEF PutHere, RowMerge
      <4>4. PutHere(n, d) # Absent /\ NowHere(n, d) = Applied(live[n][d], PutHere(n, d))
        BY <4>3 DEF NowHere, Has
      <4>5. Has(v, NowHere(n, d))
        <5>1. PutHere(n, d) \in Entry
          BY <1>0, <4>4, PutTyped, EntryFields
        <5> QED BY <1>2, <4>3, <4>4, <5>1, AppliedFields, NotAbsent DEF Has
      <4>6. /\ live'[n][d] = NowHere(n, d)
            /\ \/ NowHere(n, d) = live[n][d] /\ Row(n, d)' = Row(n, d)
               \/ Aside(n, d, Row(n, d)')
        BY <1>14, <3>2 DEF ApplyEffect
      <4> QED BY <4>5, <4>6 DEF Mine, Aside
    <3> QED BY <3>1, <3>2
  <2>4. Waits(v, n, d) => Waits(v, n, d)'
    BY <2>1, <2>3 DEF Waits
  <2> QED BY <1>1, <2>1, <2>2, <2>3, <2>4 DEF Owed
<1> QED BY <1>6, <1>7, <1>8, <1>9, <1>10, <1>11, <1>12, <1>13, <1>14 DEF DirEffect

LEMMA OwedStep ==
  ASSUME DirShape, DirShape', PlaceInv, OwedInv, NEW n \in Node, DirEffect(n)
  PROVE  OwedInv'
<1> SUFFICES ASSUME NEW v \in Member, life'[v] = "added" PROVE Owed(v, Author[v], Home[v])'
  BY DEF OwedInv
<1>1. PICK d \in Dn, m \in Node : d = Home[v] /\ m = Author[v]
  BY DirConstants
<1>2. DirTypes /\ OthersStay(n)
  BY EffectStays DEF DirShape
<1>3. life[v] = "added" => Owed(v, m, d)
  BY <1>1 DEF OwedInv
<1>4. CASE m = n
  BY <1>1, <1>3, <1>4, OwedOwn
<1>5. CASE m # n
  <2>1. life[v] = "added" /\ since'[v] = since[v]
    BY <1>1, <1>2, <1>5, FreshBefore DEF Fresh
  <2>2. /\ live'[m][d] = live[m][d] /\ Row(m, d)' = Row(m, d) /\ Mine(m, d)' = Mine(m, d)
        /\ Pend(m, d)' = Pend(m, d) /\ flight'[m] = flight[m] /\ gen'[m] = gen[m]
        /\ committed'[m] = committed[m] /\ failures'[m] = failures[m]
    BY <1>2, <1>5, OthersKept
  <2> QED BY <1>1, <1>3, <2>1, <2>2 DEF Owed, Waits
<1> QED BY <1>4, <1>5

LEMMA OwedAlways == DirSpec => []OwedInv
<1>1. DirInit => OwedInv
  BY DEF DirInit, OwedInv
<1>2. DirShape /\ DirShape' /\ PlaceInv /\ OwedInv /\ [DirNext]_dirvars => OwedInv'
  <2>1. DirShape /\ DirShape' /\ PlaceInv /\ OwedInv /\ DirNext => OwedInv'
    BY StepsDo, OwedStep
  <2>2. OwedInv /\ UNCHANGED dirvars => OwedInv'
    BY DEF OwedInv, Owed, Waits, Pend, Mine, Row, dirvars
  <2> QED BY <2>1, <2>2
<1> QED BY <1>1, <1>2, ShapeAlways, PlaceAlways, PTL DEF DirSpec

(* The commit barrier's belief is right: on a node none of whose flushes   *)
(* failed, once every generation up to a change's has committed the change *)
(* is in the store, or was decided there (directoryThrough, commitThrough  *)
(* and the generation a flush takes before it compares).                   *)
THEOREM CommitsStored == DirSpec => []CommittedIsStored
<1>1. DirShape /\ OwedInv => CommittedIsStored
  <2> SUFFICES ASSUME DirShape, OwedInv, NEW v \in Member, failures[Author[v]] = 0,
                      committed[Author[v]] >= since[v], life[v] = "added"
               PROVE  FALSE
    BY DEF CommittedIsStored
  <2>1. PICK m \in Node : m = Author[v]
    BY DirConstants
  <2>2. since[v] > committed[m] /\ since[v] \in Nat /\ committed[m] \in Nat
    BY <2>1 DEF OwedInv, Owed, DirShape, DirTypes
  <2> QED BY <2>1, <2>2
<1> QED BY <1>1, ShapeAlways, OwedAlways, PTL

-----------------------------------------------------------------------------
(* An entry that is created has an entryUUID no entry has yet.             *)

Known(U) == [d \in Dn |-> {e \in Plain[d] : e # Absent => e.uuid \in U}]

LEMMA KnownClosed ==
  ASSUME NoCreateRace, NEW U
  PROVE  Known(U) \in [Dn -> SUBSET MaybeEntry] /\ Closed(Known(U))
<1> DEFINE K == Known(U)
<1>0. Plain \in [Dn -> SUBSET MaybeEntry] /\ Closed(Plain)
  BY PlainClosed
<1>1. K \in [Dn -> SUBSET MaybeEntry]
  BY <1>0 DEF Known
<1>2. ASSUME NEW d \in Dn
      PROVE  \A e : e \in K[d] <=> /\ e \in Plain[d] /\ e \in MaybeEntry
                                   /\ e # Absent => e.uuid \in U
  BY <1>0 DEF Known
<1>3. ASSUME NEW d \in Dn, NEW e \in Plain[d], e # Absent
      PROVE  e.alias = {} /\ e \in Entry
  BY <1>0, <1>3, EntryFields DEF Plain
<1> HIDE DEF K
<1>4. \A d \in Dn : Absent \in K[d]
  BY <1>0, <1>2, AbsentIsEntry DEF Closed
<1>5. ASSUME NEW d \in Dn, NEW e \in K[d], NEW f \in Entry, NEW v \in Member,
             Alike(e, f), Home[v] = d, f.list \in {e.list \cup {v}, e.list \ {v}}
      PROVE  f \in K[d]
  <2>1. e \in Plain[d] /\ f.uuid = e.uuid /\ e.uuid \in U
    BY <1>2, <1>5 DEF Alike
  <2>2. f \in Plain[d]
    BY <1>0, <1>5, <2>1 DEF Closed
  <2> QED BY <1>2, <2>1, <2>2, AbsentIsEntry
<1>6. ASSUME NEW d \in Dn, NEW b \in K[d], NEW m \in K[d], NEW t \in K[d]
      PROVE  MergeEntry(b, m, t).entry \in K[d]
  <2> DEFINE v == MergeEntry(b, m, t)
  <2>1. /\ b \in Plain[d] /\ m \in Plain[d] /\ t \in Plain[d]
        /\ b \in MaybeEntry /\ m \in MaybeEntry /\ t \in MaybeEntry
    BY <1>2
  <2>2. v.entry \in Plain[d] /\ v.entry \in MaybeEntry
    BY <1>0, <2>1 DEF Closed
  <2>3. v.entry \in {Absent, m, t} \/ SameUuid(m, v.entry)
    BY <2>1, MergeFacts
  <2> HIDE DEF v
  <2>4. v.entry \in K[d]
    BY <1>2, <2>2, <2>3 DEF SameUuid
  <2> QED BY <2>4 DEF v
<1>7. ASSUME NEW d \in Dn, NEW here \in K[d], NEW e \in K[d], e # Absent
      PROVE  Applied(here, e) \in K[d]
  <2>1. here \in Plain[d] /\ e \in Plain[d] /\ here \in MaybeEntry
    BY <1>2
  <2>2. Applied(here, e) = e
    BY <1>3, <1>7, <2>1, PlainApplied
  <2> QED BY <2>2
<1>8. Closed(K)
  BY <1>4, <1>5, <1>6, <1>7 DEF Closed
<1> QED BY <1>1, <1>8 DEF K

UsedInv == EntriesIn(Known(used))

LEMMA UsedInit == ASSUME NoCreateRace, DirInit PROVE UsedInv
<1>1. used = {Seeded[d] : d \in Dn} \ {Absent}
  BY DEF DirInit
<1>2. ASSUME NEW d \in Dn, Seeded[d] # Absent PROVE New(Seeded[d]) \in Known(used)[d]
  <2>1. New(Seeded[d]) \in Plain[d]
    BY <1>2, PlainClosed, MadeSeeds
  <2>2. New(Seeded[d]).uuid = Seeded[d] /\ Seeded[d] \in used
    BY <1>1, <1>2, DirConstants, NewFields
  <2> QED BY <2>1, <2>2 DEF Known
<1> QED BY <1>2, KnownClosed, EntriesInit DEF UsedInv

LEMMA UsedGrows == DirNext => used \subseteq used'
<1>1. ASSUME NEW n \in Node, LocalStep(n) PROVE used \subseteq used'
  BY <1>1 DEF LocalStep, AddMember, RemoveMember, Create, Delete
<1>2. ASSUME NEW n \in Node, Take(n) \/ TakeNothing(n) \/ FlushAsked(n) PROVE used' = used
  BY <1>2 DEF Take, TakeNothing, FlushAsked
<1>3. ASSUME NEW n \in Node, Commit(n) PROVE used' = used
  BY <1>3 DEF Commit
<1>4. ASSUME NEW n \in Node, Resolve(n) PROVE used' = used
  BY <1>4 DEF Resolve
<1>5. ASSUME NEW n \in Node, FlushFails(n) \/ Restart(n) PROVE used' = used
  BY <1>5 DEF FlushFails, Restart
<1>6. ASSUME NEW n \in Node, ApplyRow(n) PROVE used' = used
  BY <1>6 DEF ApplyRow
<1>7. ASSUME NEW n \in Node, NEW d \in Dn, Read(n, d) PROVE used' = used
  BY <1>7 DEF Read
<1> QED BY <1>1, <1>2, <1>3, <1>4, <1>5, <1>6, <1>7 DEF DirNext, FlushStep

LEMMA UsedStep ==
  ASSUME NoCreateRace, DirShape, UsedInv, NEW n \in Node, DirEffect(n), used \subseteq used'
  PROVE  UsedInv'
<1>1. PICK U : U = used'
  OBVIOUS
<1>2. EntriesIn(Known(U))
  <2>1. \A d \in Dn : \A e : e \in Known(used)[d] => e \in Known(U)[d]
    BY <1>1 DEF Known
  <2> QED BY <2>1 DEF UsedInv, EntriesIn
<1>3. \A d \in Dn, e \in MaybeEntry : Creates(n, d, e) => e \in Known(U)[d]
  <2>1. \A d \in Dn, e \in MaybeEntry : Creates(n, d, e) => e \in Plain[d]
    BY PlainClosed, MadeCreates
  <2> QED BY <1>1, <2>1 DEF Known, Creates
<1>4. EntriesIn(Known(U))'
  BY <1>2, <1>3, KnownClosed, EntriesStep
<1> QED BY <1>1, <1>4 DEF UsedInv

LEMMA UsedAlways == ASSUME NoCreateRace PROVE DirSpec => []UsedInv
<1>1. DirShape /\ UsedInv /\ [DirNext]_dirvars => UsedInv'
  <2>1. DirShape /\ UsedInv /\ DirNext => UsedInv'
    BY StepsDo, UsedGrows, UsedStep
  <2>2. UsedInv /\ UNCHANGED dirvars => UsedInv'
    BY DEF UsedInv, EntriesIn, Row, dirvars
  <2> QED BY <2>1, <2>2
<1> QED BY <1>1, UsedInit, ShapeAlways, PTL DEF DirSpec

-----------------------------------------------------------------------------
(* What the store took stays.                                              *)

Active == {v \in Member : life[v] \in {"added", "stored"}}

(* Of the values in A, a later version of one entry has those of an        *)
(* earlier one.                                                            *)
Keeps(A, a, b) == SameUuid(a, b) => \A v \in A : Has(v, a) => Has(v, b)

LEMMA KeepsStill ==
  ASSUME NEW A, NEW B, NEW a, NEW b, Keeps(A, a, b), \A v \in B : Has(v, a) => v \in A
  PROVE  Keeps(B, a, b)
BY DEF Keeps

(* A merge with a base that mine keeps, keeps theirs; and one with a base  *)
(* that theirs keeps, keeps what mine did.                                 *)
LEMMA MergeKeeps ==
  ASSUME NEW base \in MaybeEntry, NEW mine \in MaybeEntry, NEW theirs \in MaybeEntry, NEW A,
         MergeEntry(base, mine, theirs).outcome \in {"mine", "merged"}
  PROVE  LET e == MergeEntry(base, mine, theirs).entry
         IN  /\ Keeps(A, base, mine) => Keeps(A, theirs, e)
             /\ \A s : Keeps(A, base, theirs) /\ Keeps(A, s, mine) => Keeps(A, s, e)
<1> DEFINE m == MergeEntry(base, mine, theirs)
           b == IF base = Absent THEN {} ELSE base.list
<1>1. \/ m.entry = mine /\ (theirs = Absent \/ ~SameUuid(mine, theirs))
      \/ /\ SameUuid(mine, theirs) /\ SameUuid(mine, m.entry)
         /\ base # Absent => SameUuid(base, mine)
         /\ m.entry.list = (theirs.list \ (b \ mine.list)) \cup (mine.list \ b)
  BY MergeFacts
<1>2. \A v : v \in b <=> Has(v, base)
  BY DEF Has
<1> HIDE DEF m, b
<1>3. CASE m.entry = mine /\ (theirs = Absent \/ ~SameUuid(mine, theirs))
  <2>1. ~SameUuid(theirs, mine)
    BY <1>3 DEF SameUuid
  <2>2. Keeps(A, theirs, m.entry)
    BY <1>3, <2>1 DEF Keeps
  <2>3. \A s : Keeps(A, s, mine) => Keeps(A, s, m.entry)
    BY <1>3
  <2> QED BY <2>2, <2>3 DEF m
<1>4. CASE /\ SameUuid(mine, theirs) /\ SameUuid(mine, m.entry)
           /\ base # Absent => SameUuid(base, mine)
           /\ m.entry.list = (theirs.list \ (b \ mine.list)) \cup (mine.list \ b)
  <2>1. \A v : Has(v, m.entry) <=> \/ Has(v, theirs) /\ ~(v \in b /\ ~Has(v, mine))
                                   \/ Has(v, mine) /\ v \notin b
    BY <1>4 DEF Has, SameUuid
  <2>2. ASSUME Keeps(A, base, mine) PROVE Keeps(A, theirs, m.entry)
    <3>1. \A v \in A : v \in b => Has(v, mine)
      BY <1>2, <1>4, <2>2 DEF Keeps, Has
    <3> QED BY <2>1, <3>1 DEF Keeps
  <2>3. ASSUME NEW s, Keeps(A, base, theirs), Keeps(A, s, mine) PROVE Keeps(A, s, m.entry)
    <3> SUFFICES ASSUME SameUuid(s, m.entry), NEW v \in A, Has(v, s) PROVE Has(v, m.entry)
      BY DEF Keeps
    <3>1. SameUuid(s, mine)
      BY <1>4 DEF SameUuid
    <3>2. Has(v, mine)
      BY <2>3, <3>1 DEF Keeps
    <3>3. v \in b => SameUuid(base, theirs)
      BY <1>2, <1>4 DEF SameUuid, Has
    <3>4. v \in b => Has(v, theirs)
      BY <1>2, <2>3, <3>3 DEF Keeps
    <3> QED BY <2>1, <3>2, <3>4
  <2> QED BY <2>2, <2>3 DEF m
<1> QED BY <1>1, <1>3, <1>4

(* What n will believe at d once its flush is answered.                    *)
Bel(n, d) == Believed(Row(n, d), shadow[n][d], live[n][d])

KeptAt(n, d) ==
  LET r == Row(n, d)
  IN  /\ Keeps(Active, shadow[n][d], live[n][d])
      /\ r.op = "upsert" /\ flight[n].stage = "taken" =>
           Keeps(Active, r.base, Mine(n, d)) /\ Keeps(Active, r.sent, Mine(n, d))
      /\ r.op = "upsert" /\ ~r.over => Keeps(Active, r.sent, live[n][d])
      /\ reading[n].dn = d =>
           /\ Keeps(Active, shadow[n][d], reading[n].row)
           /\ reading[n].late => Keeps(Active, Bel(n, d), reading[n].row)

StoreHolds == \A v \in Member : life[v] = "stored" => Has(v, store[Home[v]])

StayInv == NoneOvertaken => StoreHolds /\ \A n \in Node, d \in Dn : KeptAt(n, d)

(* What the entries at d are known to be.                                  *)
Good(d, e) == /\ e \in MaybeEntry /\ (e # Absent => e.uuid \in used /\ e.alias = {})
              /\ \A v : Has(v, e) => v \in Member /\ Home[v] = d

LEMMA GoodParts ==
  ASSUME UsedInv, NEW n \in Node, NEW d \in Dn
  PROVE  /\ Good(d, store[d]) /\ Good(d, live[n][d]) /\ Good(d, shadow[n][d])
         /\ Good(d, Row(n, d).base) /\ Good(d, Row(n, d).sent) /\ Good(d, Row(n, d).mine)
         /\ Good(d, Row(n, d).entry) /\ Good(d, Mine(n, d))
         /\ reading[n].dn = d => Good(d, reading[n].row)
<1>1. \A e \in Known(used)[d] : Good(d, e)
  <2> SUFFICES ASSUME NEW e \in Known(used)[d] PROVE Good(d, e)
    OBVIOUS
  <2>1. e \in AtHome[d] /\ (e # Absent => e.alias = {} /\ e.uuid \in used)
    BY DEF Known, Plain
  <2>2. e \in MaybeEntry /\ (e # Absent => \A v \in e.list : Home[v] = d)
    BY <2>1 DEF AtHome
  <2>3. e # Absent => e.list \subseteq Member
    BY <2>2, EntryFields
  <2> QED BY <2>1, <2>2, <2>3 DEF Good, Has
<1>2. Good(d, live[n][d]) /\ Good(d, Row(n, d).mine)
  BY <1>1 DEF UsedInv, EntriesIn
<1>3. Good(d, Mine(n, d))
  BY <1>2 DEF Mine
<1> QED BY <1>1, <1>2, <1>3 DEF UsedInv, EntriesIn

(* A value nobody has added yet is in no entry.                            *)
LEMMA UnusedNowhere ==
  ASSUME DirTypes, UsedInv, PlaceInv, NEW v \in Member, life[v] = "unused",
         NEW n \in Node, NEW d \in Dn
  PROVE  /\ ~Has(v, shadow[n][d]) /\ ~Has(v, Row(n, d).base) /\ ~Has(v, Row(n, d).sent)
         /\ ~Has(v, Row(n, d).entry) /\ ~Has(v, store[d]) /\ ~Has(v, live[n][d])
         /\ reading[n].dn = d => ~Has(v, reading[n].row)
<1>1. CASE Home[v] = d
  BY <1>1 DEF PlaceInv, Fresh, Unstored
<1>2. CASE Home[v] # d
  BY <1>2, GoodParts DEF Good
<1> QED BY <1>1, <1>2

LEMMA ActiveBefore ==
  ASSUME DirTypes, NEW n \in Node, DirEffect(n), NEW v \in Active'
  PROVE  v \in Member /\ (v \in Active \/ life[v] = "unused")
<1>0. v \in Member /\ life'[v] \in {"added", "stored"} /\ life \in [Member -> Lives]
  BY DEF Active, DirTypes
<1>1. CASE life'[v] = "added"
  BY <1>0, <1>1, FreshBefore DEF Fresh, Active
<1>2. CASE life'[v] = "stored"
  <2>1. \A S : life' = GivenUp(n, S) => life[v] = "stored"
    BY <1>0, <1>2 DEF GivenUp
  <2>2. \A d \in Dn, e \in MaybeEntry : LocalKind(n, d, e) => life[v] = "stored"
    BY <1>0, <1>2, <2>1 DEF LocalKind, Adds, Removes, Creates, Deletes
  <2>3. CASE CommitEffect(n)
    BY <1>0, <1>2, <2>3 DEF CommitEffect, LifeAfter, Active
  <2>4. CASE TakeEffect(n) \/ StillEffect(n) \/ FailEffect(n) \/ \E d \in Dn : ReadEffect(n, d)
    BY <1>0, <2>4 DEF TakeEffect, StillEffect, FailEffect, ReadEffect, Active
  <2>5. CASE ResolveEffect(n) \/ RestartEffect(n) \/ \E d \in Dn : ApplyEffect(n, d)
    <3>1. life' = life \/ \E S : life' = GivenUp(n, S)
      BY <2>5 DEF ResolveEffect, RestartEffect, ApplyEffect
    <3> QED BY <1>0, <1>2, <2>1, <3>1 DEF Active
  <2> QED BY <1>0, <2>2, <2>3, <2>4, <2>5 DEF DirEffect, Active
<1> QED BY <1>0, <1>1, <1>2

(* Nothing but what is served gains a value.                               *)
Old(e) == \A v \in Active' : Has(v, e) => v \in Active

LEMMA OldParts ==
  ASSUME DirTypes, UsedInv, PlaceInv, NEW n \in Node, DirEffect(n), NEW m \in Node, NEW d \in Dn
  PROVE  /\ Old(shadow[m][d]) /\ Old(Row(m, d).base) /\ Old(Row(m, d).sent)
         /\ Old(Row(m, d).entry) /\ Old(Bel(m, d)) /\ Old(store[d]) /\ Old(live[m][d])
         /\ reading[m].dn = d => Old(reading[m].row)
<1>1. ASSUME NEW v \in Active', v \notin Active
      PROVE  /\ ~Has(v, shadow[m][d]) /\ ~Has(v, Row(m, d).base) /\ ~Has(v, Row(m, d).sent)
             /\ ~Has(v, Row(m, d).entry) /\ ~Has(v, store[d]) /\ ~Has(v, live[m][d])
             /\ reading[m].dn = d => ~Has(v, reading[m].row)
  <2>1. v \in Member /\ life[v] = "unused"
    BY <1>1, ActiveBefore
  <2> QED BY <2>1, UnusedNowhere
<1>2. Bel(m, d) \in {Row(m, d).entry, shadow[m][d], Row(m, d).sent}
  BY DEF Bel, Believed
<1> QED BY <1>1, <1>2 DEF Old

LEMMA KeptOthers ==
  ASSUME DirTypes, UsedInv, PlaceInv, NEW n \in Node, DirEffect(n), OthersStay(n),
         NEW m \in Node \ {n}, NEW d \in Dn, KeptAt(m, d)
  PROVE  KeptAt(m, d)'
<1>1. /\ live'[m][d] = live[m][d] /\ shadow'[m][d] = shadow[m][d] /\ Row(m, d)' = Row(m, d)
      /\ Mine(m, d)' = Mine(m, d) /\ flight'[m] = flight[m] /\ reading'[m] = reading[m]
  BY OthersKept
<1>2. Bel(m, d)' = Bel(m, d)
  BY <1>1 DEF Bel
<1>3. /\ Old(shadow[m][d]) /\ Old(Row(m, d).base) /\ Old(Row(m, d).sent) /\ Old(Bel(m, d))
  BY OldParts
<1>4. \A a, b : Old(a) /\ Keeps(Active, a, b) => Keeps(Active', a, b)
  BY KeepsStill DEF Old
<1> QED BY <1>1, <1>2, <1>3, <1>4 DEF KeptAt

(* A local change takes away only what it is meant to.                     *)
LEMMA LocalKeeps ==
  ASSUME DirTypes, NEW n \in Node, NEW d \in Dn, NEW e, LocalKind(n, d, e),
         NEW a, a # Absent => a.uuid \in used, Old(a), Keeps(Active, a, live[n][d])
  PROVE  Keeps(Active', a, e)
<1> SUFFICES ASSUME SameUuid(a, e), NEW v \in Active', Has(v, a) PROVE Has(v, e)
  BY DEF Keeps
<1>0. v \in Active /\ life \in [Member -> Lives] /\ life'[v] \in {"added", "stored"} /\ v \in Member
  BY DEF Old, Active, DirTypes
<1>1. Alike(live[n][d], e) => Has(v, live[n][d])
  BY <1>0 DEF Alike, SameUuid, Keeps
<1>2. ASSUME NEW w \in Member, Adds(n, d, e, w) PROVE Has(v, e)
  BY <1>1, <1>2 DEF Adds, Has, Alike
<1>3. ASSUME NEW w \in Member, Removes(n, d, e, w) PROVE Has(v, e)
  <2>1. v # w
    BY <1>0, <1>3 DEF Removes
  <2> QED BY <1>1, <1>3, <2>1 DEF Removes, Has, Alike
<1>4. ~Creates(n, d, e)
  BY DEF Creates, SameUuid
<1>5. ~Deletes(n, d, e)
  BY DEF Deletes, SameUuid
<1> QED BY <1>2, <1>3, <1>4, <1>5 DEF LocalKind

(* What the store holds, a row that is read holds, or is another entry.    *)
LEMMA StoreKeeps ==
  ASSUME PlaceInv, UsedInv, StoreHolds, NEW n \in Node, NEW d \in Dn
  PROVE  /\ Keeps(Active, shadow[n][d], store[d])
         /\ flight[n].stage = "written" /\ RowShape(n, d) /\ Row(n, d) \in RowSet =>
              Keeps(Active, Bel(n, d), store[d])
<1>1. ASSUME NEW a, Good(d, a), \A v \in Member : Home[v] = d /\ life[v] = "added" => ~Has(v, a)
      PROVE  Keeps(Active, a, store[d])
  <2> SUFFICES ASSUME NEW v \in Active, Has(v, a) PROVE Has(v, store[d])
    BY DEF Keeps
  <2>1. v \in Member /\ Home[v] = d /\ life[v] = "stored"
    BY <1>1 DEF Good, Active
  <2> QED BY <2>1 DEF StoreHolds
<1>2. ASSUME NEW v \in Member, Home[v] = d, life[v] = "added"
      PROVE  Unstored(v, n, d)
  BY <1>2 DEF PlaceInv, Fresh
<1>3. Good(d, shadow[n][d]) /\ Good(d, Row(n, d).sent) /\ Good(d, Row(n, d).entry)
  BY GoodParts
<1>4. Keeps(Active, shadow[n][d], store[d])
  BY <1>1, <1>2, <1>3 DEF Unstored
<1>5. ASSUME flight[n].stage = "written", RowShape(n, d), Row(n, d) \in RowSet
      PROVE  Keeps(Active, Bel(n, d), store[d])
  <2>1. Row(n, d).op \in {"none", "upsert", "delete"}
    BY <1>5 DEF RowSet
  <2>2. CASE Row(n, d).outcome # "none"
    <3>1. Bel(n, d) = Row(n, d).entry
      BY <2>2 DEF Bel, Believed
    <3> QED BY <1>1, <1>2, <1>3, <3>1 DEF Unstored
  <2>3. CASE Row(n, d).outcome = "none" /\ Row(n, d).op = "none"
    BY <1>4, <2>3 DEF Bel, Believed
  <2>4. CASE Row(n, d).outcome = "none" /\ Row(n, d).op = "delete"
    <3>1. Bel(n, d) = Absent
      BY <1>5, <2>4 DEF Bel, Believed, RowShape
    <3> QED BY <3>1 DEF Keeps, SameUuid
  <2>5. CASE Row(n, d).outcome = "none" /\ Row(n, d).op = "upsert"
    <3>1. Bel(n, d) = Row(n, d).sent
      BY <2>5 DEF Bel, Believed
    <3>2. \A v \in Member : Home[v] = d /\ life[v] = "added" => ~Has(v, Row(n, d).sent)
      BY <1>2, <1>5, <2>5 DEF Unstored
    <3> QED BY <1>1, <1>3, <3>1, <3>2
  <2> QED BY <2>1, <2>2, <2>3, <2>4, <2>5
<1> QED BY <1>4, <1>5

(* No entry carries an alias, so what is put in place is what is served.   *)
LEMMA SettledPlain ==
  ASSUME NoCreateRace, DirShape, UsedInv, NEW n \in Node, NEW d \in Dn,
         Row(n, d).outcome \in {"theirs", "merged"}, NEW e, Resolved(n, d, e)
  PROVE  e = Settled(n, d)
<1>1. Settled(n, d) \in Entry
  BY SettledTyped
<1>2. Settled(n, d) \in Known(used)[d]
  <2>1. /\ Row(n, d).sent \in Known(used)[d] /\ live[n][d] \in Known(used)[d]
        /\ Row(n, d).entry \in Known(used)[d]
    BY DEF UsedInv, EntriesIn
  <2> QED BY <2>1, KnownClosed DEF Settled, Closed
<1>3. Settled(n, d).alias = {}
  BY <1>1, <1>2, NotAbsent DEF Known, Plain
<1>4. live[n][d] \in MaybeEntry /\ (live[n][d] # Absent => live[n][d].alias = {})
  BY GoodParts DEF Good
<1>5. Applied(live[n][d], Settled(n, d)) = Settled(n, d)
  BY <1>1, <1>3, <1>4, PlainApplied
<1> QED BY <1>5 DEF Resolved

LEMMA NowPlain ==
  ASSUME NoCreateRace, DirShape, UsedInv, NEW n \in Node, NEW d \in Dn, reading[n].dn = d
  PROVE  NowHere(n, d) = PutHere(n, d)
<1>1. CASE PutHere(n, d) = Absent
  BY <1>1 DEF NowHere
<1>2. CASE PutHere(n, d) # Absent
  <2>1. PutHere(n, d) \in Entry
    BY <1>2, PutTyped, EntryFields DEF DirShape
  <2>2. PutHere(n, d) \in Known(used)[d]
    <3>1. /\ live[n][d] \in Known(used)[d] /\ shadow[n][d] \in Known(used)[d]
          /\ reading[n].row \in Known(used)[d]
      BY DEF UsedInv, EntriesIn
    <3> QED BY <3>1, KnownClosed DEF PutHere, RowMerge, Closed
  <2>3. PutHere(n, d).alias = {}
    BY <1>2, <2>2 DEF Known, Plain
  <2>4. live[n][d] \in MaybeEntry /\ (live[n][d] # Absent => live[n][d].alias = {})
    BY GoodParts DEF Good
  <2>5. Applied(live[n][d], PutHere(n, d)) = PutHere(n, d)
    BY <2>1, <2>3, <2>4, PlainApplied
  <2> QED BY <1>2, <2>5 DEF NowHere
<1> QED BY <1>1, <1>2

LEMMA KeptOwn ==
  ASSUME InOrder, NoCreateRace, DirShape, UsedInv, PlaceInv, StoreHolds, NoneOvertaken',
         NEW n \in Node, DirEffect(n), NEW d \in Dn, KeptAt(n, d)
  PROVE  KeptAt(n, d)'
<1>0. DirTypes /\ RowShape(n, d) /\ GenShape(n)
  BY DEF DirShape
<1>1. /\ store[d] \in MaybeEntry /\ live[n][d] \in MaybeEntry /\ shadow[n][d] \in MaybeEntry
      /\ Row(n, d) \in RowSet /\ Row(n, d).base \in MaybeEntry /\ Row(n, d).sent \in MaybeEntry
      /\ Row(n, d).entry \in MaybeEntry /\ Mine(n, d) \in MaybeEntry
      /\ Row(n, d).op \in {"none", "upsert", "delete"}
      /\ Row(n, d).outcome \in {"none", "theirs", "merged", "deleted"}
      /\ reading[n].row \in MaybeEntry
  BY <1>0, RowParts
<1>2. /\ Good(d, store[d]) /\ Good(d, live[n][d]) /\ Good(d, shadow[n][d])
      /\ Good(d, Row(n, d).base) /\ Good(d, Row(n, d).sent) /\ Good(d, Row(n, d).entry)
      /\ reading[n].dn = d => Good(d, reading[n].row)
  BY GoodParts
<1>3. /\ Old(shadow[n][d]) /\ Old(Row(n, d).base) /\ Old(Row(n, d).sent)
      /\ Old(Row(n, d).entry) /\ Old(Bel(n, d)) /\ Old(store[d]) /\ Old(live[n][d])
      /\ reading[n].dn = d => Old(reading[n].row)
  BY <1>0, OldParts
<1>4. \A a, b : Old(a) /\ Keeps(Active, a, b) => Keeps(Active', a, b)
  BY KeepsStill DEF Old
<1>5. \A a, e : Keeps(a, e, e) /\ Keeps(a, Absent, e) /\ Keeps(a, e, Absent)
  BY DEF Keeps, SameUuid
<1>6. ASSUME NEW k \in Dn, NEW e \in MaybeEntry, LocalEffect(n, k, e), LocalKind(n, k, e)
      PROVE  KeptAt(n, d)'
  <2>1. /\ shadow' = shadow /\ reading' = reading /\ flight'[n].stage = flight[n].stage
        /\ live'[n][k] = e
    BY <1>6 DEF LocalEffect
  <2>2. CASE k # d
    <3>1. Row(n, d)' = Row(n, d) /\ live'[n][d] = live[n][d]
      BY <1>6, <2>2 DEF LocalEffect
    <3>2. Mine(n, d)' = Mine(n, d) /\ Bel(n, d)' = Bel(n, d)
      BY <2>1, <3>1 DEF Mine, Bel
    <3> QED BY <1>3, <1>4, <2>1, <3>1, <3>2 DEF KeptAt
  <2>3. CASE k = d
    <3>1. \A a : Good(d, a) /\ Old(a) /\ Keeps(Active, a, live[n][d]) => Keeps(Active', a, e)
      BY <1>0, <1>6, <2>3, LocalKeeps DEF Good
    <3>2. /\ Row(n, d)'.op = Row(n, d).op /\ Row(n, d)'.base = Row(n, d).base
          /\ Row(n, d)'.sent = Row(n, d).sent /\ Row(n, d)'.over = Row(n, d).over
          /\ Row(n, d)'.outcome = Row(n, d).outcome /\ Row(n, d)'.entry = Row(n, d).entry
      BY <1>6, <2>3 DEF LocalEffect, Aside
    <3>3. Bel(n, d)' = Bel(n, d)
      BY <2>1, <3>2 DEF Bel, Believed
    <3>4. ASSUME NEW a, Good(d, a), Old(a), Keeps(Active, a, Mine(n, d))
          PROVE  Keeps(Active', a, Mine(n, d)')
      <4>1. CASE Row(n, d)' = Row(n, d) /\ Row(n, d).held
        <5>1. Mine(n, d) = live[n][d] /\ Mine(n, d)' = e
          BY <2>1, <2>3, <4>1 DEF Mine
        <5> QED BY <3>1, <3>4, <5>1
      <4>2. CASE Row(n, d)' = Row(n, d) /\ ~Row(n, d).held
        <5>1. Mine(n, d)' = Mine(n, d)
          BY <4>2 DEF Mine
        <5> QED BY <1>4, <3>4, <5>1
      <4>3. CASE Aside(n, d, Row(n, d)')
        <5>1. Mine(n, d)' = Mine(n, d)
          BY <4>3 DEF Mine, Aside
        <5> QED BY <1>4, <3>4, <5>1
      <4> QED BY <1>6, <2>3, <4>1, <4>2, <4>3 DEF LocalEffect
    <3> QED BY <1>2, <1>3, <1>4, <2>1, <2>3, <3>1, <3>2, <3>3, <3>4 DEF KeptAt
  <2> QED BY <2>2, <2>3
<1>7. CASE TakeEffect(n)
  <2>1. /\ live' = live /\ shadow' = shadow /\ reading' = reading
        /\ flight[n].stage = "idle" /\ flight'[n].stage = "taken" /\ RowTaken(n, d, Row(n, d)')
    BY <1>7 DEF TakeEffect
  <2>2. ~reading[n].late
    BY <1>0, <2>1 DEF GenShape
  <2>3. Keeps(Active', shadow[n][d], live[n][d])
        /\ (reading[n].dn = d => Keeps(Active', shadow[n][d], reading[n].row))
    BY <1>3, <1>4 DEF KeptAt
  <2>4. Row(n, d)'.op = "upsert" =>
          /\ Row(n, d)'.base = shadow[n][d] /\ Row(n, d)'.sent = live[n][d]
          /\ Mine(n, d)' = live[n][d]
    BY <2>1 DEF RowTaken, NoWrite, Mine
  <2> QED BY <1>5, <2>1, <2>2, <2>3, <2>4 DEF KeptAt
<1>8. CASE StillEffect(n)
  <2>1. /\ live' = live /\ shadow' = shadow /\ reading' = reading /\ flight' = flight
        /\ Row(n, d)' = Row(n, d) /\ Mine(n, d)' = Mine(n, d) /\ Bel(n, d)' = Bel(n, d)
    BY <1>8 DEF StillEffect, Row, Mine, Bel
  <2> QED BY <1>3, <1>4, <2>1 DEF KeptAt
<1>9. CASE CommitEffect(n)
  <2>1. /\ live' = live /\ shadow' = shadow /\ reading' = reading
        /\ flight[n].stage = "taken" /\ flight'[n].stage = "written"
        /\ RowCommitted(n, d, Row(n, d)', store'[d])
    BY <1>9 DEF CommitEffect
  <2>2. ~reading[n].late
    BY <1>0, <2>1 DEF GenShape
  <2>3. Row(n, d)'.op = Row(n, d).op /\ Row(n, d)'.sent = Row(n, d).sent
        /\ Row(n, d)'.over = Row(n, d).over
    BY <2>1 DEF RowCommitted
  <2> QED BY <1>3, <1>4, <2>1, <2>2, <2>3 DEF KeptAt
<1>10. CASE ResolveEffect(n)
  <2>1. /\ flight[n].stage = "written" /\ Row(n, d)' = NoWrite
        /\ reading[n] = NotReading \/ reading[n].late
        /\ reading'[n].dn = reading[n].dn /\ reading'[n].row = reading[n].row
        /\ ~reading'[n].late
        /\ shadow'[n][d] = Bel(n, d)
        /\ Resolved(n, d, live'[n][d])
        /\ ~(Row(n, d).over /\ Row(n, d).outcome \in {"none", "merged"})
    <3>1. overtaken'[n] = FALSE
      BY <1>10 DEF NoneOvertaken, ResolveEffect
    <3> QED BY <1>10, <3>1, NothingInFlight DEF ResolveEffect, Bel
  <2>2. reading'[n].dn = d => Keeps(Active', Bel(n, d), reading'[n].row)
    <3>1. NotReading.dn # d
      BY DirConstants DEF NotReading
    <3> QED BY <1>3, <1>4, <2>1, <3>1 DEF KeptAt
  <2>3. Keeps(Active', Bel(n, d), live'[n][d])
    <3>1. CASE Row(n, d).outcome = "none"
      <4>1. live'[n][d] = live[n][d] /\ ~Row(n, d).over
        BY <2>1, <3>1 DEF Resolved
      <4>2. CASE Row(n, d).op = "none"
        <5>1. Bel(n, d) = shadow[n][d]
          BY <3>1, <4>2 DEF Bel, Believed
        <5> QED BY <1>3, <1>4, <4>1, <5>1 DEF KeptAt
      <4>3. CASE Row(n, d).op # "none"
        <5>1. Bel(n, d) = Row(n, d).sent /\ (Row(n, d).op = "delete" => Bel(n, d) = Absent)
          BY <1>0, <3>1, <4>3 DEF Bel, Believed, RowShape
        <5> QED BY <1>1, <1>3, <1>4, <1>5, <4>1, <4>3, <5>1 DEF KeptAt
      <4> QED BY <4>2, <4>3
    <3>2. CASE Row(n, d).outcome = "deleted"
      <4>1. live'[n][d] = Absent
        BY <2>1, <3>2 DEF Resolved
      <4> QED BY <1>5, <4>1
    <3>3. CASE Row(n, d).outcome \in {"theirs", "merged"}
      <4>1. Bel(n, d) = Row(n, d).entry
        BY <3>3 DEF Bel, Believed
      <4>2. live'[n][d] = Settled(n, d)
        BY <1>0, <2>1, <3>3, SettledPlain
      <4>3. CASE ~Again(n, d)
        BY <1>5, <4>1, <4>2, <4>3 DEF Settled
      <4>4. CASE Again(n, d)
        <5> DEFINE m == MergeEntry(Row(n, d).sent, live[n][d], Row(n, d).entry)
        <5>1. Row(n, d).outcome = "merged" /\ live[n][d] # Absent
              /\ SameUuid(Row(n, d).sent, Row(n, d).entry)
          BY <1>0, <4>4 DEF Again, RowShape
        <5>2. m.outcome \in {"mine", "merged"}
          <6>1. m.outcome \in {"mine", "theirs", "merged", "deleted"}
            BY <1>1, MergeFacts
          <6>2. ~AnotherEntry(Row(n, d).sent, live[n][d], Row(n, d).entry)
                /\ Row(n, d).entry # Absent
            BY <5>1 DEF AnotherEntry, SameUuid
          <6> QED BY <5>1, <6>2, MergeOfTwo, VerdictFields
        <5>3. Keeps(Active, Row(n, d).sent, live[n][d])
          BY <1>0, <1>1, <2>1, <5>1 DEF KeptAt, RowShape
        <5>4. Keeps(Active, Row(n, d).entry, m.entry)
          BY <1>1, <5>2, <5>3, MergeKeeps
        <5>5. Settled(n, d) = m.entry
          BY <4>4 DEF Settled
        <5> QED BY <1>3, <1>4, <4>1, <4>2, <5>4, <5>5
      <4> QED BY <4>3, <4>4
    <3> QED BY <1>1, <3>1, <3>2, <3>3
  <2> QED BY <2>1, <2>2, <2>3 DEF KeptAt, NoWrite
<1>11. CASE FailEffect(n)
  <2>1. /\ live' = live /\ shadow' = shadow /\ Row(n, d)' = NoWrite
        /\ reading'[n].dn = reading[n].dn /\ reading'[n].row = reading[n].row /\ ~reading'[n].late
    BY <1>11, NothingInFlight DEF FailEffect
  <2> QED BY <1>3, <1>4, <2>1 DEF KeptAt, NoWrite
<1>12. CASE RestartEffect(n)
  <2>1. live'[n][d] = shadow'[n][d] /\ Row(n, d)' = NoWrite /\ reading'[n].dn # d
    BY <1>12, NothingInFlight, DirConstants DEF RestartEffect, NotReading
  <2> QED BY <1>5, <2>1 DEF KeptAt, NoWrite
<1>13. ASSUME NEW k \in Dn, ReadEffect(n, k)
       PROVE  KeptAt(n, d)'
  <2>1. /\ live' = live /\ shadow' = shadow /\ flight' = flight
        /\ reading'[n].dn = k /\ reading'[n].row = store[k]
        /\ (reading'[n].late => flight[n].stage = "written")
        /\ Row(n, d)' = Row(n, d) /\ Mine(n, d)' = Mine(n, d) /\ Bel(n, d)' = Bel(n, d)
    BY <1>13 DEF ReadEffect, Row, Mine, Bel
  <2>2. /\ Keeps(Active, shadow[n][d], store[d])
        /\ flight[n].stage = "written" => Keeps(Active, Bel(n, d), store[d])
    BY <1>0, <1>1, StoreKeeps
  <2> QED BY <1>3, <1>4, <2>1, <2>2 DEF KeptAt
<1>14. ASSUME NEW k \in Dn, reading[n].dn = k, ApplyEffect(n, k)
       PROVE  KeptAt(n, d)'
  <2>1. /\ flight'[n].stage = flight[n].stage /\ reading'[n].dn # d
    BY <1>14, DirConstants DEF ApplyEffect, NotReading
  <2>2. CASE k # d
    <3>1. Row(n, d)' = Row(n, d) /\ live'[n][d] = live[n][d] /\ shadow'[n][d] = shadow[n][d]
      BY <1>14, <2>2 DEF ApplyEffect
    <3>2. Mine(n, d)' = Mine(n, d)
      BY <3>1 DEF Mine
    <3> QED BY <1>3, <1>4, <2>1, <3>1, <3>2 DEF KeptAt
  <2>3. CASE k = d
    <3>1. /\ live'[n][d] = NowHere(n, d) /\ shadow'[n][d] = reading[n].row
          /\ Row(n, d)'.op = Row(n, d).op /\ Row(n, d)'.base = Row(n, d).base
          /\ Row(n, d)'.sent = Row(n, d).sent /\ Mine(n, d)' = Mine(n, d)
          /\ Row(n, d)'.over = IF KeptHere(n, d) THEN Row(n, d).over ELSE Row(n, d).op # "none"
      <4>1. /\ live'[n][d] = NowHere(n, d) /\ shadow'[n][d] = reading[n].row
            /\ \/ KeptHere(n, d) /\ NowHere(n, d) = live[n][d] /\ Row(n, d)' = Row(n, d)
               \/ /\ KeptHere(n, d)
                  /\ Aside(n, d, Row(n, d)') /\ Row(n, d)'.over = Row(n, d).over
               \/ /\ ~KeptHere(n, d)
                  /\ Aside(n, d, Row(n, d)') /\ Row(n, d)'.over = (Row(n, d).op # "none")
        BY <1>14, <2>3 DEF ApplyEffect
      <4> QED BY <4>1 DEF Mine, Aside
    <3>2. Keeps(Active, shadow[n][d], live[n][d])
          /\ Keeps(Active, shadow[n][d], reading[n].row)
      BY <1>14, <2>3 DEF KeptAt
    <3>3. /\ Old(reading[n].row) /\ Good(d, reading[n].row)
      BY <1>2, <1>3, <1>14, <2>3
    <3>4. CASE PutHere(n, d) = Absent
      <4>1. NowHere(n, d) = Absent
        BY <3>4 DEF NowHere
      <4> QED BY <1>3, <1>4, <1>5, <2>1, <3>1, <4>1 DEF KeptAt
    <3>5. CASE PutHere(n, d) # Absent
      <4>1. NowHere(n, d) = PutHere(n, d)
        BY <1>0, <1>14, <2>3, NowPlain
      <4>2. CASE ~KeptHere(n, d)
        <5>1. live'[n][d] = shadow'[n][d]
          BY <3>1, <4>1, <4>2 DEF PutHere
        <5>2. Row(n, d).op = "upsert" => Row(n, d)'.over
          BY <3>1, <4>2
        <5> QED BY <1>3, <1>4, <1>5, <2>1, <3>1, <5>1, <5>2 DEF KeptAt
      <4>3. CASE KeptHere(n, d)
        <5>1. PutHere(n, d) = RowMerge(n, d).entry
          BY <4>3 DEF PutHere
        <5>2. RowMerge(n, d).outcome \in {"mine", "merged"}
          <6>1. CASE live[n][d] = Absent
            <7>1. RowMerge(n, d).entry = Absent
              BY <6>1, MergeDeleted, VerdictFields DEF RowMerge
            <7> QED BY <3>5, <5>1, <7>1
          <6>2. CASE live[n][d] # Absent
            BY <4>3, <6>2 DEF KeptHere
          <6> QED BY <6>1, <6>2
        <5>3. /\ Keeps(Active, reading[n].row, PutHere(n, d))
              /\ Keeps(Active, Row(n, d).sent, live[n][d]) =>
                   Keeps(Active, Row(n, d).sent, PutHere(n, d))
          BY <1>1, <3>2, <5>1, <5>2, MergeKeeps DEF RowMerge
        <5> QED BY <1>3, <1>4, <2>1, <3>1, <3>3, <4>1, <4>3, <5>3 DEF KeptAt
      <4> QED BY <4>2, <4>3
    <3> QED BY <3>4, <3>5
  <2> QED BY <2>2, <2>3
<1> QED BY <1>6, <1>7, <1>8, <1>9, <1>10, <1>11, <1>12, <1>13, <1>14 DEF DirEffect

LEMMA StoreHoldsStep ==
  ASSUME NoCreateRace, DirShape, UsedInv, StoreHolds, NEW n \in Node, DirEffect(n),
         \A d \in Dn : KeptAt(n, d)
  PROVE  StoreHolds'
<1> SUFFICES ASSUME NEW v \in Member, life'[v] = "stored" PROVE Has(v, store'[Home[v]])
  BY DEF StoreHolds
<1>0. PICK d \in Dn : d = Home[v]
  BY DirConstants
<1>1. DirTypes /\ RowShape(n, d) /\ life \in [Member -> Lives]
  BY DEF DirShape, DirTypes
<1>2. life[v] = "stored" => Has(v, store[d])
  BY <1>0 DEF StoreHolds
<1>3. CASE CommitEffect(n)
  <2>1. /\ flight[n].stage = "taken" /\ RowCommitted(n, d, Row(n, d)', store'[d])
        /\ life'[v] = LifeAfter(v, store[d], store'[d])
    BY <1>0, <1>3 DEF CommitEffect
  <2>2. CASE life[v] # "stored"
    BY <1>0, <2>1, <2>2 DEF LifeAfter, Has
  <2>3. CASE life[v] = "stored"
    <3>1. Has(v, store'[d]) \/ (store'[d] # Absent /\ Related(store[d], store'[d]))
      BY <1>2, <2>1, <2>3 DEF LifeAfter, Has
    <3>2. \/ store'[d] \in {store[d], Absent}
          \/ /\ Row(n, d).op = "upsert" /\ RowVerdict(n, d).outcome \in {"mine", "merged"}
             /\ store'[d] = RowVerdict(n, d).entry
      BY <2>1 DEF RowCommitted
    <3>3. CASE store'[d] \in {store[d], Absent}
      BY <1>0, <1>2, <2>3, <3>1, <3>3
    <3>4. CASE /\ Row(n, d).op = "upsert" /\ RowVerdict(n, d).outcome \in {"mine", "merged"}
               /\ store'[d] = RowVerdict(n, d).entry /\ store'[d] # Absent
               /\ Related(store[d], store'[d])
      <4>1. /\ Row(n, d).base \in Known(used)[d] /\ Mine(n, d) \in Known(used)[d]
            /\ store[d] \in Known(used)[d]
        BY DEF UsedInv, EntriesIn, Mine
      <4>2. store'[d] \in Known(used)[d]
        BY <3>4, <4>1, KnownClosed DEF RowVerdict, Closed
      <4>3. store[d].alias = {} /\ store'[d].alias = {} /\ store[d] # Absent
        BY <1>2, <2>3, <3>4, <4>1, <4>2 DEF Known, Plain, Has
      <4>4. SameUuid(store[d], store'[d])
        BY <3>4, <4>3 DEF Related, SameUuid
      <4>5. Keeps(Active, Row(n, d).base, Mine(n, d))
        BY <2>1, <3>4 DEF KeptAt
      <4>6. Keeps(Active, store[d], store'[d])
        <5>1. Row(n, d).base \in MaybeEntry /\ Mine(n, d) \in MaybeEntry /\ store[d] \in MaybeEntry
          BY <1>1, RowParts
        <5> QED BY <3>4, <4>5, <5>1, MergeKeeps DEF RowVerdict
      <4> QED BY <1>0, <1>2, <2>3, <4>4, <4>6 DEF Keeps, Active
    <3> QED BY <1>0, <3>1, <3>2, <3>3, <3>4
  <2> QED BY <1>0, <2>2, <2>3
<1>4. CASE ~CommitEffect(n)
  <2>1. \A S : life' = GivenUp(n, S) => life[v] = "stored"
    BY <1>1 DEF GivenUp
  <2>2. ASSUME NEW k \in Dn, NEW e \in MaybeEntry, LocalEffect(n, k, e), LocalKind(n, k, e)
        PROVE  store' = store /\ life[v] = "stored"
    BY <1>1, <2>1, <2>2 DEF LocalEffect, LocalKind, Adds, Removes, Creates, Deletes
  <2>3. TakeEffect(n) \/ StillEffect(n) \/ FailEffect(n) \/ (\E k \in Dn : ReadEffect(n, k))
          => store' = store /\ life[v] = "stored"
    BY DEF TakeEffect, StillEffect, FailEffect, ReadEffect
  <2>4. ASSUME ResolveEffect(n) \/ RestartEffect(n) \/ \E k \in Dn : ApplyEffect(n, k)
        PROVE  store' = store /\ life[v] = "stored"
    <3>1. store' = store /\ (life' = life \/ \E S : life' = GivenUp(n, S))
      BY <2>4 DEF ResolveEffect, RestartEffect, ApplyEffect
    <3> QED BY <2>1, <3>1
  <2>5. store' = store /\ life[v] = "stored"
    BY <1>4, <2>2, <2>3, <2>4 DEF DirEffect
  <2> QED BY <1>0, <1>2, <2>5
<1> QED BY <1>3, <1>4

LEMMA OvertakenStays ==
  ASSUME DirTypes, NEW n \in Node, DirEffect(n), NoneOvertaken'
  PROVE  NoneOvertaken
<1>1. OthersStay(n)
  BY EffectStays
<1>2. ~overtaken[n]
  <2>1. ~overtaken'[n]
    BY DEF NoneOvertaken
  <2>2. overtaken'[n] = overtaken[n] \/ ResolveEffect(n)
    BY DEF DirEffect, LocalEffect, TakeEffect, StillEffect, CommitEffect, FailEffect, RestartEffect,
           ReadEffect, ApplyEffect
  <2> QED BY <2>1, <2>2 DEF ResolveEffect
<1> QED BY <1>1, <1>2 DEF NoneOvertaken, OthersStay

LEMMA StayStep ==
  ASSUME InOrder, NoCreateRace, DirShape, UsedInv, PlaceInv, StayInv, NEW n \in Node, DirEffect(n)
  PROVE  StayInv'
<1> SUFFICES ASSUME NoneOvertaken'
             PROVE  StoreHolds' /\ \A m \in Node, d \in Dn : KeptAt(m, d)'
  BY DEF StayInv
<1>0. DirTypes /\ OthersStay(n)
  BY EffectStays DEF DirShape
<1>1. StoreHolds /\ \A m \in Node, d \in Dn : KeptAt(m, d)
  BY <1>0, OvertakenStays DEF StayInv
<1>2. StoreHolds'
  BY <1>1, StoreHoldsStep
<1>3. \A d \in Dn : KeptAt(n, d)'
  BY <1>1, KeptOwn
<1>4. \A m \in Node \ {n}, d \in Dn : KeptAt(m, d)'
  BY <1>0, <1>1, KeptOthers
<1> QED BY <1>2, <1>3, <1>4

LEMMA StayInit == DirInit => StayInv
<1> SUFFICES ASSUME DirInit PROVE StoreHolds /\ \A n \in Node, d \in Dn : KeptAt(n, d)
  BY DEF StayInv
<1>1. StoreHolds
  BY DEF StoreHolds, DirInit
<1>2. ASSUME NEW n \in Node, NEW d \in Dn PROVE KeptAt(n, d)
  <2>1. /\ Row(n, d) = NoWrite /\ live[n][d] = shadow[n][d] /\ reading[n].dn # d
    BY IdleFlight, DirConstants DEF DirInit, Row, NotReading
  <2> QED BY <2>1 DEF KeptAt, NoWrite, Keeps
<1> QED BY <1>1, <1>2

LEMMA StayAlways == ASSUME InOrder, NoCreateRace PROVE DirSpec => []StayInv
<1>1. DirShape /\ UsedInv /\ PlaceInv /\ StayInv /\ [DirNext]_dirvars => StayInv'
  <2>1. DirShape /\ UsedInv /\ PlaceInv /\ StayInv /\ DirNext => StayInv'
    BY StepsDo, StayStep
  <2>2. StayInv /\ UNCHANGED dirvars => StayInv'
    BY DEF StayInv, NoneOvertaken, StoreHolds, KeptAt, Bel, Active, Mine, Row, dirvars
  <2> QED BY <2>1, <2>2
<1> QED BY <1>1, StayInit, ShapeAlways, UsedAlways, PlaceAlways, PTL DEF DirSpec

(* No lost update, for any number of nodes: where answers reach a node in  *)
(* the order the statements ran, no two entries were created at once and   *)
(* no flush was overtaken, a value the store took stays in the entry until *)
(* a node removes it or the entry, through merges, retries, failed flushes *)
(* and restarts (mergeValues, saveDirectory, advanceShadow).               *)
THEOREM NoLostUpdate == ASSUME InOrder, NoCreateRace PROVE DirSpec => []StoredStays
<1>1. StayInv => StoredStays
  BY DEF StayInv, StoreHolds, StoredStays, Has
<1> QED BY <1>1, StayAlways, PTL

-----------------------------------------------------------------------------
(* Agreement: the nodes serve what is stored.                              *)

(* Every entry carries the number of a change that was made: a later       *)
(* change moves every entry past any there is.                             *)
Dated(c) == [d \in Dn |-> {e \in MaybeEntry : e # Absent => e.stamp <= c}]

LEMMA DatedMixed ==
  ASSUME NEW c \in Nat
  PROVE  Dated(c) \in [Dn -> SUBSET MaybeEntry] /\ \A d \in Dn : MixedIn(Dated(c)[d])
<1> DEFINE S == {e \in MaybeEntry : e # Absent => e.stamp <= c}
<1>1. Absent \in S
  BY AbsentIsEntry
<1>2. ASSUME NEW b \in S, NEW m \in S, NEW t \in S PROVE MergeEntry(b, m, t).entry \in S
  <2> DEFINE v == MergeEntry(b, m, t)
  <2>1. /\ v.entry \in MaybeEntry
        /\ \/ v.entry \in {Absent, m, t}
           \/ /\ m # Absent /\ t # Absent
              /\ v.entry.stamp = MergeStamp(IF b = Absent THEN 0 ELSE b.stamp, m.stamp, t.stamp)
    BY MergeFacts DEF SameUuid
  <2> HIDE DEF v
  <2>2. v.entry \in S
    BY <2>1 DEF MergeStamp
  <2> QED BY <2>2 DEF v
<1>3. ASSUME NEW here \in S, NEW e \in S, e # Absent PROVE Applied(here, e) \in S
  <2>1. Applied(here, e) \in Entry /\ Applied(here, e).stamp = e.stamp
    BY <1>3, EntryFields, AppliedFields
  <2> QED BY <1>3, <2>1, AbsentIsEntry
<1>4. MixedIn(S)
  BY <1>1, <1>2, <1>3 DEF MixedIn
<1> QED BY <1>4 DEF Dated

DatedInv == EntriesIn(Dated(changes))

LEMMA DatedParts ==
  ASSUME DatedInv, NEW n \in Node, NEW d \in Dn
  PROVE  /\ store[d] # Absent => store[d].stamp <= changes
         /\ live[n][d] # Absent => live[n][d].stamp <= changes
         /\ shadow[n][d] # Absent => shadow[n][d].stamp <= changes
         /\ Row(n, d).base # Absent => Row(n, d).base.stamp <= changes
         /\ Row(n, d).sent # Absent => Row(n, d).sent.stamp <= changes
BY DEF DatedInv, EntriesIn, Dated

LEMMA DatedInit == DirInit => DatedInv
<1> SUFFICES ASSUME DirInit PROVE DatedInv
  OBVIOUS
<1>1. \A d \in Dn : Absent \in Dated(changes)[d]
  BY AbsentIsEntry DEF Dated
<1>2. ASSUME NEW u \in Uuid, NEW d \in Dn PROVE New(u) \in Dated(changes)[d]
  <2>1. New(u) \in MaybeEntry /\ New(u).stamp = 0
    BY NewFields, AbsentIsEntry DEF New
  <2> QED BY <2>1 DEF Dated, DirInit
<1>3. \A d \in Dn : store[d] \in Dated(changes)[d]
  BY <1>1, <1>2, DirConstants DEF DirInit
<1>4. \A n \in Node, d \in Dn : Row(n, d) = NoWrite
  BY IdleFlight DEF DirInit, Row
<1>5. \A n \in Node : live[n] = store /\ shadow[n] = store /\ reading[n].row = Absent
  BY DEF DirInit, NotReading
<1> QED BY <1>1, <1>3, <1>4, <1>5 DEF DatedInv, EntriesIn, NoWrite

LEMMA ChangesGrow ==
  ASSUME DirTypes, NEW n \in Node, DirEffect(n)
  PROVE  changes' \in Nat /\ changes <= changes'
<1>1. changes \in Nat /\ changes' \in {changes, changes + 1}
  BY DEF DirTypes, DirEffect, LocalEffect, TakeEffect, StillEffect, CommitEffect, ResolveEffect,
         FailEffect, RestartEffect, ReadEffect, ApplyEffect
<1> QED BY <1>1

LEMMA DatedStep ==
  ASSUME DirShape, DatedInv, NEW n \in Node, DirEffect(n)
  PROVE  DatedInv'
<1>1. PICK c : c = changes'
  OBVIOUS
<1>2. c \in Nat /\ changes \in Nat /\ changes <= c
  BY <1>1, ChangesGrow DEF DirShape, DirTypes
<1>3. EntriesIn(Dated(c))
  <2>1. \A d \in Dn : \A e : e \in Dated(changes)[d] => e \in Dated(c)[d]
    <3>1. \A e \in Entry : e.stamp \in Nat
      BY EntryFields DEF Entry
    <3> QED BY <1>2, <3>1 DEF Dated, MaybeEntry
  <2> QED BY <2>1 DEF DatedInv, EntriesIn
<1>4. \A d \in Dn, e \in MaybeEntry : LocalEffect(n, d, e) => e \in Dated(c)[d]
  <2>1. \A d \in Dn, e \in MaybeEntry : LocalEffect(n, d, e) => (e # Absent => e.stamp = c)
    BY <1>1 DEF LocalEffect
  <2> QED BY <1>2, <2>1 DEF Dated
<1>5. EntriesIn(Dated(c))'
  BY <1>2, <1>3, <1>4, DatedMixed, EntriesMove
<1> QED BY <1>1, <1>5 DEF DatedInv

LEMMA DatedAlways == DirSpec => []DatedInv
<1>1. DirShape /\ DatedInv /\ [DirNext]_dirvars => DatedInv'
  <2>1. DirShape /\ DatedInv /\ DirNext => DatedInv'
    BY StepsDo, DatedStep
  <2>2. DatedInv /\ UNCHANGED dirvars => DatedInv'
    BY DEF DatedInv, EntriesIn, Row, dirvars
  <2> QED BY <2>1, <2>2
<1> QED BY <1>1, DatedInit, ShapeAlways, PTL DEF DirSpec

(* Of two versions of one entry, the second is not the older.              *)
Later(a, b) == SameUuid(a, b) => a.stamp <= b.stamp

(* A merge is not older than mine where theirs is not older than the base, *)
(* nor than theirs where mine is not.                                      *)
LEMMA MergeLater ==
  ASSUME NEW base \in MaybeEntry, NEW mine \in MaybeEntry, NEW theirs \in MaybeEntry,
         MergeEntry(base, mine, theirs).outcome \in {"mine", "merged"}
  PROVE  LET e == MergeEntry(base, mine, theirs).entry
         IN  /\ SameUuid(mine, e)
             /\ SameUuid(theirs, e) \/ (e = mine /\ ~SameUuid(base, mine))
             /\ Later(base, mine) => Later(theirs, e)
             /\ Later(base, theirs) => Later(mine, e)
<1> DEFINE m == MergeEntry(base, mine, theirs)
           b == IF base = Absent THEN 0 ELSE base.stamp
<1>1. /\ \/ /\ m.entry = mine /\ (theirs = Absent \/ ~SameUuid(mine, theirs))
            /\ ~SameUuid(base, mine)
         \/ /\ SameUuid(mine, theirs) /\ SameUuid(mine, m.entry)
            /\ base # Absent => SameUuid(base, mine)
            /\ m.entry.stamp = MergeStamp(b, mine.stamp, theirs.stamp)
      /\ m.outcome = "mine" => mine # Absent
      /\ m.outcome = "merged" => SameUuid(mine, m.entry)
  BY MergeFacts
<1>2. \A e \in MaybeEntry : e # Absent => e.stamp \in Nat
  BY EntryFields DEF Entry
<1>3. base # Absent => b = base.stamp
  OBVIOUS
<1>4. base = Absent => b = 0
  OBVIOUS
<1>5. m.outcome \in {"mine", "merged"}
  OBVIOUS
<1> HIDE DEF m, b
<1>6. CASE /\ m.entry = mine /\ (theirs = Absent \/ ~SameUuid(mine, theirs))
           /\ ~SameUuid(base, mine)
  <2>1. SameUuid(mine, m.entry) /\ ~SameUuid(theirs, m.entry)
    BY <1>1, <1>5, <1>6 DEF SameUuid
  <2> QED BY <1>2, <1>6, <2>1 DEF Later, SameUuid, m
<1>7. CASE /\ SameUuid(mine, theirs) /\ SameUuid(mine, m.entry)
           /\ base # Absent => SameUuid(base, mine)
           /\ m.entry.stamp = MergeStamp(b, mine.stamp, theirs.stamp)
  <2>1. SameUuid(theirs, m.entry) /\ (base # Absent => SameUuid(base, theirs))
    BY <1>7 DEF SameUuid
  <2>2. mine.stamp \in Nat /\ theirs.stamp \in Nat /\ (base # Absent => base.stamp \in Nat)
    BY <1>2, <1>7 DEF SameUuid
  <2>3. b \in Nat /\ (Later(base, mine) => b <= mine.stamp)
        /\ (Later(base, theirs) => b <= theirs.stamp)
    BY <1>3, <1>4, <1>7, <2>1, <2>2 DEF Later
  <2>4. Later(base, mine) => theirs.stamp <= m.entry.stamp
    BY <1>7, <2>2, <2>3 DEF MergeStamp
  <2>5. Later(base, theirs) => mine.stamp <= m.entry.stamp
    BY <1>7, <2>2, <2>3 DEF MergeStamp
  <2> QED BY <1>7, <2>1, <2>4, <2>5 DEF Later, m
<1> QED BY <1>1, <1>6, <1>7

(* An entry created at n and not stored yet is with n alone.               *)
Is(u, e) == e # Absent /\ e.uuid = u

Lacks(u, n, d) ==
  /\ ~Is(u, shadow[n][d]) /\ ~Is(u, Row(n, d).base) /\ ~Is(u, Row(n, d).entry)
  /\ reading[n].dn = d => ~Is(u, reading[n].row)

Private(u, n, d) ==
  /\ ~Is(u, store[d]) /\ \A m \in Node : Lacks(u, m, d)
  /\ \A m \in Node \ {n} :
       ~Is(u, live[m][d]) /\ ~Is(u, Row(m, d).sent) /\ ~Is(u, Row(m, d).mine)

(* What n serves is not the entry it believes stored, nor what its         *)
(* transaction has written; or not the entry that its flush sent.          *)
NewHere(n, d) ==
  /\ live[n][d] # Absent /\ ~SameUuid(shadow[n][d], live[n][d])
  /\ ~(flight[n].stage = "written" /\ Row(n, d).op = "upsert"
       /\ SameUuid(Row(n, d).sent, live[n][d]))
NewSince(n, d) ==
  /\ Row(n, d).op # "none" /\ ~Row(n, d).over
  /\ live[n][d] # Absent /\ ~SameUuid(Row(n, d).sent, live[n][d])
NewSent(n, d) ==
  /\ flight[n].stage = "taken" /\ Row(n, d).op = "upsert"
  /\ ~SameUuid(Row(n, d).base, Row(n, d).sent)

OwnAt(n, d) == /\ NewHere(n, d) \/ NewSince(n, d) => Private(live[n][d].uuid, n, d)
               /\ NewSent(n, d) => Private(Row(n, d).sent.uuid, n, d)

OwnInv == NoneOvertaken => \A n \in Node, d \in Dn : OwnAt(n, d)

LEMMA PrivateFresh ==
  ASSUME UsedInv, NEW n \in Node, NEW d \in Dn, NEW u, u \notin used
  PROVE  Private(u, n, d)
<1>1. \A e : Good(d, e) => ~Is(u, e)
  BY DEF Good, Is
<1> QED BY <1>1, GoodParts DEF Private, Lacks

(* A step of another node does not get at it.                              *)
LEMMA PrivateOthers ==
  ASSUME NoCreateRace, DirShape, UsedInv, used \subseteq used',
         NEW n \in Node, DirEffect(n), NEW m \in Node \ {n}, NEW d \in Dn, NEW u \in used,
         Private(u, m, d)
  PROVE  Private(u, m, d)'
<1>1. PICK U : U = used'
  OBVIOUS
<1> DEFINE E == [k \in Dn |-> IF k = d THEN Known(U \ {u})[k] ELSE Known(U)[k]]
<1>2. E \in [Dn -> SUBSET MaybeEntry] /\ Closed(E)
  <2>1. /\ Known(U \ {u}) \in [Dn -> SUBSET MaybeEntry] /\ Closed(Known(U \ {u}))
        /\ Known(U) \in [Dn -> SUBSET MaybeEntry] /\ Closed(Known(U))
    BY KnownClosed
  <2>2. E \in [Dn -> SUBSET MaybeEntry]
    BY <2>1
  <2>3. \A k \in Dn : E[k] = Known(U \ {u})[k] \/ E[k] = Known(U)[k]
    OBVIOUS
  <2> HIDE DEF E
  <2> QED BY <2>1, <2>2, <2>3 DEF Closed
<1>3. \A k \in Dn : \A e \in Known(used)[k] : (k = d => ~Is(u, e)) => e \in E[k]
  BY <1>1 DEF Known, Is
<1>4. \A e \in E[d] : ~Is(u, e)
  BY DEF Known, Is
<1>5. \A k \in Dn, e \in MaybeEntry : Creates(n, k, e) => e \in E[k]
  <2>1. \A k \in Dn, e \in MaybeEntry : Creates(n, k, e) => e \in Plain[k]
    BY PlainClosed, MadeCreates
  <2> QED BY <1>1, <2>1 DEF Known, Creates
<1> HIDE DEF E
<1>6. OwnIn(E, n)
  <2> SUFFICES ASSUME NEW k \in Dn PROVE store[k] \in E[k] /\ EntriesOf(E, n, k)
    BY DEF OwnIn
  <2>1. /\ store[k] \in Known(used)[k] /\ live[n][k] \in Known(used)[k]
        /\ shadow[n][k] \in Known(used)[k] /\ Row(n, k).base \in Known(used)[k]
        /\ Row(n, k).sent \in Known(used)[k] /\ Row(n, k).mine \in Known(used)[k]
        /\ Row(n, k).entry \in Known(used)[k]
        /\ reading[n].dn = k => reading[n].row \in Known(used)[k]
    BY DEF UsedInv, EntriesIn
  <2>2. k = d => /\ ~Is(u, store[k]) /\ ~Is(u, live[n][k]) /\ ~Is(u, shadow[n][k])
                 /\ ~Is(u, Row(n, k).base) /\ ~Is(u, Row(n, k).sent) /\ ~Is(u, Row(n, k).mine)
                 /\ ~Is(u, Row(n, k).entry)
                 /\ reading[n].dn = k => ~Is(u, reading[n].row)
    BY DEF Private, Lacks
  <2> QED BY <1>3, <2>1, <2>2 DEF EntriesOf
<1>7. OwnIn(E, n)'
  <2>1. \A k \in Dn : MixedIn(E[k])
    BY <1>2 DEF Closed, MixedIn
  <2>2. \A k \in Dn : live[n][k] \in E[k]
    BY <1>6 DEF OwnIn, EntriesOf
  <2>3. \A k \in Dn, e \in MaybeEntry : LocalKind(n, k, e) => e \in E[k]
    BY <1>2, <1>5, <2>2, LocalIn
  <2> QED BY <1>2, <1>6, <2>1, <2>3, EntriesOwn
<1>8. store'[d] \in E[d] /\ EntriesOf(E, n, d)'
  BY <1>7 DEF OwnIn
<1>9. /\ ~Is(u, store'[d]) /\ Lacks(u, n, d)' /\ ~Is(u, live'[n][d])
      /\ ~Is(u, Row(n, d)'.sent) /\ ~Is(u, Row(n, d)'.mine)
  BY <1>4, <1>8 DEF EntriesOf, Lacks
<1>10. ASSUME NEW o \in Node \ {n}
       PROVE  /\ Lacks(u, o, d)'
              /\ o # m => /\ ~Is(u, live'[o][d]) /\ ~Is(u, Row(o, d)'.sent)
                          /\ ~Is(u, Row(o, d)'.mine)
  <2>1. /\ live'[o][d] = live[o][d] /\ shadow'[o][d] = shadow[o][d]
        /\ Row(o, d)' = Row(o, d) /\ reading'[o] = reading[o]
    BY EffectStays, OthersKept
  <2> QED BY <2>1 DEF Private, Lacks
<1> QED BY <1>9, <1>10 DEF Private

LEMMA OwnOthers ==
  ASSUME NoCreateRace, DirShape, UsedInv, used \subseteq used',
         NEW n \in Node, DirEffect(n), NEW m \in Node \ {n}, NEW d \in Dn, OwnAt(m, d)
  PROVE  OwnAt(m, d)'
<1>1. /\ live'[m][d] = live[m][d] /\ shadow'[m][d] = shadow[m][d]
      /\ Row(m, d)' = Row(m, d) /\ flight'[m] = flight[m]
  BY EffectStays, OthersKept
<1>2. \A u \in used : Private(u, m, d) => Private(u, m, d)'
  BY PrivateOthers
<1>3. /\ live[m][d] # Absent => live[m][d].uuid \in used
      /\ Row(m, d).sent # Absent => Row(m, d).sent.uuid \in used
  BY GoodParts DEF Good
<1>4. RowShape(m, d)
  BY DEF DirShape
<1>5. NewHere(m, d)' \/ NewSince(m, d)' => Private(live[m][d].uuid, m, d)'
  <2> SUFFICES ASSUME NewHere(m, d)' \/ NewSince(m, d)'
               PROVE  Private(live[m][d].uuid, m, d)'
    OBVIOUS
  <2>1. live[m][d] # Absent /\ (NewHere(m, d) \/ NewSince(m, d))
    BY <1>1 DEF NewHere, NewSince
  <2>2. PICK u \in used : u = live[m][d].uuid
    BY <1>3, <2>1
  <2>3. Private(u, m, d)'
    BY <1>2, <2>1, <2>2 DEF OwnAt
  <2>4. u = live'[m][d].uuid
    BY <1>1, <2>2
  <2> QED BY <2>3, <2>4
<1>6. NewSent(m, d)' => Private(Row(m, d).sent.uuid, m, d)'
  <2> SUFFICES ASSUME NewSent(m, d)' PROVE Private(Row(m, d).sent.uuid, m, d)'
    OBVIOUS
  <2>1. Row(m, d).sent # Absent /\ NewSent(m, d)
    BY <1>1, <1>4 DEF NewSent, RowShape
  <2>2. PICK u \in used : u = Row(m, d).sent.uuid
    BY <1>3, <2>1
  <2>3. Private(u, m, d)'
    BY <1>2, <2>1, <2>2 DEF OwnAt
  <2>4. u = Row(m, d)'.sent.uuid
    BY <1>1, <2>2
  <2> QED BY <2>3, <2>4
<1> QED BY <1>5, <1>6 DEF OwnAt

(* A step of the node itself keeps it private, if what moves is not it.    *)
LEMMA PrivateOwn ==
  ASSUME NEW n \in Node, OthersStay(n), NEW d \in Dn, NEW u, Private(u, n, d),
         ~Is(u, store'[d]), ~Is(u, shadow'[n][d]), ~Is(u, Row(n, d)'.base),
         ~Is(u, Row(n, d)'.entry), reading'[n].dn = d => ~Is(u, reading'[n].row)
  PROVE  Private(u, n, d)'
<1>1. ASSUME NEW m \in Node \ {n}
      PROVE  /\ Lacks(u, m, d)' /\ ~Is(u, live'[m][d]) /\ ~Is(u, Row(m, d)'.sent)
             /\ ~Is(u, Row(m, d)'.mine)
  <2>1. /\ live'[m][d] = live[m][d] /\ shadow'[m][d] = shadow[m][d]
        /\ Row(m, d)' = Row(m, d) /\ reading'[m] = reading[m]
    BY OthersKept
  <2> QED BY <2>1 DEF Private, Lacks
<1>2. Lacks(u, n, d)'
  BY DEF Lacks
<1> QED BY <1>1, <1>2 DEF Private

(* A change that is kept, put together with the row: an entry of its own   *)
(* entryUUID, and not older than either.                                   *)
LEMMA KeptIs ==
  ASSUME DirTypes, NEW n \in Node, NEW d \in Dn, KeptHere(n, d), PutHere(n, d) # Absent
  PROVE  LET e == PutHere(n, d)
         IN  /\ SameUuid(live[n][d], e)
             /\ SameUuid(reading[n].row, e) \/ ~SameUuid(shadow[n][d], live[n][d])
             /\ Later(shadow[n][d], live[n][d]) => Later(reading[n].row, e)
             /\ Later(shadow[n][d], reading[n].row) => Later(live[n][d], e)
<1>1. /\ live[n][d] \in MaybeEntry /\ shadow[n][d] \in MaybeEntry
      /\ reading[n].row \in MaybeEntry
  BY RowParts
<1>2. PutHere(n, d) = RowMerge(n, d).entry
  BY DEF PutHere
<1>3. live[n][d] # Absent
  <2>1. live[n][d] = Absent => RowMerge(n, d).entry = Absent
    BY MergeDeleted, VerdictFields DEF RowMerge
  <2> QED BY <1>2, <2>1
<1>4. RowMerge(n, d).outcome \in {"mine", "merged"}
  BY <1>3 DEF KeptHere
<1> QED BY <1>1, <1>2, <1>4, MergeLater DEF RowMerge

(* The same of an entry that moved while its flush was in flight.          *)
LEMMA AgainIs ==
  ASSUME DirShape, NEW n \in Node, NEW d \in Dn, Again(n, d)
  PROVE  /\ SameUuid(live[n][d], Settled(n, d))
         /\ \/ SameUuid(Row(n, d).entry, Settled(n, d))
            \/ ~SameUuid(Row(n, d).sent, live[n][d])
         /\ Later(Row(n, d).sent, live[n][d]) => Later(Row(n, d).entry, Settled(n, d))
<1>1. /\ live[n][d] \in MaybeEntry /\ Row(n, d).sent \in MaybeEntry
      /\ Row(n, d).entry \in MaybeEntry
  BY RowParts DEF DirShape
<1> DEFINE m == MergeEntry(Row(n, d).sent, live[n][d], Row(n, d).entry)
<1>2. live[n][d] # Absent /\ SameUuid(Row(n, d).sent, Row(n, d).entry)
  BY DEF DirShape, RowShape, Again
<1>3. m.outcome \in {"mine", "merged"}
  <2>1. m.outcome \in {"mine", "theirs", "merged", "deleted"}
    BY <1>1, MergeFacts
  <2>2. ~AnotherEntry(Row(n, d).sent, live[n][d], Row(n, d).entry) /\ Row(n, d).entry # Absent
    BY <1>2 DEF AnotherEntry, SameUuid
  <2> QED BY <1>2, <2>2, MergeOfTwo, VerdictFields
<1>4. Settled(n, d) = m.entry
  BY DEF Settled
<1> QED BY <1>1, <1>3, <1>4, MergeLater

(* What the transaction leaves: in the store, and to be believed.          *)
LEMMA CommitIs ==
  ASSUME DirShape, NEW n \in Node, CommitEffect(n), NEW d \in Dn
  PROVE  /\ Row(n, d)'.op = Row(n, d).op /\ Row(n, d)'.base = Row(n, d).base
         /\ Row(n, d)'.sent = Row(n, d).sent /\ Row(n, d)'.over = Row(n, d).over
         /\ Row(n, d).op # "upsert" =>
              /\ Row(n, d)'.outcome = "none" /\ Row(n, d)'.entry = Row(n, d).entry
              /\ store'[d] = IF Row(n, d).op = "none" THEN store[d] ELSE Absent
         /\ Row(n, d).op = "upsert" =>
              /\ SameUuid(Row(n, d).sent, Mine(n, d))
              /\ \/ Row(n, d)'.outcome = "none" /\ Row(n, d)'.entry = Row(n, d).entry
                    /\ store'[d] = Mine(n, d)
                 \/ Row(n, d)'.outcome # "none" /\ Row(n, d)'.entry = store'[d]
              /\ \/ store'[d] = store[d]
                 \/ /\ SameUuid(Mine(n, d), store'[d])
                    /\ \/ SameUuid(store[d], store'[d])
                       \/ ~SameUuid(Row(n, d).base, Mine(n, d))
                    /\ Later(Row(n, d).base, Mine(n, d)) => Later(store[d], store'[d])
<1> DEFINE r == Row(n, d)
           m == RowVerdict(n, d)
<1>1. /\ r.base \in MaybeEntry /\ Mine(n, d) \in MaybeEntry /\ store[d] \in MaybeEntry
      /\ r.op \in {"none", "upsert", "delete"}
  BY RowParts DEF DirShape
<1>2. flight[n].stage = "taken" /\ RowCommitted(n, d, Row(n, d)', store'[d])
  BY DEF CommitEffect
<1>3. r.outcome = "none" /\ (r.op = "upsert" => SameUuid(r.sent, Mine(n, d)))
  <2>1. RowShape(n, d)
    BY DEF DirShape
  <2> QED BY <1>2, <2>1 DEF RowShape
<1>4. /\ m.outcome = "mine" => m.entry = Mine(n, d)
      /\ m.outcome = "theirs" => m.entry = store[d]
      /\ m.outcome = "deleted" => m.entry = Absent /\ (store[d] = Absent \/ Mine(n, d) = Absent)
  BY <1>1, MergeFacts DEF RowVerdict
<1>5. m.outcome \in {"mine", "merged"} =>
        /\ SameUuid(Mine(n, d), m.entry)
        /\ SameUuid(store[d], m.entry) \/ ~SameUuid(r.base, Mine(n, d))
        /\ Later(r.base, Mine(n, d)) => Later(store[d], m.entry)
  BY <1>1, MergeLater DEF RowVerdict
<1>6. r.op = "upsert" => Mine(n, d) # Absent
  BY <1>3 DEF SameUuid
<1> HIDE DEF m
<1>7. /\ Row(n, d)'.op = r.op /\ Row(n, d)'.base = r.base /\ Row(n, d)'.sent = r.sent
      /\ Row(n, d)'.over = r.over
      /\ \/ r.op = "none" /\ store'[d] = store[d] /\ Row(n, d)'.outcome = r.outcome
            /\ Row(n, d)'.entry = r.entry
         \/ r.op = "delete" /\ store'[d] = Absent /\ Row(n, d)'.outcome = r.outcome
            /\ Row(n, d)'.entry = r.entry
         \/ /\ r.op = "upsert" /\ m.outcome = "mine" /\ store'[d] = m.entry
            /\ Row(n, d)'.outcome = r.outcome /\ Row(n, d)'.entry = r.entry
         \/ /\ r.op = "upsert" /\ m.outcome = "merged" /\ store'[d] = m.entry
            /\ Row(n, d)'.outcome = "merged" /\ Row(n, d)'.entry = store'[d]
         \/ /\ r.op = "upsert" /\ m.outcome \in {"theirs", "deleted"} /\ store'[d] = store[d]
            /\ Row(n, d)'.outcome = m.outcome /\ Row(n, d)'.entry = m.entry
  BY <1>2 DEF RowCommitted, m
<1> HIDE DEF r
<1>8. r.op # "upsert" => /\ Row(n, d)'.outcome = "none" /\ Row(n, d)'.entry = r.entry
                         /\ store'[d] = IF r.op = "none" THEN store[d] ELSE Absent
  BY <1>3, <1>7
<1>9. r.op = "upsert" =>
        /\ \/ Row(n, d)'.outcome = "none" /\ Row(n, d)'.entry = r.entry
              /\ store'[d] = Mine(n, d)
           \/ Row(n, d)'.outcome # "none" /\ Row(n, d)'.entry = store'[d]
        /\ \/ store'[d] = store[d]
           \/ m.outcome \in {"mine", "merged"} /\ store'[d] = m.entry
  BY <1>3, <1>4, <1>6, <1>7
<1> QED BY <1>3, <1>5, <1>7, <1>8, <1>9 DEF r

(* The answer of a transaction that committed does not come.               *)
AnswerLost(n) == FlushFails(n) /\ flight[n].stage = "written"
AnswersCome == \A n \in Node : ~AnswerLost(n)

(* Of a step of the node itself: what it created stays private until its   *)
(* transaction writes it.                                                  *)
LEMMA OwnOwn ==
  ASSUME NoCreateRace, DirShape, UsedInv, NoneOvertaken',
         NEW n \in Node, DirEffect(n), ~AnswerLost(n), NEW d \in Dn, OwnAt(n, d)
  PROVE  OwnAt(n, d)'
<1>0. DirTypes /\ RowShape(n, d) /\ OthersStay(n)
  BY EffectStays DEF DirShape
<1>1. /\ Row(n, d).op \in {"none", "upsert", "delete"}
      /\ Row(n, d).outcome \in {"none", "theirs", "merged", "deleted"}
  BY <1>0, RowParts
<1>2. ASSUME NEW u, Private(u, n, d), store' = store, ~Is(u, shadow'[n][d]),
             Row(n, d)'.base \in {Absent, shadow[n][d], Row(n, d).base},
             Row(n, d)'.entry \in {Absent, Row(n, d).entry},
             reading'[n].dn = d =>
               reading'[n].row = store[d]
               \/ (reading[n].dn = d /\ reading'[n].row = reading[n].row)
      PROVE  Private(u, n, d)'
  <2>1. /\ ~Is(u, store'[d]) /\ ~Is(u, Row(n, d)'.base) /\ ~Is(u, Row(n, d)'.entry)
        /\ reading'[n].dn = d => ~Is(u, reading'[n].row)
    BY <1>2 DEF Private, Lacks, Is
  <2> QED BY <1>0, <1>2, <2>1, PrivateOwn
<1>3. ASSUME NEW u, Private(u, n, d)
      PROVE  ~Is(u, shadow[n][d]) /\ (reading[n].dn = d => ~Is(u, reading[n].row))
  BY <1>3 DEF Private, Lacks
<1>4. ASSUME NEW k \in Dn, NEW e \in MaybeEntry, LocalEffect(n, k, e), LocalKind(n, k, e)
      PROVE  OwnAt(n, d)'
  <2>1. /\ store' = store /\ shadow' = shadow /\ reading' = reading
        /\ flight'[n].stage = flight[n].stage /\ live'[n][k] = e
        /\ k # d => live'[n][d] = live[n][d]
        /\ Row(n, d)'.op = Row(n, d).op /\ Row(n, d)'.base = Row(n, d).base
        /\ Row(n, d)'.sent = Row(n, d).sent /\ Row(n, d)'.over = Row(n, d).over
        /\ Row(n, d)'.outcome = Row(n, d).outcome /\ Row(n, d)'.entry = Row(n, d).entry
    BY <1>4 DEF LocalEffect, Aside
  <2>2. \A u : Private(u, n, d) => Private(u, n, d)'
    BY <1>2, <1>3, <2>1
  <2>3. NewSent(n, d)' => Private(Row(n, d).sent.uuid, n, d)'
    <3> SUFFICES ASSUME NewSent(n, d)' PROVE Private(Row(n, d).sent.uuid, n, d)'
      OBVIOUS
    <3>1. PICK u : u = Row(n, d).sent.uuid
      OBVIOUS
    <3>2. Private(u, n, d)'
      BY <2>1, <2>2, <3>1 DEF NewSent, OwnAt
    <3>3. u = Row(n, d)'.sent.uuid
      BY <2>1, <3>1
    <3> QED BY <3>2, <3>3
  <2>4. NewHere(n, d)' \/ NewSince(n, d)' => Private(live[n][d].uuid, n, d)'
    <3> SUFFICES ASSUME NewHere(n, d)' \/ NewSince(n, d)'
                 PROVE  Private(live[n][d].uuid, n, d)'
      OBVIOUS
    <3>0. live'[n][d] # Absent
      BY DEF NewHere, NewSince
    <3>1. PICK u : u = live'[n][d].uuid
      OBVIOUS
    <3>2. CASE live[n][d] # Absent /\ live[n][d].uuid = u
      <4>1. \A a : SameUuid(a, live'[n][d]) <=> SameUuid(a, live[n][d])
        BY <3>0, <3>1, <3>2 DEF SameUuid
      <4>2. NewHere(n, d) \/ NewSince(n, d)
        BY <2>1, <3>2, <4>1 DEF NewHere, NewSince
      <4> QED BY <2>2, <3>1, <3>2, <4>2 DEF OwnAt
    <3>3. CASE u \notin used
      BY <2>2, <3>1, <3>3, PrivateFresh
    <3>4. (live[n][d] # Absent /\ live[n][d].uuid = u) \/ u \notin used
      BY <1>4, <2>1, <3>0, <3>1 DEF LocalKind, Adds, Removes, Creates, Deletes, Alike
    <3> QED BY <3>2, <3>3, <3>4
  <2> QED BY <2>3, <2>4 DEF OwnAt
(* What was new before, and what of it is private still.                   *)
<1>5. ASSUME SameUuid(live[n][d], live'[n][d]), NewHere(n, d) \/ NewSince(n, d),
             \A u : Private(u, n, d) /\ u = live[n][d].uuid => Private(u, n, d)'
      PROVE  Private(live[n][d].uuid, n, d)'
  <2>1. PICK u : u = live[n][d].uuid
    OBVIOUS
  <2>2. Private(u, n, d)' /\ u = live'[n][d].uuid
    BY <1>5, <2>1 DEF OwnAt, SameUuid
  <2> QED BY <2>2
<1>6. ASSUME NewSent(n, d), Row(n, d)'.sent = Row(n, d).sent,
             \A u : Private(u, n, d) => Private(u, n, d)'
      PROVE  Private(Row(n, d).sent.uuid, n, d)'
  <2>1. PICK u : u = Row(n, d).sent.uuid
    OBVIOUS
  <2>2. Private(u, n, d)' /\ u = Row(n, d)'.sent.uuid
    BY <1>6, <2>1 DEF OwnAt
  <2> QED BY <2>2
<1>7. CASE TakeEffect(n)
  <2>1. /\ store' = store /\ live' = live /\ shadow' = shadow /\ reading' = reading
        /\ flight[n].stage = "idle" /\ flight'[n].stage = "taken" /\ RowTaken(n, d, Row(n, d)')
    BY <1>7 DEF TakeEffect
  <2>2. Row(n, d)'.base \in {Absent, shadow[n][d]} /\ Row(n, d)'.entry = Absent
    BY <2>1 DEF RowTaken, NoWrite
  <2>3. \A u : Private(u, n, d) => Private(u, n, d)'
    BY <1>2, <1>3, <2>1, <2>2
  <2>4. NewSince(n, d)' => FALSE
    BY <2>1 DEF NewSince, RowTaken, NoWrite, SameUuid
  <2>5. NewHere(n, d)' => NewHere(n, d) /\ SameUuid(live[n][d], live'[n][d])
    BY <2>1 DEF NewHere, SameUuid
  <2>6. NewSent(n, d)' => NewHere(n, d)
                          /\ Row(n, d)'.sent = live'[n][d] /\ live'[n][d] # Absent
    BY <2>1 DEF NewSent, NewHere, RowTaken, NoWrite
  <2>7. NewHere(n, d) /\ live'[n][d] # Absent => Private(live[n][d].uuid, n, d)'
    <3>1. live'[n][d] # Absent => SameUuid(live[n][d], live'[n][d])
      BY <2>1 DEF SameUuid
    <3> QED BY <1>5, <2>3, <3>1
  <2>8. NewSent(n, d)' => Private(Row(n, d).sent.uuid, n, d)'
    <3> SUFFICES ASSUME NewSent(n, d)' PROVE Private(Row(n, d).sent.uuid, n, d)'
      OBVIOUS
    <3>1. PICK u : u = live'[n][d].uuid
      OBVIOUS
    <3>2. Private(u, n, d)'
      BY <2>6, <2>7, <3>1
    <3>3. u = Row(n, d)'.sent.uuid
      BY <2>6, <3>1
    <3> QED BY <3>2, <3>3
  <2> QED BY <1>5, <2>3, <2>4, <2>5, <2>8 DEF OwnAt
<1>8. CASE StillEffect(n)
  <2>1. /\ store' = store /\ live' = live /\ shadow' = shadow /\ reading' = reading
        /\ flight' = flight /\ Row(n, d)' = Row(n, d)
    BY <1>8 DEF StillEffect, Row
  <2>2. \A u : Private(u, n, d) => Private(u, n, d)'
    BY <1>2, <1>3, <2>1
  <2>3. /\ NewSent(n, d)' => NewSent(n, d)
        /\ NewHere(n, d)' => NewHere(n, d)
        /\ NewSince(n, d)' => NewSince(n, d)
    BY <2>1 DEF NewSent, NewHere, NewSince
  <2>4. NewHere(n, d) \/ NewSince(n, d) => SameUuid(live[n][d], live'[n][d])
    BY <2>1 DEF NewHere, NewSince, SameUuid
  <2> QED BY <1>5, <1>6, <2>1, <2>2, <2>3, <2>4 DEF OwnAt
<1>9. CASE CommitEffect(n)
  <2>1. /\ live' = live /\ shadow' = shadow /\ reading' = reading
        /\ flight[n].stage = "taken" /\ flight'[n].stage = "written"
    BY <1>9 DEF CommitEffect
  <2>2. /\ Row(n, d)'.op = Row(n, d).op /\ Row(n, d)'.base = Row(n, d).base
        /\ Row(n, d)'.sent = Row(n, d).sent /\ Row(n, d)'.over = Row(n, d).over
    BY <1>9, CommitIs
  <2>3. ASSUME NewHere(n, d)' \/ NewSince(n, d)'
        PROVE  /\ NewHere(n, d) \/ NewSince(n, d)
               /\ live[n][d] # Absent /\ SameUuid(live[n][d], live'[n][d])
               /\ Row(n, d).op = "upsert" => ~SameUuid(Row(n, d).sent, live[n][d])
    BY <2>1, <2>2, <2>3 DEF NewHere, NewSince, SameUuid
  <2>4. ASSUME NewHere(n, d)' \/ NewSince(n, d)',
               NEW u, Private(u, n, d), u = live[n][d].uuid
        PROVE  Private(u, n, d)'
    <3>1. ~Is(u, store[d]) /\ ~Is(u, Row(n, d).entry) /\ ~Is(u, Row(n, d).base)
      BY <2>4 DEF Private, Lacks
    <3>2. Row(n, d).op = "upsert" => ~Is(u, Mine(n, d))
      <4>1. Row(n, d).op = "upsert" => SameUuid(Row(n, d).sent, Mine(n, d))
        BY <1>9, CommitIs
      <4> QED BY <2>3, <2>4, <4>1 DEF Is, SameUuid
    <3>3. ~Is(u, store'[d])
      <4>1. \/ store'[d] \in {store[d], Absent}
            \/ Row(n, d).op = "upsert" /\ SameUuid(Mine(n, d), store'[d])
        BY <1>1, <1>9, CommitIs
      <4> QED BY <3>1, <3>2, <4>1 DEF Is, SameUuid
    <3>4. ~Is(u, Row(n, d)'.entry)
      <4>1. Row(n, d)'.entry \in {Row(n, d).entry, store'[d]}
        BY <1>1, <1>9, CommitIs
      <4> QED BY <3>1, <3>3, <4>1
    <3> QED BY <1>0, <1>3, <2>1, <2>2, <2>4, <3>1, <3>3, <3>4, PrivateOwn
  <2>5. ~NewSent(n, d)'
    BY <2>1 DEF NewSent
  <2> QED BY <1>5, <2>3, <2>4, <2>5 DEF OwnAt
<1>10. CASE ResolveEffect(n)
  <2>1. /\ store' = store /\ flight[n].stage = "written" /\ Row(n, d)' = NoWrite
        /\ reading'[n].dn = reading[n].dn /\ reading'[n].row = reading[n].row
        /\ shadow'[n][d] = Bel(n, d) /\ Resolved(n, d, live'[n][d])
        /\ ~(Row(n, d).over /\ Row(n, d).outcome \in {"none", "merged"})
    <3>1. overtaken'[n] = FALSE
      BY <1>10 DEF NoneOvertaken, ResolveEffect
    <3> QED BY <1>10, <3>1, NothingInFlight DEF ResolveEffect, Bel
  <2>2. ~NewSent(n, d)' /\ ~NewSince(n, d)'
    BY <2>1 DEF NewSent, NewSince, NoWrite
  <2>3. ASSUME NewHere(n, d)'
        PROVE  SameUuid(live[n][d], live'[n][d]) /\ (NewHere(n, d) \/ NewSince(n, d))
    <3>0. live'[n][d] # Absent /\ ~SameUuid(Bel(n, d), live'[n][d])
      BY <2>1, <2>3 DEF NewHere
    <3>1. CASE Row(n, d).outcome = "none"
      <4>1. live'[n][d] = live[n][d] /\ ~Row(n, d).over
        BY <2>1, <3>1 DEF Resolved
      <4>2. Bel(n, d) = IF Row(n, d).op = "none" THEN shadow[n][d] ELSE Row(n, d).sent
        BY <3>1 DEF Bel, Believed
      <4> QED BY <3>0, <4>1, <4>2 DEF NewHere, NewSince, SameUuid
    <3>2. CASE Row(n, d).outcome = "deleted"
      BY <2>1, <3>0, <3>2 DEF Resolved
    <3>3. CASE Row(n, d).outcome \in {"theirs", "merged"}
      <4>1. live'[n][d] = Settled(n, d) /\ Bel(n, d) = Row(n, d).entry
        BY <1>0, <2>1, <3>3, SettledPlain DEF Bel, Believed
      <4>2. Again(n, d)
        BY <3>0, <4>1 DEF Settled, SameUuid
      <4>3. Row(n, d).outcome = "merged" /\ ~Row(n, d).over /\ Row(n, d).op # "none"
        BY <1>0, <2>1, <4>2 DEF Again, RowShape
      <4>4. SameUuid(live[n][d], live'[n][d]) /\ ~SameUuid(Row(n, d).sent, live[n][d])
        BY <3>0, <4>1, <4>2, AgainIs
      <4> QED BY <4>3, <4>4 DEF NewSince, SameUuid
    <3> QED BY <1>1, <3>1, <3>2, <3>3
  <2>4. ASSUME NewHere(n, d)', NEW u, Private(u, n, d), u = live[n][d].uuid
        PROVE  Private(u, n, d)'
    <3>1. ~Is(u, shadow'[n][d])
      BY <2>3, <2>4 DEF NewHere, Is, SameUuid
    <3> QED BY <1>2, <2>1, <2>4, <3>1 DEF NoWrite
  <2> QED BY <1>5, <2>2, <2>3, <2>4 DEF OwnAt
<1>11. CASE FlushFails(n) /\ FailEffect(n)
  <2>1. /\ store' = store /\ live' = live /\ shadow' = shadow /\ Row(n, d)' = NoWrite
        /\ reading'[n].dn = reading[n].dn /\ reading'[n].row = reading[n].row
        /\ flight[n].stage # "written"
    BY <1>11, NothingInFlight DEF FailEffect, AnswerLost
  <2>2. \A u : Private(u, n, d) => Private(u, n, d)'
    BY <1>2, <1>3, <2>1 DEF NoWrite
  <2>3. ~NewSent(n, d)' /\ ~NewSince(n, d)'
    BY <2>1 DEF NewSent, NewSince, NoWrite
  <2>4. NewHere(n, d)' => NewHere(n, d) /\ SameUuid(live[n][d], live'[n][d])
    BY <2>1 DEF NewHere, SameUuid
  <2> QED BY <1>5, <2>2, <2>3, <2>4 DEF OwnAt
<1>12. CASE RestartEffect(n)
  <2>1. live'[n][d] = shadow'[n][d] /\ Row(n, d)' = NoWrite
    BY <1>12, NothingInFlight DEF RestartEffect
  <2> QED BY <2>1 DEF OwnAt, NewHere, NewSince, NewSent, NoWrite, SameUuid
<1>13. ASSUME NEW k \in Dn, ReadEffect(n, k)
       PROVE  OwnAt(n, d)'
  <2>1. /\ store' = store /\ live' = live /\ shadow' = shadow /\ flight' = flight
        /\ reading'[n].dn = k /\ reading'[n].row = store[k] /\ Row(n, d)' = Row(n, d)
    BY <1>13 DEF ReadEffect, Row
  <2>2. \A u : Private(u, n, d) => Private(u, n, d)'
    BY <1>2, <1>3, <2>1
  <2>3. /\ NewSent(n, d)' => NewSent(n, d)
        /\ NewHere(n, d)' => NewHere(n, d)
        /\ NewSince(n, d)' => NewSince(n, d)
    BY <2>1 DEF NewSent, NewHere, NewSince
  <2>4. NewHere(n, d) \/ NewSince(n, d) => SameUuid(live[n][d], live'[n][d])
    BY <2>1 DEF NewHere, NewSince, SameUuid
  <2> QED BY <1>5, <1>6, <2>1, <2>2, <2>3, <2>4 DEF OwnAt
<1>14. ASSUME NEW k \in Dn, reading[n].dn = k, ApplyEffect(n, k)
       PROVE  OwnAt(n, d)'
  <2>1. /\ store' = store /\ flight'[n].stage = flight[n].stage /\ reading'[n].dn # d
        /\ Row(n, d)'.op = Row(n, d).op /\ Row(n, d)'.base = Row(n, d).base
        /\ Row(n, d)'.sent = Row(n, d).sent /\ Row(n, d)'.entry = Row(n, d).entry
    BY <1>14, DirConstants DEF ApplyEffect, NotReading, Aside
  <2>2. \A u : Private(u, n, d) => Private(u, n, d)'
    <3>1. shadow'[n][d] = IF k = d THEN reading[n].row ELSE shadow[n][d]
      BY <1>14 DEF ApplyEffect
    <3> QED BY <1>2, <1>3, <1>14, <2>1, <3>1
  <2>3. NewSent(n, d)' => NewSent(n, d)
    BY <2>1 DEF NewSent
  <2>4. NewHere(n, d)' \/ NewSince(n, d)' =>
          SameUuid(live[n][d], live'[n][d]) /\ (NewHere(n, d) \/ NewSince(n, d))
    <3>1. CASE k # d
      <4>1. Row(n, d)' = Row(n, d) /\ live'[n][d] = live[n][d] /\ shadow'[n][d] = shadow[n][d]
        BY <1>14, <3>1 DEF ApplyEffect
      <4> QED BY <2>1, <4>1 DEF NewHere, NewSince, SameUuid
    <3>2. CASE k = d
      <4> SUFFICES ASSUME NewHere(n, d)' \/ NewSince(n, d)'
                   PROVE  SameUuid(live[n][d], live'[n][d])
                          /\ (NewHere(n, d) \/ NewSince(n, d))
        OBVIOUS
      <4>1. /\ live'[n][d] = PutHere(n, d) /\ shadow'[n][d] = reading[n].row
            /\ Row(n, d)'.over = IF KeptHere(n, d) THEN Row(n, d).over
                                 ELSE Row(n, d).op # "none"
        <5>1. NowHere(n, d) = PutHere(n, d)
          BY <1>14, <3>2, NowPlain
        <5>2. /\ live'[n][d] = NowHere(n, d) /\ shadow'[n][d] = reading[n].row
              /\ \/ KeptHere(n, d) /\ Row(n, d)' = Row(n, d)
                 \/ KeptHere(n, d) /\ Row(n, d)'.over = Row(n, d).over
                 \/ ~KeptHere(n, d) /\ Row(n, d)'.over = (Row(n, d).op # "none")
          BY <1>14, <3>2 DEF ApplyEffect
        <5> QED BY <5>1, <5>2
      <4>2. live'[n][d] # Absent
        BY DEF NewHere, NewSince
      <4>3. KeptHere(n, d)
        <5>1. ~KeptHere(n, d) => live'[n][d] = shadow'[n][d]
          BY <4>1 DEF PutHere
        <5> QED BY <2>1, <4>1, <4>2, <5>1 DEF NewHere, NewSince, SameUuid
      <4>4. /\ SameUuid(live[n][d], live'[n][d])
            /\ SameUuid(shadow'[n][d], live'[n][d]) \/ ~SameUuid(shadow[n][d], live[n][d])
        BY <1>0, <4>1, <4>2, <4>3, KeptIs
      <4>5. \A a : SameUuid(a, live'[n][d]) <=> SameUuid(a, live[n][d])
        BY <4>4 DEF SameUuid
      <4> QED BY <2>1, <4>1, <4>3, <4>4, <4>5 DEF NewHere, NewSince, SameUuid
    <3> QED BY <3>1, <3>2
  <2> QED BY <1>5, <1>6, <2>1, <2>2, <2>3, <2>4 DEF OwnAt
<1> QED BY <1>4, <1>7, <1>8, <1>9, <1>10, <1>11, <1>12, <1>13, <1>14 DEF DirEffect

LEMMA OwnStep ==
  ASSUME NoCreateRace, DirShape, UsedInv, used \subseteq used', OwnInv,
         NEW n \in Node, DirEffect(n), ~AnswerLost(n)
  PROVE  OwnInv'
<1> SUFFICES ASSUME NoneOvertaken' PROVE \A m \in Node, d \in Dn : OwnAt(m, d)'
  BY DEF OwnInv
<1>1. \A m \in Node, d \in Dn : OwnAt(m, d)
  BY OvertakenStays DEF OwnInv, DirShape
<1>2. \A d \in Dn : OwnAt(n, d)'
  BY <1>1, OwnOwn
<1>3. \A m \in Node \ {n}, d \in Dn : OwnAt(m, d)'
  BY <1>1, OwnOthers
<1> QED BY <1>2, <1>3

(* At the start nothing is in flight and nothing is on its way.            *)
LEMMA StartsStill ==
  ASSUME DirInit, NEW n \in Node, NEW d \in Dn
  PROVE  /\ Row(n, d) = NoWrite /\ flight[n].stage = "idle" /\ reading[n].dn # d
         /\ live[n][d] = store[d] /\ shadow[n][d] = store[d]
BY IdleFlight, DirConstants DEF DirInit, Row, NotReading

LEMMA OwnInit == DirInit => OwnInv
<1> SUFFICES ASSUME DirInit, NEW n \in Node, NEW d \in Dn PROVE OwnAt(n, d)
  BY DEF OwnInv
<1> QED BY StartsStill DEF OwnAt, NewHere, NewSince, NewSent, NoWrite, SameUuid

(* The newest version of an entry is the one with the greatest stamp: no   *)
(* copy is newer than what it is merged into.                              *)
StampAt(n, d) ==
  LET r == Row(n, d)
  IN  /\ Later(shadow[n][d], live[n][d]) /\ Later(shadow[n][d], store[d])
      /\ r.op = "upsert" /\ flight[n].stage = "taken" =>
           Later(r.base, Mine(n, d)) /\ Later(r.sent, Mine(n, d))
      /\ r.op = "upsert" /\ ~r.over => Later(r.sent, live[n][d])
      /\ flight[n].stage = "written" => Later(Bel(n, d), store[d])
      /\ reading[n].dn = d =>
           /\ Later(reading[n].row, store[d]) /\ Later(shadow[n][d], reading[n].row)
           /\ reading[n].late => Later(Bel(n, d), reading[n].row)

StampInv == NoneOvertaken => \A n \in Node, d \in Dn : StampAt(n, d)

LEMMA LaterTrans ==
  ASSUME NEW a \in MaybeEntry, NEW b \in MaybeEntry, NEW c \in MaybeEntry,
         Later(a, b), Later(b, c), SameUuid(a, b) \/ SameUuid(b, c)
  PROVE  Later(a, c)
<1>1. \A e \in MaybeEntry : e # Absent => e.stamp \in Nat
  BY EntryFields DEF Entry
<1> SUFFICES ASSUME SameUuid(a, c) PROVE a.stamp <= c.stamp
  BY DEF Later
<1>2. SameUuid(a, b) /\ SameUuid(b, c)
  BY DEF SameUuid
<1> QED BY <1>1, <1>2 DEF Later, SameUuid

LEMMA LaterSame ==
  /\ \A a \in MaybeEntry : Later(a, a)
  /\ \A a : Later(Absent, a) /\ Later(a, Absent)
<1>1. \A e \in MaybeEntry : e # Absent => e.stamp \in Nat
  BY EntryFields DEF Entry
<1> QED BY <1>1 DEF Later, SameUuid

(* What the transaction writes is not older than what it writes over, or   *)
(* is an entry that nobody else has.                                       *)
LEMMA StoreGrows ==
  ASSUME DirShape, NEW n \in Node, CommitEffect(n), NEW d \in Dn, DirShape',
         OwnAt(n, d), StampAt(n, d),
         NEW a \in MaybeEntry, Later(a, store[d]), \A u : Private(u, n, d) => ~Is(u, a)
  PROVE  Later(a, store'[d])
<1>1. store[d] \in MaybeEntry /\ store'[d] \in MaybeEntry
  BY RowParts DEF DirShape, DirTypes
<1>2. Row(n, d).op \in {"none", "upsert", "delete"} /\ flight[n].stage = "taken"
  BY RowParts DEF DirShape, CommitEffect
<1>3. CASE store'[d] \in {store[d], Absent}
  BY <1>3, LaterSame
<1>4. CASE store'[d] \notin {store[d], Absent}
  <2>1. /\ Row(n, d).op = "upsert" /\ SameUuid(Row(n, d).sent, Mine(n, d))
        /\ SameUuid(Mine(n, d), store'[d])
        /\ SameUuid(store[d], store'[d]) \/ ~SameUuid(Row(n, d).base, Mine(n, d))
        /\ Later(Row(n, d).base, Mine(n, d)) => Later(store[d], store'[d])
    BY <1>2, <1>4, CommitIs
  <2>2. CASE SameUuid(store[d], store'[d])
    <3>1. Later(store[d], store'[d])
      BY <1>2, <2>1 DEF StampAt
    <3> QED BY <1>1, <2>2, <3>1, LaterTrans
  <2>3. CASE ~SameUuid(Row(n, d).base, Mine(n, d))
    <3>1. NewSent(n, d)
      BY <1>2, <2>1, <2>3 DEF NewSent, SameUuid
    <3>2. PICK u : u = Row(n, d).sent.uuid
      OBVIOUS
    <3>3. ~Is(u, a)
      BY <3>1, <3>2 DEF OwnAt
    <3> QED BY <2>1, <3>2, <3>3 DEF Is, SameUuid, Later
  <2> QED BY <2>1, <2>2, <2>3
<1> QED BY <1>3, <1>4

LEMMA StoreStays ==
  ASSUME NEW n \in Node, DirEffect(n), ~CommitEffect(n)
  PROVE  store' = store
BY DEF DirEffect, LocalEffect, TakeEffect, StillEffect, ResolveEffect, FailEffect,
       RestartEffect, ReadEffect, ApplyEffect

LEMMA StampOthers ==
  ASSUME DirShape, DirShape', NEW n \in Node, DirEffect(n), NEW m \in Node \ {n}, NEW d \in Dn,
         OwnAt(n, d), StampAt(n, d), StampAt(m, d)
  PROVE  StampAt(m, d)'
<1>1. /\ live'[m][d] = live[m][d] /\ shadow'[m][d] = shadow[m][d] /\ Row(m, d)' = Row(m, d)
      /\ Mine(m, d)' = Mine(m, d) /\ flight'[m] = flight[m] /\ reading'[m] = reading[m]
  BY EffectStays, OthersKept
<1>2. Bel(m, d)' = Bel(m, d)
  BY <1>1 DEF Bel
<1>3. Bel(m, d) \in {Row(m, d).entry, shadow[m][d], Row(m, d).sent}
  BY DEF Bel, Believed
<1>4. /\ shadow[m][d] \in MaybeEntry /\ Bel(m, d) \in MaybeEntry
      /\ reading[m].row \in MaybeEntry
  BY <1>3, RowParts DEF DirShape
<1>5. \A u : Private(u, n, d) =>
        /\ ~Is(u, shadow[m][d]) /\ ~Is(u, Bel(m, d))
        /\ reading[m].dn = d => ~Is(u, reading[m].row)
  BY <1>3 DEF Private, Lacks
<1>6. /\ Later(shadow[m][d], store'[d])
      /\ flight[m].stage = "written" => Later(Bel(m, d), store'[d])
      /\ reading[m].dn = d => Later(reading[m].row, store'[d])
  <2>1. CASE CommitEffect(n)
    BY <1>4, <1>5, <2>1, StoreGrows DEF StampAt
  <2>2. CASE ~CommitEffect(n)
    BY <2>2, StoreStays DEF StampAt
  <2> QED BY <2>1, <2>2
<1> QED BY <1>1, <1>2, <1>6 DEF StampAt

LEMMA StampOwn ==
  ASSUME InOrder, NoCreateRace, DirShape, DirShape', UsedInv, DatedInv, NoneOvertaken',
         NEW n \in Node, DirEffect(n), NEW d \in Dn, OwnAt(n, d), StampAt(n, d)
  PROVE  StampAt(n, d)'
<1>0. DirTypes /\ RowShape(n, d) /\ GenShape(n) /\ changes \in Nat
  BY DEF DirShape, DirTypes
<1>1. /\ store[d] \in MaybeEntry /\ live[n][d] \in MaybeEntry /\ shadow[n][d] \in MaybeEntry
      /\ Row(n, d).base \in MaybeEntry /\ Row(n, d).sent \in MaybeEntry
      /\ Row(n, d).entry \in MaybeEntry /\ Mine(n, d) \in MaybeEntry
      /\ Row(n, d).op \in {"none", "upsert", "delete"}
      /\ Row(n, d).outcome \in {"none", "theirs", "merged", "deleted"}
      /\ reading[n].row \in MaybeEntry
  BY <1>0, RowParts
<1>2. Bel(n, d) = IF Row(n, d).outcome # "none" THEN Row(n, d).entry
                  ELSE IF Row(n, d).op = "none" THEN shadow[n][d] ELSE Row(n, d).sent
  BY DEF Bel, Believed
<1>3. ASSUME NEW k \in Dn, NEW e \in MaybeEntry, LocalEffect(n, k, e), LocalKind(n, k, e)
      PROVE  StampAt(n, d)'
  <2>1. /\ store' = store /\ shadow' = shadow /\ reading' = reading
        /\ flight'[n].stage = flight[n].stage /\ live'[n][k] = e
        /\ k # d => live'[n][d] = live[n][d]
        /\ Row(n, d)'.op = Row(n, d).op /\ Row(n, d)'.base = Row(n, d).base
        /\ Row(n, d)'.sent = Row(n, d).sent /\ Row(n, d)'.over = Row(n, d).over
        /\ Row(n, d)'.outcome = Row(n, d).outcome /\ Row(n, d)'.entry = Row(n, d).entry
    BY <1>3 DEF LocalEffect, Aside
  <2>2. Bel(n, d)' = Bel(n, d)
    BY <2>1 DEF Bel, Believed
  <2>3. Mine(n, d)' \in {Mine(n, d), live'[n][d]} /\ (k # d => Mine(n, d)' = Mine(n, d))
    BY <1>3, <2>1 DEF LocalEffect, Aside, Mine
  <2>4. k = d => /\ Later(shadow[n][d], e) /\ Later(Row(n, d).base, e)
                 /\ Later(Row(n, d).sent, e)
    <3>1. e # Absent => e.stamp = changes + 1
      BY <1>3 DEF LocalEffect
    <3>2. \A a \in MaybeEntry : a # Absent => a.stamp \in Nat
      BY EntryFields DEF Entry
    <3>3. \A a \in MaybeEntry : (a # Absent => a.stamp <= changes) => Later(a, e)
      BY <1>0, <3>1, <3>2 DEF Later, SameUuid
    <3> QED BY <1>1, <3>3, DatedParts
  <2> QED BY <2>1, <2>2, <2>3, <2>4 DEF StampAt
<1>4. CASE TakeEffect(n)
  <2>1. /\ store' = store /\ live' = live /\ shadow' = shadow /\ reading' = reading
        /\ flight[n].stage = "idle" /\ flight'[n].stage = "taken" /\ RowTaken(n, d, Row(n, d)')
    BY <1>4 DEF TakeEffect
  <2>2. ~reading[n].late
    BY <1>0, <2>1 DEF GenShape
  <2>3. Row(n, d)'.op = "upsert" =>
          /\ Row(n, d)'.base = shadow[n][d] /\ Row(n, d)'.sent = live[n][d]
          /\ Mine(n, d)' = live[n][d]
    BY <2>1 DEF RowTaken, NoWrite, Mine
  <2> QED BY <1>1, <2>1, <2>2, <2>3, LaterSame DEF StampAt
<1>5. CASE StillEffect(n)
  <2>1. /\ store' = store /\ live' = live /\ shadow' = shadow /\ reading' = reading
        /\ flight' = flight /\ Row(n, d)' = Row(n, d) /\ Mine(n, d)' = Mine(n, d)
        /\ Bel(n, d)' = Bel(n, d)
    BY <1>5 DEF StillEffect, Row, Mine, Bel
  <2> QED BY <2>1 DEF StampAt
<1>6. CASE CommitEffect(n)
  <2>1. /\ live' = live /\ shadow' = shadow /\ reading' = reading
        /\ flight[n].stage = "taken" /\ flight'[n].stage = "written" /\ ~reading[n].late
    BY <1>0, <1>6 DEF CommitEffect, GenShape
  <2>2. /\ Row(n, d)'.op = Row(n, d).op /\ Row(n, d)'.sent = Row(n, d).sent
        /\ Row(n, d)'.over = Row(n, d).over
    BY <1>6, CommitIs
  <2>3. /\ Later(shadow[n][d], store'[d])
        /\ reading[n].dn = d => Later(reading[n].row, store'[d])
    <3>1. \A u : Private(u, n, d) => /\ ~Is(u, shadow[n][d])
                                     /\ reading[n].dn = d => ~Is(u, reading[n].row)
      BY DEF Private, Lacks
    <3> QED BY <1>1, <1>6, <3>1, StoreGrows DEF StampAt
  <2>4. Later(Bel(n, d)', store'[d])
    <3>1. Bel(n, d)' = IF Row(n, d)'.outcome # "none" THEN Row(n, d)'.entry
                       ELSE IF Row(n, d).op = "none" THEN shadow[n][d] ELSE Row(n, d).sent
      BY <2>1, <2>2 DEF Bel, Believed
    <3>2. store'[d] \in MaybeEntry
      BY DEF DirShape, DirTypes
    <3>3. CASE Row(n, d).op = "upsert"
      <4>1. Later(Row(n, d).sent, Mine(n, d))
        BY <2>1, <3>3 DEF StampAt
      <4>2. \/ Bel(n, d)' = Row(n, d).sent /\ store'[d] = Mine(n, d)
            \/ Bel(n, d)' = store'[d]
        BY <1>6, <3>1, <3>3, CommitIs
      <4> QED BY <3>2, <4>1, <4>2, LaterSame
    <3>4. CASE Row(n, d).op # "upsert"
      <4>1. /\ Row(n, d)'.outcome = "none"
            /\ Row(n, d).op # "none" => store'[d] = Absent
        BY <1>6, <3>4, CommitIs
      <4> QED BY <2>3, <3>1, <4>1, LaterSame
    <3> QED BY <3>3, <3>4
  <2> QED BY <2>1, <2>2, <2>3, <2>4 DEF StampAt
<1>7. CASE ResolveEffect(n)
  <2>1. /\ store' = store /\ flight[n].stage = "written" /\ Row(n, d)' = NoWrite
        /\ flight'[n].stage = "idle"
        /\ reading[n] = NotReading \/ reading[n].late
        /\ reading'[n].dn = reading[n].dn /\ reading'[n].row = reading[n].row
        /\ ~reading'[n].late /\ shadow'[n][d] = Bel(n, d)
        /\ Resolved(n, d, live'[n][d])
        /\ ~(Row(n, d).over /\ Row(n, d).outcome \in {"none", "merged"})
    <3>1. overtaken'[n] = FALSE
      BY <1>7 DEF NoneOvertaken, ResolveEffect
    <3> QED BY <1>7, <3>1, NothingInFlight, IdleFlight DEF ResolveEffect, Bel
  <2>2. reading'[n].dn = d => /\ Later(Bel(n, d), reading'[n].row)
                              /\ Later(reading'[n].row, store[d])
    <3>1. NotReading.dn # d
      BY DirConstants DEF NotReading
    <3> QED BY <2>1, <3>1 DEF StampAt
  <2>3. Later(Bel(n, d), live'[n][d])
    <3>1. CASE Row(n, d).outcome = "none"
      <4>1. live'[n][d] = live[n][d] /\ ~Row(n, d).over
        BY <2>1, <3>1 DEF Resolved
      <4>2. Row(n, d).op = "delete" => Row(n, d).sent = Absent
        BY <1>0 DEF RowShape
      <4> QED BY <1>1, <1>2, <3>1, <4>1, <4>2, LaterSame DEF StampAt
    <3>2. CASE Row(n, d).outcome = "deleted"
      BY <2>1, <3>2, LaterSame DEF Resolved
    <3>3. CASE Row(n, d).outcome \in {"theirs", "merged"}
      <4>1. live'[n][d] = Settled(n, d) /\ Bel(n, d) = Row(n, d).entry
        BY <1>2, <2>1, <3>3, SettledPlain
      <4>2. CASE ~Again(n, d)
        BY <1>1, <4>1, <4>2, LaterSame DEF Settled
      <4>3. CASE Again(n, d)
        <5>1. Row(n, d).op = "upsert" /\ ~Row(n, d).over
          BY <1>0, <1>1, <2>1, <4>3 DEF Again, RowShape
        <5>2. Later(Row(n, d).sent, live[n][d])
          BY <5>1 DEF StampAt
        <5> QED BY <4>1, <4>3, <5>2, AgainIs
      <4> QED BY <4>2, <4>3
    <3> QED BY <1>1, <3>1, <3>2, <3>3
  <2>4. Later(Bel(n, d), store[d])
    BY <2>1 DEF StampAt
  <2>5. Row(n, d)'.op = "none" /\ flight'[n].stage # "written"
    BY <2>1 DEF NoWrite
  <2>6. /\ store'[d] = store[d] /\ shadow'[n][d] = Bel(n, d) /\ ~reading'[n].late
    BY <2>1
  <2> QED BY <2>2, <2>3, <2>4, <2>5, <2>6 DEF StampAt
<1>8. CASE FailEffect(n)
  <2>1. /\ store' = store /\ live' = live /\ shadow' = shadow /\ Row(n, d)' = NoWrite
        /\ flight'[n].stage = "idle"
        /\ reading'[n].dn = reading[n].dn /\ reading'[n].row = reading[n].row /\ ~reading'[n].late
    BY <1>8, NothingInFlight, IdleFlight DEF FailEffect
  <2> QED BY <2>1 DEF StampAt, NoWrite
<1>9. CASE RestartEffect(n)
  <2>1. /\ store' = store /\ live'[n][d] = store[d] /\ shadow'[n][d] = store[d]
        /\ Row(n, d)' = NoWrite /\ flight'[n].stage = "idle" /\ reading'[n].dn # d
    BY <1>9, NothingInFlight, IdleFlight, DirConstants DEF RestartEffect, NotReading
  <2> QED BY <1>1, <2>1, LaterSame DEF StampAt, NoWrite
<1>10. ASSUME NEW k \in Dn, ReadEffect(n, k)
       PROVE  StampAt(n, d)'
  <2>1. /\ store' = store /\ live' = live /\ shadow' = shadow /\ flight' = flight
        /\ reading'[n].dn = k /\ reading'[n].row = store[k]
        /\ reading'[n].late => flight[n].stage = "written"
        /\ Row(n, d)' = Row(n, d) /\ Mine(n, d)' = Mine(n, d) /\ Bel(n, d)' = Bel(n, d)
    BY <1>10 DEF ReadEffect, Row, Mine, Bel
  <2>2. Later(store[d], store[d])
    BY <1>1, LaterSame
  <2> QED BY <2>1, <2>2 DEF StampAt
<1>11. ASSUME NEW k \in Dn, reading[n].dn = k, ApplyEffect(n, k)
       PROVE  StampAt(n, d)'
  <2>1. store' = store /\ flight'[n].stage = flight[n].stage /\ reading'[n].dn # d
    BY <1>11, DirConstants DEF ApplyEffect, NotReading
  <2>2. CASE k # d
    <3>1. Row(n, d)' = Row(n, d) /\ live'[n][d] = live[n][d] /\ shadow'[n][d] = shadow[n][d]
      BY <1>11, <2>2 DEF ApplyEffect
    <3>2. Mine(n, d)' = Mine(n, d) /\ Bel(n, d)' = Bel(n, d)
      BY <3>1 DEF Mine, Bel
    <3> QED BY <2>1, <3>1, <3>2 DEF StampAt
  <2>3. CASE k = d
    <3>1. /\ live'[n][d] = PutHere(n, d) /\ shadow'[n][d] = reading[n].row
          /\ Row(n, d)'.op = Row(n, d).op /\ Row(n, d)'.base = Row(n, d).base
          /\ Row(n, d)'.sent = Row(n, d).sent /\ Mine(n, d)' = Mine(n, d)
          /\ Row(n, d)'.outcome = Row(n, d).outcome /\ Row(n, d)'.entry = Row(n, d).entry
          /\ Row(n, d)'.over = IF KeptHere(n, d) THEN Row(n, d).over ELSE Row(n, d).op # "none"
      <4>1. NowHere(n, d) = PutHere(n, d)
        BY <1>11, <2>3, NowPlain
      <4>2. /\ live'[n][d] = NowHere(n, d) /\ shadow'[n][d] = reading[n].row
            /\ \/ KeptHere(n, d) /\ NowHere(n, d) = live[n][d] /\ Row(n, d)' = Row(n, d)
               \/ /\ KeptHere(n, d)
                  /\ Aside(n, d, Row(n, d)') /\ Row(n, d)'.over = Row(n, d).over
               \/ /\ ~KeptHere(n, d)
                  /\ Aside(n, d, Row(n, d)') /\ Row(n, d)'.over = (Row(n, d).op # "none")
        BY <1>11, <2>3 DEF ApplyEffect
      <4> QED BY <4>1, <4>2 DEF Mine, Aside
    <3>2. /\ Later(shadow[n][d], live[n][d]) /\ Later(shadow[n][d], reading[n].row)
          /\ Later(reading[n].row, store[d])
      BY <1>11, <2>3 DEF StampAt
    <3>3. Bel(n, d)' \in {Bel(n, d), reading[n].row}
      BY <3>1 DEF Bel, Believed
    <3>4. flight[n].stage = "written" => Later(Bel(n, d)', store[d])
      BY <3>2, <3>3 DEF StampAt
    <3>5. /\ Later(reading[n].row, live'[n][d])
          /\ Row(n, d).op = "upsert" /\ ~Row(n, d)'.over => Later(Row(n, d).sent, live'[n][d])
      <4>1. CASE PutHere(n, d) = Absent
        BY <3>1, <4>1, LaterSame
      <4>2. CASE PutHere(n, d) # Absent /\ ~KeptHere(n, d)
        <5>1. live'[n][d] = reading[n].row
          BY <3>1, <4>2 DEF PutHere
        <5> QED BY <1>1, <3>1, <4>2, <5>1, LaterSame
      <4>3. CASE PutHere(n, d) # Absent /\ KeptHere(n, d)
        <5>1. /\ SameUuid(live[n][d], PutHere(n, d)) /\ Later(reading[n].row, PutHere(n, d))
              /\ Later(live[n][d], PutHere(n, d))
          BY <1>0, <3>2, <4>3, KeptIs
        <5>2. PutHere(n, d) \in MaybeEntry
          BY <1>0, PutTyped
        <5>3. Row(n, d).op = "upsert" /\ ~Row(n, d)'.over => Later(Row(n, d).sent, live[n][d])
          BY <3>1, <4>3 DEF StampAt
        <5> QED BY <1>1, <3>1, <5>1, <5>2, <5>3, LaterTrans
      <4> QED BY <4>1, <4>2, <4>3
    <3> QED BY <2>1, <3>1, <3>2, <3>4, <3>5 DEF StampAt
  <2> QED BY <2>2, <2>3
<1> QED BY <1>3, <1>4, <1>5, <1>6, <1>7, <1>8, <1>9, <1>10, <1>11 DEF DirEffect

LEMMA StampStep ==
  ASSUME InOrder, NoCreateRace, DirShape, DirShape', UsedInv, DatedInv, OwnInv, StampInv,
         NEW n \in Node, DirEffect(n)
  PROVE  StampInv'
<1> SUFFICES ASSUME NoneOvertaken' PROVE \A m \in Node, d \in Dn : StampAt(m, d)'
  BY DEF StampInv
<1>1. \A m \in Node, d \in Dn : OwnAt(m, d) /\ StampAt(m, d)
  BY OvertakenStays DEF OwnInv, StampInv, DirShape
<1>2. \A d \in Dn : StampAt(n, d)'
  BY <1>1, StampOwn
<1>3. \A m \in Node \ {n}, d \in Dn : StampAt(m, d)'
  BY <1>1, StampOthers
<1> QED BY <1>2, <1>3

LEMMA StampInit == DirInit => StampInv
<1> SUFFICES ASSUME DirInit, NEW n \in Node, NEW d \in Dn PROVE StampAt(n, d)
  BY DEF StampInv
<1>1. store[d] \in MaybeEntry
  BY ShapeInit, RowParts DEF DirShape
<1> QED BY <1>1, StartsStill, LaterSame DEF StampAt, NoWrite

(* What n serves was changed after a, or is not a's entry at all.          *)
Ahead(a, b) == a # Absent /\ (b = Absent \/ b.uuid # a.uuid \/ b.stamp > a.stamp)

(* What n will believe at d when it has heard what is on its way: the row  *)
(* it has read, the answer of its flush, or what it believes already.      *)
Heard(n, d) == /\ reading[n].dn = d
               /\ reading[n].late \/ ~(flight[n].stage = "written" /\ Row(n, d).op # "none")
Hears(n, d) == IF Heard(n, d) THEN reading[n].row
               ELSE IF flight[n].stage = "written" THEN Bel(n, d) ELSE shadow[n][d]

(* That was overtaken by a change of its own, which it has yet to write.   *)
Behind(n, d) ==
  IF flight[n].stage = "written" /\ Row(n, d).op # "none"
  THEN /\ Row(n, d).op = "upsert" /\ Row(n, d).outcome = "none"
       /\ Row(n, d).over \/ Ahead(Row(n, d).sent, live[n][d])
  ELSE Ahead(shadow[n][d], live[n][d])

RightAt(n, d) ==
  /\ Row(n, d).op = "upsert" /\ flight[n].stage = "taken" /\ ~Row(n, d).over =>
       Mine(n, d) = Row(n, d).sent \/ Ahead(Row(n, d).sent, live[n][d])
  /\ d \in todo[n] \/ Hears(n, d) = store[d] \/ (~Heard(n, d) /\ Behind(n, d))

RightInv == NoneOvertaken => \A n \in Node, d \in Dn : RightAt(n, d)

(* A change, or what is kept of one, is ahead of all there was.            *)
LEMMA AheadLocal ==
  ASSUME DirTypes, NEW n \in Node, NEW d \in Dn, NEW e \in MaybeEntry, LocalEffect(n, d, e),
         NEW a \in MaybeEntry, a # Absent, a.stamp <= changes
  PROVE  Ahead(a, e)
<1>1. a.stamp \in Nat /\ changes \in Nat
  BY EntryFields DEF Entry, DirTypes
<1>2. e # Absent => e.stamp = changes + 1
  BY DEF LocalEffect
<1>3. e # Absent => e.stamp > a.stamp
  BY <1>1, <1>2
<1> QED BY <1>3 DEF Ahead

LEMMA AheadKept ==
  ASSUME DirTypes, NEW n \in Node, NEW d \in Dn, KeptHere(n, d),
         Later(shadow[n][d], reading[n].row),
         NEW a \in MaybeEntry, Ahead(a, live[n][d])
  PROVE  Ahead(a, PutHere(n, d))
<1>1. live[n][d] \in MaybeEntry /\ PutHere(n, d) \in MaybeEntry
  BY RowParts, PutTyped
<1>2. \A e \in MaybeEntry : e # Absent => e.stamp \in Nat
  BY EntryFields DEF Entry
<1>3. CASE PutHere(n, d) = Absent
  BY <1>3 DEF Ahead
<1>4. CASE PutHere(n, d) # Absent
  <2>1. SameUuid(live[n][d], PutHere(n, d)) /\ Later(live[n][d], PutHere(n, d))
    BY <1>4, KeptIs
  <2>2. /\ live[n][d] # Absent /\ live[n][d].uuid = PutHere(n, d).uuid
        /\ live[n][d].stamp <= PutHere(n, d).stamp
    BY <2>1 DEF SameUuid, Later
  <2>3. a # Absent /\ (PutHere(n, d).uuid # a.uuid \/ live[n][d].stamp > a.stamp)
    BY <2>2 DEF Ahead
  <2>4. a.stamp \in Nat /\ live[n][d].stamp \in Nat /\ PutHere(n, d).stamp \in Nat
    BY <1>1, <1>2, <1>4, <2>2, <2>3
  <2> QED BY <2>2, <2>3, <2>4 DEF Ahead
<1> QED BY <1>3, <1>4

LEMMA RightOthers ==
  ASSUME NEW n \in Node, DirEffect(n), NEW m \in Node \ {n}, NEW d \in Dn, RightAt(m, d)
  PROVE  RightAt(m, d)'
<1>1. /\ live'[m][d] = live[m][d] /\ shadow'[m][d] = shadow[m][d] /\ Row(m, d)' = Row(m, d)
      /\ Mine(m, d)' = Mine(m, d) /\ flight'[m] = flight[m] /\ reading'[m] = reading[m]
  BY EffectStays, OthersKept
<1>2. Bel(m, d)' = Bel(m, d)
  BY <1>1 DEF Bel
<1>3. Heard(m, d)' = Heard(m, d) /\ Hears(m, d)' = Hears(m, d) /\ Behind(m, d)' = Behind(m, d)
  BY <1>1, <1>2 DEF Heard, Hears, Behind
<1>4. d \in todo[m] \/ store'[d] # store[d] => d \in todo'[m]
  <2>1. CASE CommitEffect(n)
    BY <2>1 DEF CommitEffect
  <2>2. CASE ~CommitEffect(n)
    <3>1. todo'[m] = todo[m]
      BY <2>2 DEF DirEffect, LocalEffect, TakeEffect, StillEffect, ResolveEffect, FailEffect,
                  RestartEffect, ReadEffect, ApplyEffect
    <3> QED BY <2>2, <3>1, StoreStays
  <2> QED BY <2>1, <2>2
<1> QED BY <1>1, <1>3, <1>4 DEF RightAt

LEMMA RightOwn ==
  ASSUME InOrder, NoCreateRace, DirShape, DirShape', UsedInv, DatedInv, NoneOvertaken',
         NEW n \in Node, DirEffect(n), ~AnswerLost(n), NEW d \in Dn,
         StampAt(n, d), RightAt(n, d)
  PROVE  RightAt(n, d)'
<1>0. DirTypes /\ RowShape(n, d) /\ GenShape(n)
  BY DEF DirShape
<1>1. /\ store[d] \in MaybeEntry /\ live[n][d] \in MaybeEntry /\ shadow[n][d] \in MaybeEntry
      /\ Row(n, d).base \in MaybeEntry /\ Row(n, d).sent \in MaybeEntry
      /\ Row(n, d).entry \in MaybeEntry /\ Mine(n, d) \in MaybeEntry
      /\ Row(n, d).op \in {"none", "upsert", "delete"}
      /\ Row(n, d).outcome \in {"none", "theirs", "merged", "deleted"}
      /\ reading[n].row \in MaybeEntry
  BY <1>0, RowParts
<1>2. Bel(n, d) = IF Row(n, d).outcome # "none" THEN Row(n, d).entry
                  ELSE IF Row(n, d).op = "none" THEN shadow[n][d] ELSE Row(n, d).sent
  BY DEF Bel, Believed
<1>3. ASSUME NEW k \in Dn, NEW e \in MaybeEntry, LocalEffect(n, k, e), LocalKind(n, k, e)
      PROVE  RightAt(n, d)'
  <2>1. /\ store' = store /\ shadow' = shadow /\ reading' = reading /\ todo' = todo
        /\ flight'[n].stage = flight[n].stage /\ live'[n][k] = e
        /\ k # d => live'[n][d] = live[n][d]
        /\ Row(n, d)'.op = Row(n, d).op /\ Row(n, d)'.base = Row(n, d).base
        /\ Row(n, d)'.sent = Row(n, d).sent /\ Row(n, d)'.over = Row(n, d).over
        /\ Row(n, d)'.outcome = Row(n, d).outcome /\ Row(n, d)'.entry = Row(n, d).entry
    BY <1>3 DEF LocalEffect, Aside
  <2>2. k # d => Mine(n, d)' = Mine(n, d)
    BY <1>3, <2>1 DEF LocalEffect, Mine
  <2>3. Bel(n, d)' = Bel(n, d)
    BY <2>1 DEF Bel, Believed
  <2>4. Heard(n, d)' = Heard(n, d) /\ Hears(n, d)' = Hears(n, d)
    BY <2>1, <2>3 DEF Heard, Hears
  <2>5. ASSUME NEW a \in MaybeEntry, a # Absent => a.stamp <= changes, Ahead(a, live[n][d])
        PROVE  Ahead(a, live'[n][d])
    BY <1>0, <1>3, <2>1, <2>5, AheadLocal DEF Ahead
  <2>6. Behind(n, d) => Behind(n, d)'
    <3>1. /\ shadow[n][d] # Absent => shadow[n][d].stamp <= changes
          /\ Row(n, d).sent # Absent => Row(n, d).sent.stamp <= changes
      BY DatedParts
    <3> QED BY <1>1, <2>1, <2>5, <3>1 DEF Behind
  <2>7. Row(n, d).op = "upsert" /\ k = d => Ahead(Row(n, d).sent, live'[n][d])
    <3>1. Row(n, d).op = "upsert" => Row(n, d).sent # Absent
      BY <1>0 DEF RowShape
    <3> QED BY <1>0, <1>1, <1>3, <2>1, <3>1, DatedParts, AheadLocal
  <2> QED BY <2>1, <2>2, <2>4, <2>6, <2>7 DEF RightAt
<1>4. CASE TakeEffect(n)
  <2>1. /\ store' = store /\ live' = live /\ shadow' = shadow /\ reading' = reading
        /\ todo' = todo
        /\ flight[n].stage = "idle" /\ flight'[n].stage = "taken" /\ RowTaken(n, d, Row(n, d)')
    BY <1>4 DEF TakeEffect
  <2>2. Row(n, d)'.op = "upsert" => Mine(n, d)' = Row(n, d)'.sent
    BY <2>1 DEF RowTaken, NoWrite, Mine
  <2>3. Heard(n, d)' = Heard(n, d) /\ Hears(n, d)' = Hears(n, d) /\ Behind(n, d)' = Behind(n, d)
    BY <2>1 DEF Heard, Hears, Behind
  <2> QED BY <2>1, <2>2, <2>3 DEF RightAt
<1>5. CASE StillEffect(n)
  <2>1. /\ store' = store /\ live' = live /\ shadow' = shadow /\ reading' = reading
        /\ todo' = todo /\ flight' = flight /\ Row(n, d)' = Row(n, d)
        /\ Mine(n, d)' = Mine(n, d) /\ Bel(n, d)' = Bel(n, d)
    BY <1>5 DEF StillEffect, Row, Mine, Bel
  <2> QED BY <2>1 DEF RightAt, Heard, Hears, Behind
<1>6. CASE CommitEffect(n)
  <2>1. /\ live' = live /\ shadow' = shadow /\ reading' = reading /\ todo'[n] = todo[n]
        /\ flight[n].stage = "taken" /\ flight'[n].stage = "written" /\ ~reading[n].late
    BY <1>0, <1>6 DEF CommitEffect, GenShape
  <2>2. /\ Row(n, d)'.op = Row(n, d).op /\ Row(n, d)'.sent = Row(n, d).sent
        /\ Row(n, d)'.over = Row(n, d).over
    BY <1>6, CommitIs
  <2>3. Bel(n, d)' = IF Row(n, d)'.outcome # "none" THEN Row(n, d)'.entry
                     ELSE IF Row(n, d).op = "none" THEN shadow[n][d] ELSE Row(n, d).sent
    BY <2>1, <2>2 DEF Bel, Believed
  <2>4. CASE Row(n, d).op = "none"
    <3>1. Row(n, d)'.outcome = "none" /\ store'[d] = store[d]
      BY <1>6, <2>4, CommitIs
    <3>2. /\ Heard(n, d)' = Heard(n, d) /\ Hears(n, d)' = Hears(n, d)
          /\ Behind(n, d)' = Behind(n, d)
      BY <2>1, <2>2, <2>3, <2>4, <3>1 DEF Heard, Hears, Behind
    <3> QED BY <2>1, <2>2, <2>4, <3>1, <3>2 DEF RightAt
  <2>5. CASE Row(n, d).op # "none"
    <3>1. ~Heard(n, d)' /\ Hears(n, d)' = Bel(n, d)'
      BY <2>1, <2>2, <2>5 DEF Heard, Hears
    <3>2. Bel(n, d)' = store'[d] \/ Behind(n, d)'
      <4>1. CASE Row(n, d).op = "delete"
        <5>1. Row(n, d).sent = Absent
          BY <1>0, <4>1 DEF RowShape
        <5>2. Row(n, d)'.outcome = "none" /\ store'[d] = Absent
          BY <1>6, <4>1, CommitIs
        <5> QED BY <2>3, <4>1, <5>1, <5>2
      <4>2. CASE Row(n, d).op = "upsert" /\ Row(n, d)'.outcome # "none"
        BY <1>6, <2>3, <4>2, CommitIs
      <4>3. CASE Row(n, d).op = "upsert" /\ Row(n, d)'.outcome = "none"
        <5>1. Bel(n, d)' = Row(n, d).sent /\ store'[d] = Mine(n, d)
          BY <1>6, <2>3, <4>3, CommitIs
        <5>2. \/ Row(n, d).over \/ Mine(n, d) = Row(n, d).sent
              \/ Ahead(Row(n, d).sent, live[n][d])
          BY <2>1, <4>3 DEF RightAt
        <5> QED BY <2>1, <2>2, <4>3, <5>1, <5>2 DEF Behind
      <4> QED BY <1>1, <2>5, <4>1, <4>2, <4>3
    <3> QED BY <2>1, <3>1, <3>2 DEF RightAt
  <2> QED BY <2>4, <2>5
<1>7. CASE ResolveEffect(n)
  <2>1. /\ store' = store /\ todo' = todo
        /\ flight[n].stage = "written" /\ Row(n, d)' = NoWrite
        /\ flight'[n].stage = "idle"
        /\ reading[n] = NotReading \/ reading[n].late
        /\ reading'[n].dn = reading[n].dn /\ reading'[n].row = reading[n].row
        /\ ~reading'[n].late /\ shadow'[n][d] = Bel(n, d)
        /\ Resolved(n, d, live'[n][d])
        /\ ~(Row(n, d).over /\ Row(n, d).outcome \in {"none", "merged"})
    <3>1. overtaken'[n] = FALSE
      BY <1>7 DEF NoneOvertaken, ResolveEffect
    <3> QED BY <1>7, <3>1, NothingInFlight, IdleFlight DEF ResolveEffect, Bel
  <2>2. Row(n, d)'.op = "none"
    BY <2>1 DEF NoWrite
  <2>3. Heard(n, d)' = Heard(n, d)
    <3>1. NotReading.dn # d
      BY DirConstants DEF NotReading
    <3>2. Heard(n, d) <=> reading[n].dn = d
      BY <2>1, <3>1 DEF Heard
    <3>3. Heard(n, d)' <=> reading[n].dn = d
      BY <2>1, <2>2 DEF Heard
    <3> QED BY <3>2, <3>3 DEF Heard
  <2>4. Hears(n, d)' = Hears(n, d)
    BY <2>1, <2>3 DEF Hears
  <2>5. Behind(n, d) => Behind(n, d)'
    <3>1. Behind(n, d) => Row(n, d).outcome = "none"
      BY <1>0 DEF Behind, RowShape
    <3>2. Row(n, d).outcome = "none" => live'[n][d] = live[n][d] /\ ~Row(n, d).over
      BY <2>1 DEF Resolved
    <3>3. Behind(n, d)' <=> Ahead(Bel(n, d), live'[n][d])
      BY <2>1 DEF Behind
    <3> QED BY <1>2, <2>1, <3>1, <3>2, <3>3 DEF Behind
  <2> QED BY <2>1, <2>2, <2>3, <2>4, <2>5 DEF RightAt
<1>8. CASE FlushFails(n) /\ FailEffect(n)
  <2>1. /\ store' = store /\ todo' = todo /\ live' = live /\ shadow' = shadow
        /\ Row(n, d)'.op = "none" /\ flight'[n].stage = "idle" /\ flight[n].stage # "written"
        /\ reading'[n].dn = reading[n].dn /\ reading'[n].row = reading[n].row
    BY <1>8, NothingInFlight, IdleFlight DEF FailEffect, AnswerLost, NoWrite
  <2>2. Heard(n, d)' = Heard(n, d) /\ Hears(n, d)' = Hears(n, d) /\ Behind(n, d)' = Behind(n, d)
    BY <2>1 DEF Heard, Hears, Behind
  <2> QED BY <2>1, <2>2 DEF RightAt
<1>9. CASE RestartEffect(n)
  <2>1. /\ store' = store /\ shadow'[n][d] = store[d]
        /\ Row(n, d)'.op = "none" /\ flight'[n].stage = "idle" /\ reading'[n].dn # d
    BY <1>9, NothingInFlight, IdleFlight, DirConstants DEF RestartEffect, NotReading, NoWrite
  <2> QED BY <2>1 DEF RightAt, Heard, Hears
<1>10. ASSUME NEW k \in Dn, ReadEffect(n, k)
       PROVE  RightAt(n, d)'
  <2>1. /\ store' = store /\ live' = live /\ shadow' = shadow /\ flight' = flight
        /\ reading[n].dn # d /\ reading'[n].dn = k /\ reading'[n].row = store[k]
        /\ reading'[n].late <=> flight[n].stage = "written"
        /\ k # d /\ d \in todo[n] => d \in todo'[n]
        /\ Row(n, d)' = Row(n, d) /\ Mine(n, d)' = Mine(n, d) /\ Bel(n, d)' = Bel(n, d)
    BY <1>10, DirConstants DEF ReadEffect, Row, Mine, Bel, NotReading
  <2>2. CASE k = d
    BY <2>1, <2>2 DEF RightAt, Heard, Hears
  <2>3. CASE k # d
    BY <2>1, <2>3 DEF RightAt, Heard, Hears, Behind
  <2> QED BY <2>2, <2>3
<1>11. ASSUME NEW k \in Dn, reading[n].dn = k, ApplyEffect(n, k)
       PROVE  RightAt(n, d)'
  <2>1. /\ store' = store /\ todo' = todo /\ flight'[n].stage = flight[n].stage
        /\ reading'[n].dn # d /\ ~reading[n].late
    BY <1>0, <1>11, DirConstants DEF ApplyEffect, NotReading, GenShape
  <2>2. CASE k # d
    <3>1. Row(n, d)' = Row(n, d) /\ live'[n][d] = live[n][d] /\ shadow'[n][d] = shadow[n][d]
      BY <1>11, <2>2 DEF ApplyEffect
    <3>2. Mine(n, d)' = Mine(n, d) /\ Bel(n, d)' = Bel(n, d)
      BY <3>1 DEF Mine, Bel
    <3>3. Behind(n, d)' = Behind(n, d) /\ ~Heard(n, d) /\ ~Heard(n, d)'
      BY <1>11, <2>1, <2>2, <3>1 DEF Behind, Heard
    <3> QED BY <2>1, <3>1, <3>2, <3>3 DEF RightAt, Hears
  <2>3. CASE k = d
    <3>1. /\ live'[n][d] = PutHere(n, d) /\ shadow'[n][d] = reading[n].row
          /\ Row(n, d)'.op = Row(n, d).op /\ Row(n, d)'.base = Row(n, d).base
          /\ Row(n, d)'.sent = Row(n, d).sent /\ Mine(n, d)' = Mine(n, d)
          /\ Row(n, d)'.outcome = Row(n, d).outcome /\ Row(n, d)'.entry = Row(n, d).entry
          /\ Row(n, d)'.over = IF KeptHere(n, d) THEN Row(n, d).over ELSE Row(n, d).op # "none"
      <4>1. NowHere(n, d) = PutHere(n, d)
        BY <1>11, <2>3, NowPlain
      <4>2. /\ live'[n][d] = NowHere(n, d) /\ shadow'[n][d] = reading[n].row
            /\ \/ KeptHere(n, d) /\ NowHere(n, d) = live[n][d] /\ Row(n, d)' = Row(n, d)
               \/ /\ KeptHere(n, d)
                  /\ Aside(n, d, Row(n, d)') /\ Row(n, d)'.over = Row(n, d).over
               \/ /\ ~KeptHere(n, d)
                  /\ Aside(n, d, Row(n, d)') /\ Row(n, d)'.over = (Row(n, d).op # "none")
        BY <1>11, <2>3 DEF ApplyEffect
      <4> QED BY <4>1, <4>2 DEF Mine, Aside
    <3>2. ~Row(n, d)'.over /\ Row(n, d).op = "upsert" =>
            /\ ~Row(n, d).over
            /\ Ahead(Row(n, d).sent, live[n][d]) => Ahead(Row(n, d).sent, live'[n][d])
      <4>1. Later(shadow[n][d], reading[n].row)
        BY <1>11, <2>3 DEF StampAt
      <4> QED BY <1>0, <1>1, <3>1, <4>1, AheadKept
    <3>3. CASE flight[n].stage = "written" /\ Row(n, d).op # "none"
      <4>1. ~Heard(n, d) /\ ~Heard(n, d)'
        BY <2>1, <3>3 DEF Heard
      <4>2. Bel(n, d)' = Bel(n, d)
        BY <1>2, <3>1, <3>3 DEF Bel, Believed
      <4>3. Hears(n, d)' = Hears(n, d)
        BY <2>1, <3>3, <4>1, <4>2 DEF Hears
      <4>4. Behind(n, d) => Behind(n, d)'
        BY <2>1, <3>1, <3>2, <3>3 DEF Behind
      <4> QED BY <2>1, <3>3, <4>1, <4>3, <4>4 DEF RightAt
    <3>4. CASE ~(flight[n].stage = "written" /\ Row(n, d).op # "none")
      <4>1. Heard(n, d) /\ Hears(n, d) = reading[n].row
        BY <1>11, <2>3, <3>4 DEF Heard, Hears
      <4>2. flight[n].stage = "written" => Bel(n, d)' = reading[n].row
        <5>1. Row(n, d).op = "none" => Row(n, d).outcome = "none"
          BY <1>0 DEF RowShape
        <5> QED BY <3>1, <3>4, <5>1 DEF Bel, Believed
      <4>3. Hears(n, d)' = reading[n].row
        BY <2>1, <3>1, <4>2 DEF Hears, Heard
      <4>4. /\ Row(n, d)'.op = "upsert" /\ flight'[n].stage = "taken" /\ ~Row(n, d)'.over =>
                 Mine(n, d)' = Row(n, d)'.sent \/ Ahead(Row(n, d)'.sent, live'[n][d])
        BY <2>1, <3>1, <3>2 DEF RightAt
      <4> QED BY <2>1, <4>1, <4>3, <4>4 DEF RightAt
    <3> QED BY <3>3, <3>4
  <2> QED BY <2>2, <2>3
<1> QED BY <1>3, <1>4, <1>5, <1>6, <1>7, <1>8, <1>9, <1>10, <1>11 DEF DirEffect

LEMMA RightStep ==
  ASSUME InOrder, NoCreateRace, DirShape, DirShape', UsedInv, DatedInv, StampInv, RightInv,
         NEW n \in Node, DirEffect(n), ~AnswerLost(n)
  PROVE  RightInv'
<1> SUFFICES ASSUME NoneOvertaken' PROVE \A m \in Node, d \in Dn : RightAt(m, d)'
  BY DEF RightInv
<1>1. \A m \in Node, d \in Dn : StampAt(m, d) /\ RightAt(m, d)
  BY OvertakenStays DEF StampInv, RightInv, DirShape
<1>2. \A d \in Dn : RightAt(n, d)'
  BY <1>1, RightOwn
<1>3. \A m \in Node \ {n}, d \in Dn : RightAt(m, d)'
  BY <1>1, RightOthers
<1> QED BY <1>2, <1>3

LEMMA RightInit == DirInit => RightInv
<1> SUFFICES ASSUME DirInit, NEW n \in Node, NEW d \in Dn PROVE RightAt(n, d)
  BY DEF RightInv
<1> QED BY StartsStill DEF RightAt, Hears, Heard, NoWrite

AgreeInv == OwnInv /\ StampInv /\ RightInv

LEMMA AgreeStep ==
  ASSUME InOrder, NoCreateRace, DirShape, UsedInv, DatedInv, AgreeInv, DirNext, AnswersCome
  PROVE  AgreeInv'
<1>1. PICK n \in Node : DirEffect(n)
  BY StepsDo
<1>2. DirShape' /\ ~AnswerLost(n) /\ used \subseteq used'
  BY StepsDo, UsedGrows DEF AnswersCome
<1> QED BY <1>1, <1>2, OwnStep, StampStep, RightStep DEF AgreeInv

LEMMA AgreeAlways ==
  ASSUME InOrder, NoCreateRace
  PROVE  DirSpec /\ [][AnswersCome]_dirvars => []AgreeInv
<1>1. DirShape /\ UsedInv /\ DatedInv /\ AgreeInv /\ [DirNext]_dirvars /\ [AnswersCome]_dirvars
        => AgreeInv'
  <2>1. DirShape /\ UsedInv /\ DatedInv /\ AgreeInv /\ DirNext /\ AnswersCome => AgreeInv'
    BY AgreeStep
  <2>2. OwnInv /\ UNCHANGED dirvars => OwnInv'
    BY DEF OwnInv, NoneOvertaken, OwnAt, NewHere, NewSince, NewSent, Private, Lacks, Row, dirvars
  <2>3. StampInv /\ UNCHANGED dirvars => StampInv'
    BY DEF StampInv, NoneOvertaken, StampAt, Bel, Mine, Row, dirvars
  <2>4. RightInv /\ UNCHANGED dirvars => RightInv'
    BY DEF RightInv, NoneOvertaken, RightAt, Hears, Heard, Behind, Bel, Mine, Row, dirvars
  <2> QED BY <2>1, <2>2, <2>3, <2>4 DEF AgreeInv
<1>2. DirInit => AgreeInv
  BY OwnInit, StampInit, RightInit DEF AgreeInv
<1> QED BY <1>1, <1>2, ShapeAlways, UsedAlways, DatedAlways, PTL DEF DirSpec

(* The nodes agree, for any number of them: where answers reach a node in  *)
(* the order the statements ran, no two entries were created at once, no   *)
(* flush was overtaken and no answer of a transaction that committed was   *)
(* lost, nodes with nothing left to write or to read serve what is stored, *)
(* whatever was added, removed, created and deleted at once, and whichever *)
(* flushes failed before they committed or nodes were restarted (flush,    *)
(* applyDirectoryChange, applyDirectoryOutcomes and mergeEntry together).  *)
THEOREM Agreement ==
  ASSUME InOrder, NoCreateRace
  PROVE  DirSpec /\ [][AnswersCome]_dirvars => []Converged
<1>1. DirShape /\ AgreeInv /\ NothingForgotten => Converged
  <2> SUFFICES ASSUME DirShape, AgreeInv, NothingForgotten, NoneOvertaken, Quiet,
                      NEW n \in Node
               PROVE  live[n] = store
    BY DEF Converged
  <2>1. live[n] = shadow[n]
    BY DEF NothingForgotten, NoneOvertaken, Quiet
  <2>2. ASSUME NEW d \in Dn PROVE live[n][d] = store[d]
    <3>1. flight[n].stage = "idle" /\ todo[n] = {} /\ reading[n].dn # d
      BY DirConstants DEF Quiet, NotReading
    <3>2. ~Heard(n, d) /\ Hears(n, d) = shadow[n][d]
      BY <3>1 DEF Heard, Hears
    <3>3. ~Behind(n, d)
      <4>1. shadow[n][d] # Absent => shadow[n][d].stamp \in Nat
        BY RowParts, EntryFields DEF DirShape, Entry
      <4> QED BY <2>1, <3>1, <4>1 DEF Behind, Ahead
    <3> QED BY <2>1, <3>1, <3>2, <3>3 DEF AgreeInv, RightInv, RightAt
  <2>3. live[n] \in [Dn -> MaybeEntry] /\ store \in [Dn -> MaybeEntry]
    BY DEF DirShape, DirTypes
  <2> QED BY <2>2, <2>3
<1> QED BY <1>1, ShapeAlways, AgreeAlways, ChangesRemembered, PTL

=============================================================================
