--------------------------- MODULE CountersProofs ---------------------------
(***************************************************************************)
(* Proofs about Counters, for any factors, challenges, processes, builds,  *)
(* clocks and bounds: a second factor is spent once, and the revocation    *)
(* lists of an authority are numbered apart and in order.                  *)
(***************************************************************************)
EXTENDS Counters, WellFoundedInduction, TLAPS

LOCAL INSTANCE FiniteSetsExt   \* Max

-----------------------------------------------------------------------------
(* What the counter says of those who asked it.                            *)

HeldStages == {"asking", "moved", "behind", "accepted"}

(* The counter is at or above every count it was moved to and every count  *)
(* that was accepted; two that moved it moved it to different counts; and  *)
(* whoever is under way holds its challenge alone.                         *)
SpendInv(s) ==
  /\ spend[s].stage \in HeldStages =>
       /\ spend[s].above <= counter["factor"]
       /\ spend[s].answers # NoChallenge => spend[s].answers \in claimed
       /\ spend[s].answers = NoChallenge => spend[s].count > 0
  /\ spend[s].stage \in {"moved", "accepted"} =>
       /\ spend[s].count <= counter["factor"]
       /\ spend[s].above < spend[s].count \/ (spend[s].count = 0 /\ spend[s].above <= 0)
  /\ \A t \in Spend : s # t =>
       /\ {spend[s].stage, spend[t].stage} \subseteq HeldStages
            => spend[s].answers # spend[t].answers \/ spend[s].answers = NoChallenge
       /\ {spend[s].stage, spend[t].stage} \subseteq {"moved", "accepted"}
            => spend[s].count # spend[t].count \/ spend[s].count = 0

SpendsInv == \A s \in Spend : SpendInv(s)

(* The same of the numbers of the lists.                                   *)
BuildInv(b) ==
  /\ build[b].stage \in {"asking", "moved", "behind", "signed"} =>
       /\ build[b].number > 0
       /\ build[b].above <= counter["crl"] \/ build[b].above = 0
  /\ build[b].stage \in {"moved", "signed"} =>
       /\ build[b].above < build[b].number
       /\ build[b].number <= counter["crl"]
  /\ \A a \in Build : a # b /\ {build[a].stage, build[b].stage} \subseteq {"moved", "signed"}
       => build[a].number # build[b].number

BuildsInv == \A b \in Build : BuildInv(b)

CountersInv == CountersTypeOK /\ SpendsInv /\ BuildsInv

-----------------------------------------------------------------------------
(* Greatest elements.                                                      *)

(* A set of naturals has a least element.                                  *)
LEMMA LeastNat ==
  ASSUME NEW S, S \subseteq Nat, S # {}
  PROVE  \E m \in S : \A x \in S : m <= x
<1>1. PICK m \in S : \A x \in S : <<x, m>> \notin OpToRel(<, Nat)
  BY NatLessThanWellFounded, WFMin
<1>2. ASSUME NEW x \in S PROVE m <= x
  <2>1. x \in Nat /\ m \in Nat /\ <<x, m>> \in Nat \X Nat
    OBVIOUS
  <2>2. ~(x < m)
    BY <2>1, <1>1, Zenon DEF OpToRel
  <2> QED BY <2>1, <2>2
<1> QED BY <1>1, <1>2

(* Max of a set of integers with an upper bound is its greatest element.   *)
LEMMA MaxIsGreatest ==
  ASSUME NEW S, S \subseteq Int, S # {}, NEW bound \in Int, \A x \in S : x <= bound
  PROVE  Max(S) \in S /\ \A x \in S : Max(S) >= x
<1> DEFINE D == {bound - x : x \in S}
<1>1. D # {} /\ \A x \in S : bound - x \in Nat
  <2>1. PICK x \in S : TRUE
    OBVIOUS
  <2>2. bound - x \in D
    BY <2>1
  <2>3. \A y \in S : bound - y \in Nat
    OBVIOUS
  <2> QED BY <2>2, <2>3
<1>2. PICK m \in D : \A d \in D : m <= d
  <2>1. D \subseteq Nat
    BY <1>1
  <2> HIDE DEF D
  <2> QED BY <1>1, <2>1, LeastNat
<1>3. PICK y \in S : m = bound - y
  OBVIOUS
<1>4. ASSUME NEW x \in S PROVE y >= x
  <2>1. bound - y <= bound - x
    BY <1>2, <1>3
  <2> QED BY <2>1, x \in Int, y \in Int
<1> QED BY <1>3, <1>4 DEF Max

(* Max of two.                                                             *)
LEMMA MaxOfTwo ==
  ASSUME NEW x \in Int, NEW y \in Int
  PROVE  Max({x, y}) \in {x, y} /\ Max({x, y}) >= x /\ Max({x, y}) >= y
<1>1. \A z \in {x, y} : z <= (IF x >= y THEN x ELSE y)
  OBVIOUS
<1> QED BY <1>1, MaxIsGreatest, (IF x >= y THEN x ELSE y) \in Int

-----------------------------------------------------------------------------
(* The steps of a spending and the steps of a list leave each other alone. *)

LEMMA BuildsApart ==
  ASSUME BuildsInv, UNCHANGED listvars, counter'["crl"] = counter["crl"]
  PROVE  BuildsInv'
BY DEF BuildsInv, BuildInv, listvars

LEMMA SpendsApart ==
  ASSUME SpendsInv, UNCHANGED spendvars, counter'["factor"] = counter["factor"]
  PROVE  SpendsInv'
BY DEF SpendsInv, SpendInv, spendvars

(* Before anything, nothing is claimed, moved or begun.                    *)
LEMMA CountersInitInv == CountersInit => CountersInv
<1> SUFFICES ASSUME CountersInit PROVE CountersInv
  OBVIOUS
<1> USE CountersConstants DEF CountersInit
<1>1. (CHOOSE p \in Signer : TRUE) \in Signer
  OBVIOUS
<1>2. CountersTypeOK
  <2>1. spend \in [Spend -> Spends]
    BY DEF Spends, Unset
  <2>2. build \in [Build -> Builds]
    BY <1>1 DEF Builds, NoBuild
  <2> QED BY <2>1, <2>2 DEF CountersTypeOK, Unset
<1>3. SpendsInv
  BY DEF SpendsInv, SpendInv, HeldStages
<1>4. BuildsInv
  BY DEF BuildsInv, BuildInv, NoBuild
<1> QED BY <1>2, <1>3, <1>4 DEF CountersInv

-----------------------------------------------------------------------------
(* A second factor.                                                        *)

(* The highest count accepted so far is no higher than the counter.        *)
LEMMA AboveBelowCounter ==
  ASSUME CountersInv
  PROVE  LET above == Max({spend[t].count : t \in Accepted} \cup {Unset})
         IN  above \in Int /\ above <= counter["factor"]
<1> DEFINE T == {spend[t].count : t \in Accepted} \cup {Unset}
<1>1. counter["factor"] \in Nat \cup {Unset} /\ counter["factor"] \in Int
  BY DEF CountersInv, CountersTypeOK, Unset
<1>2. \A t \in Accepted : spend[t].count \in Nat /\ spend[t].count <= counter["factor"]
  <2> TAKE t \in Accepted
  <2>1. t \in Spend /\ spend[t].stage = "accepted" /\ spend[t] \in Spends
    BY DEF Accepted, CountersInv, CountersTypeOK
  <2> QED BY <2>1, CountersConstants DEF CountersInv, SpendsInv, SpendInv, Spends
<1>3. T \subseteq Int /\ T # {} /\ \A x \in T : x <= counter["factor"]
  BY <1>1, <1>2 DEF Unset
<1> HIDE DEF T
<1>4. Max(T) \in T
  BY <1>1, <1>3, MaxIsGreatest DEF Unset
<1>5. Max(T) \in Int /\ Max(T) <= counter["factor"]
  BY <1>3, <1>4
<1> QED BY <1>5 DEF T

LEMMA PresentsKeepsInv ==
  ASSUME CountersInv, NEW s \in Spend,
         NEW count \in 0..MaxCount, NEW answers \in Challenge \cup {NoChallenge},
         Presents(s, count, answers)
  PROVE  CountersInv'
<1> DEFINE above == Max({spend[t].count : t \in Accepted} \cup {Unset})
<1>1. above \in Int /\ above <= counter["factor"]
  BY AboveBelowCounter
<1> HIDE DEF above
<1> DEFINE new == [stage |-> IF answers \in claimed THEN "refused" ELSE "asking",
                   count |-> count, answers |-> answers, above |-> above]
<1>2. spend' = [spend EXCEPT ![s] = new] /\ claimed' = (claimed \cup {answers}) \cap Challenge
      /\ (answers = NoChallenge => count > 0)
      /\ UNCHANGED <<counter, listvars>>
  BY DEF Presents, above
<1>3. new \in Spends
  BY <1>1 DEF Spends
<1> USE DEF CountersInv
<1>4. CountersTypeOK'
  <2>1. spend' \in [Spend -> Spends]
    BY <1>2, <1>3 DEF CountersTypeOK
  <2> QED BY <1>2, <2>1 DEF CountersTypeOK, listvars
<1>5. SpendsInv'
  <2>1. \A t \in Spend : spend'[t] = IF t = s THEN new ELSE spend[t]
    BY <1>2 DEF CountersTypeOK
  <2>2. new.stage = (IF answers \in claimed THEN "refused" ELSE "asking")
        /\ new.count = count /\ new.answers = answers /\ new.above = above
    OBVIOUS
  <2> HIDE DEF new
  <2>3. claimed \subseteq claimed' /\ (answers # NoChallenge => answers \in claimed')
    BY <1>2 DEF CountersTypeOK
  <2> QED BY <1>1, <1>2, <2>1, <2>2, <2>3 DEF SpendsInv, SpendInv, HeldStages
<1>6. BuildsInv'
  BY <1>2, BuildsApart
<1> QED BY <1>4, <1>5, <1>6

LEMMA AdvancesKeepsInv ==
  ASSUME CountersInv, NEW s \in Spend, Advances(s)
  PROVE  CountersInv'
<1> USE DEF CountersInv
<1>1. PICK stage \in {"moved", "behind"} :
        /\ spend' = [spend EXCEPT ![s].stage = stage]
        /\ stage = "moved" => /\ counter["factor"] < spend[s].count
                              /\ counter' = [counter EXCEPT !["factor"] = spend[s].count]
        /\ stage = "behind" => counter' = counter
  BY DEF Advances, Moves
<1>2. spend[s].stage = "asking" /\ UNCHANGED <<claimed, listvars>>
  BY DEF Advances
<1>3. spend[s] \in Spends /\ spend[s].count \in Nat
  BY CountersConstants DEF CountersTypeOK, Spends
<1>4. CountersTypeOK'
  <2>1. spend' \in [Spend -> Spends]
    BY <1>1, <1>3 DEF CountersTypeOK, Spends
  <2>2. counter' \in [{"factor", "crl"} -> Nat \cup {Unset}]
    BY <1>1, <1>3 DEF CountersTypeOK
  <2> QED BY <1>2, <2>1, <2>2 DEF CountersTypeOK, listvars
<1>5. SpendsInv'
  <2>1. \A t \in Spend : t # s => spend'[t] = spend[t]
    BY <1>1 DEF CountersTypeOK
  <2>2. /\ spend'[s].stage = stage /\ spend'[s].count = spend[s].count
        /\ spend'[s].answers = spend[s].answers /\ spend'[s].above = spend[s].above
    BY <1>1, <1>3 DEF CountersTypeOK, Spends
  <2>3. counter["factor"] \in Int /\ counter'["factor"] \in Int
        /\ counter["factor"] <= counter'["factor"]
        /\ (stage = "moved" => counter'["factor"] = spend[s].count /\ counter["factor"] < spend[s].count)
    BY <1>1, <1>3 DEF CountersTypeOK, Unset
  <2>4. \A t \in Spend : spend[t].above \in Int /\ spend[t].count \in Nat
    BY CountersConstants DEF CountersTypeOK, Spends
  <2> SUFFICES ASSUME NEW a \in Spend PROVE SpendInv(a)'
    BY DEF SpendsInv
  <2>5. SpendInv(a) /\ SpendInv(s)
    BY DEF SpendsInv
  <2>6. \A t \in Spend : spend[t].stage \in {"moved", "accepted"}
                           => spend[t].count <= counter["factor"]
    BY DEF SpendsInv, SpendInv
  <2>7. CASE a = s
    BY <1>2, <2>1, <2>2, <2>3, <2>4, <2>5, <2>6, <2>7 DEF SpendInv, HeldStages
  <2>8. CASE a # s
    BY <1>2, <2>1, <2>2, <2>3, <2>4, <2>5, <2>6, <2>8 DEF SpendInv, HeldStages
  <2> QED BY <2>7, <2>8
<1>6. BuildsInv'
  BY <1>1, <1>2, BuildsApart DEF CountersTypeOK
<1> QED BY <1>4, <1>5, <1>6

LEMMA AcceptsKeepsInv ==
  ASSUME CountersInv, NEW s \in Spend, Accepts(s)
  PROVE  CountersInv'
<1> USE DEF CountersInv
<1>1. /\ spend' = [spend EXCEPT ![s].stage = "accepted"]
      /\ UNCHANGED <<counter, claimed, listvars>>
      /\ \/ spend[s].stage = "moved"
         \/ spend[s].stage = "behind" /\ spend[s].count = 0 /\ counter["factor"] = 0
  BY DEF Accepts, AlwaysZero
<1>2. CountersTypeOK'
  <2>1. spend' \in [Spend -> Spends]
    BY <1>1 DEF CountersTypeOK, Spends
  <2> QED BY <1>1, <2>1 DEF CountersTypeOK, listvars
<1>3. SpendsInv'
  <2>1. \A t \in Spend : t # s => spend'[t] = spend[t]
    BY <1>1 DEF CountersTypeOK
  <2>2. /\ spend'[s].stage = "accepted" /\ spend'[s].count = spend[s].count
        /\ spend'[s].answers = spend[s].answers /\ spend'[s].above = spend[s].above
    BY <1>1 DEF CountersTypeOK, Spends
  <2>3. \A t \in Spend : spend[t].above \in Int /\ spend[t].count \in Nat
    BY CountersConstants DEF CountersTypeOK, Spends
  <2> SUFFICES ASSUME NEW a \in Spend PROVE SpendInv(a)'
    BY DEF SpendsInv
  <2>4. SpendInv(a) /\ SpendInv(s)
    BY DEF SpendsInv
  <2> QED BY <1>1, <2>1, <2>2, <2>3, <2>4 DEF SpendInv, HeldStages
<1>4. BuildsInv'
  BY <1>1, BuildsApart
<1> QED BY <1>2, <1>3, <1>4

LEMMA RefusesSpendKeepsInv ==
  ASSUME CountersInv, NEW s \in Spend, RefusesSpend(s)
  PROVE  CountersInv'
<1> USE DEF CountersInv
<1>1. /\ spend[s].stage \in HeldStages
      /\ spend' = [spend EXCEPT ![s].stage = "refused"]
      /\ claimed' \in {claimed, claimed \ {spend[s].answers}}
      /\ UNCHANGED <<counter, listvars>>
  BY DEF RefusesSpend, HeldStages
<1>2. CountersTypeOK'
  <2>1. spend' \in [Spend -> Spends]
    BY <1>1 DEF CountersTypeOK, Spends
  <2> QED BY <1>1, <2>1 DEF CountersTypeOK, listvars
<1>3. SpendsInv'
  <2>1. \A t \in Spend : t # s => spend'[t] = spend[t]
    BY <1>1 DEF CountersTypeOK
  <2>2. spend'[s].stage = "refused"
    BY <1>1 DEF CountersTypeOK, Spends
  <2> SUFFICES ASSUME NEW a \in Spend PROVE SpendInv(a)'
    BY DEF SpendsInv
  <2>3. CASE a = s
    BY <2>2, <2>3 DEF SpendInv, HeldStages
  <2>4. CASE a # s
    <3>1. SpendInv(a)
      BY DEF SpendsInv
    <3>2. spend[a].stage \in HeldStages /\ spend[a].answers # NoChallenge
            => spend[a].answers \in claimed'
      BY <1>1, <2>4, <3>1 DEF SpendInv
    <3>3. \A t \in Spend : t # a =>
            /\ {spend'[a].stage, spend'[t].stage} \subseteq HeldStages
                 => spend'[a].answers # spend'[t].answers \/ spend'[a].answers = NoChallenge
            /\ {spend'[a].stage, spend'[t].stage} \subseteq {"moved", "accepted"}
                 => spend'[a].count # spend'[t].count \/ spend'[a].count = 0
      <4> TAKE t \in Spend
      <4>1. CASE t = s
        BY <2>2, <4>1 DEF HeldStages
      <4>2. CASE t # s
        BY <2>1, <2>4, <3>1, <4>2 DEF SpendInv
      <4> QED BY <4>1, <4>2
    <3>4. spend'[a] = spend[a] /\ counter' = counter
      BY <1>1, <2>1, <2>4
    <3> QED BY <3>1, <3>2, <3>3, <3>4 DEF SpendInv
  <2> QED BY <2>3, <2>4
<1>4. BuildsInv'
  BY <1>1, BuildsApart
<1> QED BY <1>2, <1>3, <1>4

-----------------------------------------------------------------------------
(* The number of a list.                                                   *)

(* The number a list starts from is past 0.                                *)
LEMMA CrlNumberType ==
  ASSUME CountersTypeOK, NEW p \in Signer
  PROVE  CrlNumberAt(p) \in Nat /\ CrlNumberAt(p) > 0
<1>1. instant + Ahead[p] \in Nat /\ latest[p] + 1 \in Nat /\ latest[p] + 1 > 0
  BY CountersConstants DEF CountersTypeOK
<1> DEFINE max == Max({instant + Ahead[p], latest[p] + 1})
<1>2. max \in {instant + Ahead[p], latest[p] + 1} /\ max >= latest[p] + 1
  BY <1>1, instant + Ahead[p] \in Int, latest[p] + 1 \in Int, MaxOfTwo
<1>3. max \in Nat /\ max > 0
  BY <1>1, <1>2
<1> QED BY <1>3 DEF CrlNumberAt

(* The highest number signed so far is no higher than the counter.         *)
LEMMA SignedBelowCounter ==
  ASSUME CountersInv
  PROVE  LET above == Max({build[a].number : a \in SignedLists} \cup {0})
         IN  above \in Nat /\ (above <= counter["crl"] \/ above = 0)
<1> DEFINE T == {build[a].number : a \in SignedLists} \cup {0}
           top == IF counter["crl"] = Unset THEN 0 ELSE counter["crl"]
<1>1. top \in Nat /\ (top = counter["crl"] \/ top = 0) /\ counter["crl"] <= top
  BY DEF CountersInv, CountersTypeOK, Unset
<1> HIDE DEF top
<1>2. \A a \in SignedLists : build[a].number \in Nat /\ build[a].number <= top
  <2> TAKE a \in SignedLists
  <2>1. a \in Build /\ build[a].stage = "signed" /\ build[a] \in Builds
    BY DEF SignedLists, CountersInv, CountersTypeOK
  <2>2. build[a].number <= counter["crl"] /\ build[a].number \in Nat
    BY <2>1 DEF CountersInv, BuildsInv, BuildInv, Builds
  <2>3. counter["crl"] \in Int
    BY DEF CountersInv, CountersTypeOK, Unset
  <2> QED BY <1>1, <2>2, <2>3
<1>3. T \subseteq Nat /\ T \subseteq Int /\ T # {} /\ \A x \in T : x <= top
  BY <1>1, <1>2
<1> HIDE DEF T
<1>4. Max(T) \in T
  BY <1>1, <1>3, top \in Int, MaxIsGreatest
<1>5. Max(T) \in Nat /\ Max(T) <= top
  BY <1>3, <1>4
<1>6. Max(T) <= counter["crl"] \/ Max(T) = 0
  BY <1>1, <1>5
<1> QED BY <1>5, <1>6 DEF T

LEMMA RevokesKeepsInv ==
  ASSUME CountersInv, NEW c \in Serial, Revokes(c)
  PROVE  CountersInv'
<1>1. CountersTypeOK'
  BY DEF CountersInv, CountersTypeOK, Revokes, spendvars
<1>2. BuildsInv'
  BY DEF CountersInv, BuildsInv, BuildInv, Revokes
<1>3. SpendsInv'
  BY SpendsApart DEF CountersInv, Revokes
<1> QED BY <1>1, <1>2, <1>3 DEF CountersInv

LEMMA PassesKeepsInv ==
  ASSUME CountersInv, Passes
  PROVE  CountersInv'
<1>1. CountersTypeOK'
  BY DEF CountersInv, CountersTypeOK, Passes, spendvars
<1>2. BuildsInv'
  BY DEF CountersInv, BuildsInv, BuildInv, Passes
<1>3. SpendsInv'
  BY SpendsApart DEF CountersInv, Passes
<1> QED BY <1>1, <1>2, <1>3 DEF CountersInv

LEMMA BuildCrlKeepsInv ==
  ASSUME CountersInv, NEW b \in Build, NEW p \in Signer, BuildCrl(b, p)
  PROVE  CountersInv'
<1> DEFINE above == Max({build[a].number : a \in SignedLists} \cup {0})
           new == [stage |-> "asking", by |-> p, list |-> revoked,
                   number |-> CrlNumberAt(p), rounds |-> 0, above |-> above]
<1>1. above \in Nat /\ (above <= counter["crl"] \/ above = 0)
  BY SignedBelowCounter
<1> HIDE DEF above
<1>2. /\ build' = [build EXCEPT ![b] = new]
      /\ latest' = [latest EXCEPT ![p] = CrlNumberAt(p)]
      /\ UNCHANGED <<counter, spendvars, instant, revoked>>
  BY DEF BuildCrl, above
<1>3. CrlNumberAt(p) \in Nat /\ CrlNumberAt(p) > 0
  BY CrlNumberType DEF CountersInv
<1> USE DEF CountersInv
<1>4. CountersTypeOK'
  <2>1. new \in Builds
    BY <1>1, <1>3 DEF Builds, CountersTypeOK
  <2>2. build' \in [Build -> Builds] /\ latest' \in [Signer -> Nat]
    BY <1>2, <1>3, <2>1 DEF CountersTypeOK
  <2> QED BY <1>2, <2>2 DEF CountersTypeOK, spendvars
<1>5. BuildsInv'
  <2>1. \A a \in Build : build'[a] = IF a = b THEN new ELSE build[a]
    BY <1>2 DEF CountersTypeOK
  <2>2. new.stage = "asking" /\ new.number = CrlNumberAt(p) /\ new.above = above
    OBVIOUS
  <2> HIDE DEF new
  <2> QED BY <1>1, <1>2, <1>3, <2>1, <2>2 DEF BuildsInv, BuildInv
<1>6. SpendsInv'
  BY <1>2, SpendsApart
<1> QED BY <1>4, <1>5, <1>6

LEMMA AdvancesNumberKeepsInv ==
  ASSUME CountersInv, NEW b \in Build, AdvancesNumber(b)
  PROVE  CountersInv'
<1> USE DEF CountersInv
<1>1. PICK stage \in {"moved", "behind"} :
        /\ build' = [build EXCEPT ![b].stage = stage]
        /\ stage = "moved" => /\ counter["crl"] < build[b].number
                              /\ counter' = [counter EXCEPT !["crl"] = build[b].number]
        /\ stage = "behind" => counter' = counter
  BY DEF AdvancesNumber, Moves, Becoming
<1>2. build[b].stage = "asking" /\ UNCHANGED <<spendvars, instant, revoked, latest>>
  BY DEF AdvancesNumber
<1>3. build[b] \in Builds /\ build[b].number \in Nat
  BY DEF CountersTypeOK, Builds
<1>4. CountersTypeOK'
  <2>1. build' \in [Build -> Builds]
    BY <1>1, <1>3 DEF CountersTypeOK, Builds
  <2>2. counter' \in [{"factor", "crl"} -> Nat \cup {Unset}]
    BY <1>1, <1>3 DEF CountersTypeOK
  <2> QED BY <1>2, <2>1, <2>2 DEF CountersTypeOK, spendvars
<1>5. BuildsInv'
  <2>1. \A a \in Build : a # b => build'[a] = build[a]
    BY <1>1 DEF CountersTypeOK
  <2>2. /\ build'[b].stage = stage /\ build'[b].number = build[b].number
        /\ build'[b].above = build[b].above
    BY <1>1, <1>3 DEF CountersTypeOK, Builds
  <2>3. counter["crl"] \in Int /\ counter'["crl"] \in Int
        /\ counter["crl"] <= counter'["crl"]
        /\ (stage = "moved" => counter'["crl"] = build[b].number /\ counter["crl"] < build[b].number)
    BY <1>1, <1>3 DEF CountersTypeOK, Unset
  <2>4. \A a \in Build : build[a].above \in Nat /\ build[a].number \in Nat
    BY DEF CountersTypeOK, Builds
  <2> SUFFICES ASSUME NEW a \in Build PROVE BuildInv(a)'
    BY DEF BuildsInv
  <2>5. BuildInv(a) /\ BuildInv(b)
    BY DEF BuildsInv
  <2>6. \A t \in Build : {build[t].stage} \subseteq {"moved", "signed"}
                           => build[t].number <= counter["crl"]
    BY DEF BuildsInv, BuildInv
  <2>7. CASE a = b
    BY <1>2, <2>1, <2>2, <2>3, <2>4, <2>5, <2>6, <2>7 DEF BuildInv
  <2>8. CASE a # b
    BY <1>2, <2>1, <2>2, <2>3, <2>4, <2>5, <2>6, <2>8 DEF BuildInv
  <2> QED BY <2>7, <2>8
<1>6. SpendsInv'
  BY <1>1, <1>2, SpendsApart DEF CountersTypeOK
<1> QED BY <1>4, <1>5, <1>6

(* The record of a build that asks again.                                  *)
RoundOf(r, rounds, number) ==
  [r EXCEPT !.stage = "asking", !.rounds = rounds, !.number = number]

LEMMA NextRound ==
  ASSUME NEW r \in Builds, NEW rounds \in Nat, NEW number \in Nat
  PROVE  /\ RoundOf(r, rounds, number) \in Builds
         /\ RoundOf(r, rounds, number).stage = "asking"
         /\ RoundOf(r, rounds, number).number = number
         /\ RoundOf(r, rounds, number).above = r.above
<1>1. RoundOf(r, rounds, number) \in Builds
  BY DEF Builds, RoundOf
<1>2. RoundOf(r, rounds, number).stage = "asking"
  BY DEF Builds, RoundOf
<1>3. RoundOf(r, rounds, number).number = number
  BY DEF Builds, RoundOf
<1>4. RoundOf(r, rounds, number).above = r.above
  BY DEF Builds, RoundOf
<1> QED BY <1>1, <1>2, <1>3, <1>4

LEMMA AsksAgainKeepsInv ==
  ASSUME CountersInv, NEW b \in Build, AsksAgain(b)
  PROVE  CountersInv'
<1> USE DEF CountersInv
<1> DEFINE number == Max({build[b].number, counter["crl"] + 1})
           again == RoundOf(build[b], build[b].rounds + 1, number)
           new == IF build[b].rounds + 1 = MaxRounds THEN NoBuild("unsigned") ELSE again
<1>1. /\ build[b].stage = "behind"
      /\ build' = [build EXCEPT ![b] = new]
      /\ UNCHANGED <<counter, spendvars, instant, revoked, latest>>
  BY DEF AsksAgain, RoundOf
<1>2. build[b] \in Builds /\ build[b].number \in Nat /\ build[b].rounds \in Nat
  BY DEF CountersTypeOK, Builds
<1>3. number \in Nat /\ number >= build[b].number
  <2>1. counter["crl"] + 1 \in Nat
    BY DEF CountersTypeOK, Unset
  <2>2. number \in {build[b].number, counter["crl"] + 1} /\ number >= build[b].number
    BY <1>2, <2>1, build[b].number \in Int, counter["crl"] + 1 \in Int, MaxOfTwo
  <2> QED BY <1>2, <2>1, <2>2
<1> HIDE DEF number
<1>4. /\ new \in Builds
      /\ \/ new.stage = "unsigned"
         \/ new.stage = "asking" /\ new.number = number /\ new.above = build[b].above
  <2>1. NoBuild("unsigned") \in Builds /\ NoBuild("unsigned").stage = "unsigned"
    BY CountersConstants DEF Builds, NoBuild
  <2>2. /\ again \in Builds /\ again.stage = "asking" /\ again.number = number
        /\ again.above = build[b].above
    <3>1. build[b].rounds + 1 \in Nat
      BY <1>2
    <3>2. build[b] \in Builds /\ number \in Nat
      BY <1>2, <1>3
    <3> QED BY <3>1, <3>2, NextRound, Zenon
  <2> HIDE DEF again
  <2> QED BY <2>1, <2>2
<1> HIDE DEF new
<1>5. CountersTypeOK'
  <2>1. build' \in [Build -> Builds]
    BY <1>1, <1>4 DEF CountersTypeOK
  <2> QED BY <1>1, <2>1 DEF CountersTypeOK, spendvars
<1>6. BuildsInv'
  <2>1. \A a \in Build : build'[a] = IF a = b THEN new ELSE build[a]
    BY <1>1 DEF CountersTypeOK
  <2> QED BY <1>1, <1>2, <1>3, <1>4, <2>1 DEF BuildsInv, BuildInv
<1>7. SpendsInv'
  BY <1>1, SpendsApart
<1> QED BY <1>5, <1>6, <1>7

LEMMA SignsListKeepsInv ==
  ASSUME CountersInv, NEW b \in Build, SignsList(b)
  PROVE  CountersInv'
<1> USE DEF CountersInv
<1> DEFINE p == build[b].by
<1>1. /\ build[b].stage = "moved"
      /\ build' = [build EXCEPT ![b].stage = "signed"]
      /\ latest' = [latest EXCEPT ![p] = Max({@, build[b].number})]
      /\ UNCHANGED <<counter, spendvars, instant, revoked>>
  BY DEF SignsList, Becoming
<1>2. build[b] \in Builds /\ build[b].number \in Nat /\ p \in Signer
  BY DEF CountersTypeOK, Builds
<1>3. CountersTypeOK'
  <2>1. Max({latest[p], build[b].number}) \in Nat
    BY <1>2, latest[p] \in Nat, latest[p] \in Int, build[b].number \in Int, MaxOfTwo
       DEF CountersTypeOK
  <2>2. latest' \in [Signer -> Nat]
    BY <1>1, <2>1 DEF CountersTypeOK
  <2>3. build' \in [Build -> Builds]
    BY <1>1, <1>2 DEF CountersTypeOK, Builds
  <2> QED BY <1>1, <2>2, <2>3 DEF CountersTypeOK, spendvars
<1>4. BuildsInv'
  <2>1. \A a \in Build : a # b => build'[a] = build[a]
    BY <1>1 DEF CountersTypeOK
  <2>2. /\ build'[b].stage = "signed" /\ build'[b].number = build[b].number
        /\ build'[b].above = build[b].above
    BY <1>1, <1>2 DEF CountersTypeOK, Builds
  <2> QED BY <1>1, <2>1, <2>2 DEF BuildsInv, BuildInv
<1>5. SpendsInv'
  BY <1>1, SpendsApart
<1> QED BY <1>3, <1>4, <1>5

LEMMA SignsNothingKeepsInv ==
  ASSUME CountersInv, NEW b \in Build, SignsNothing(b)
  PROVE  CountersInv'
<1> USE DEF CountersInv
<1>1. /\ build' = [build EXCEPT ![b] = NoBuild("unsigned")]
      /\ UNCHANGED <<counter, spendvars, instant, revoked, latest>>
  BY DEF SignsNothing
<1>2. NoBuild("unsigned") \in Builds /\ NoBuild("unsigned").stage = "unsigned"
  BY CountersConstants DEF Builds, NoBuild
<1>3. CountersTypeOK'
  <2>1. build' \in [Build -> Builds]
    BY <1>1, <1>2 DEF CountersTypeOK
  <2> QED BY <1>1, <2>1 DEF CountersTypeOK, spendvars
<1>4. BuildsInv'
  <2>1. \A a \in Build : build'[a] = IF a = b THEN NoBuild("unsigned") ELSE build[a]
    BY <1>1 DEF CountersTypeOK
  <2> QED BY <1>1, <1>2, <2>1 DEF BuildsInv, BuildInv
<1>5. SpendsInv'
  BY <1>1, SpendsApart
<1> QED BY <1>3, <1>4, <1>5

LEMMA RestartsKeepsInv ==
  ASSUME CountersInv, NEW p \in Signer, Restarts(p)
  PROVE  CountersInv'
<1> USE DEF CountersInv
<1>1. /\ latest' = [latest EXCEPT ![p] = 0]
      /\ DOMAIN build' = Build
      /\ build' = [b \in Build |-> build'[b]]
      /\ \A b \in Build : build'[b] \in {build[b], NoBuild("unsigned")}
      /\ UNCHANGED <<counter, spendvars, instant, revoked>>
  BY DEF Restarts
<1>2. NoBuild("unsigned") \in Builds /\ NoBuild("unsigned").stage = "unsigned"
  BY CountersConstants DEF Builds, NoBuild
<1>3. CountersTypeOK'
  <2>1. build' \in [Build -> Builds]
    BY <1>1, <1>2 DEF CountersTypeOK
  <2>2. latest' \in [Signer -> Nat]
    BY <1>1 DEF CountersTypeOK
  <2> QED BY <1>1, <2>1, <2>2 DEF CountersTypeOK, spendvars
<1>4. BuildsInv'
  BY <1>1, <1>2 DEF BuildsInv, BuildInv
<1>5. SpendsInv'
  BY <1>1, SpendsApart
<1> QED BY <1>3, <1>4, <1>5

-----------------------------------------------------------------------------
(* Every step keeps the invariant.                                         *)

LEMMA CountersStepInv == CountersInv /\ [CountersNext]_countvars => CountersInv'
<1> SUFFICES ASSUME CountersInv, [CountersNext]_countvars PROVE CountersInv'
  OBVIOUS
<1>1. ASSUME NEW s \in Spend, SpendStep(s) PROVE CountersInv'
  BY <1>1, PresentsKeepsInv, AdvancesKeepsInv, AcceptsKeepsInv, RefusesSpendKeepsInv
     DEF SpendStep
<1>2. ASSUME NEW b \in Build, ListStep(b) PROVE CountersInv'
  BY <1>2, BuildCrlKeepsInv, AdvancesNumberKeepsInv, AsksAgainKeepsInv, SignsListKeepsInv,
     SignsNothingKeepsInv DEF ListStep
<1>3. ASSUME ListsNext PROVE CountersInv'
  BY <1>2, <1>3, RevokesKeepsInv, RestartsKeepsInv, PassesKeepsInv DEF ListsNext
<1>4. CASE UNCHANGED countvars
  BY <1>4, SpendsApart, BuildsApart
     DEF CountersInv, CountersTypeOK, countvars, spendvars, listvars
<1> QED BY <1>1, <1>3, <1>4 DEF CountersNext

LEMMA CountersAlways == CountersSpec => []CountersInv
BY CountersInitInv, CountersStepInv, PTL DEF CountersSpec

(* The counters, the factors and the lists keep their types, for any       *)
(* number of them and however the answers are lost.                        *)
THEOREM CountersTyping == CountersSpec => []CountersTypeOK
BY CountersAlways, PTL DEF CountersInv

(* A code or an assertion is accepted once: never twice, never at or below *)
(* one accepted when it was presented, whoever presents it to whichever    *)
(* process and whichever answer of the store is lost (verifyTotpAsync,     *)
(* spendAssertion).                                                        *)
THEOREM FactorsSpentOnce == CountersSpec => []SpentOnce
<1>1. CountersInv => SpentOnce
  <2> SUFFICES ASSUME CountersInv PROVE SpentOnce
    OBVIOUS
  <2>1. \A s \in Accepted : s \in Spend /\ spend[s].stage = "accepted" /\ SpendInv(s)
                            /\ spend[s].above \in Int /\ spend[s].count \in Nat
    BY CountersConstants DEF Accepted, CountersInv, SpendsInv, CountersTypeOK, Spends
  <2>2. \A s \in Accepted : \/ spend[s].count > spend[s].above
                            \/ spend[s].count = 0 /\ spend[s].above <= 0
    BY <2>1 DEF SpendInv
  <2>3. ASSUME NEW s \in Accepted, NEW t \in Accepted, s # t, spend[s].count = spend[t].count
        PROVE  spend[s].count = 0 /\ spend[s].answers # spend[t].answers
    BY <2>1, <2>3 DEF SpendInv, HeldStages
  <2> QED BY <2>2, <2>3 DEF SpentOnce
<1> QED BY <1>1, CountersAlways, PTL

(* No two lists of an authority are signed under one number, and a list    *)
(* begun after another was signed has the higher one, whatever the clocks  *)
(* of the processes and though they start again (agreedCrlNumber).         *)
THEOREM ListNumbersAgreed == CountersSpec => []ListsNumbered
<1>1. CountersInv => ListsNumbered
  <2> SUFFICES ASSUME CountersInv PROVE ListsNumbered
    OBVIOUS
  <2>1. \A b \in SignedLists : b \in Build /\ build[b].stage = "signed" /\ BuildInv(b)
                               /\ build[b].above \in Nat /\ build[b].number \in Nat
    BY DEF SignedLists, CountersInv, BuildsInv, CountersTypeOK, Builds
  <2> QED BY <2>1 DEF BuildInv, ListsNumbered
<1> QED BY <1>1, CountersAlways, PTL
=============================================================================
