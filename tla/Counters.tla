------------------------------ MODULE Counters -----------------------------
(***************************************************************************)
(* The counters of cluster/cluster_counters.js that only go up, one row    *)
(* each of sts_cluster_counters, and the two kinds of caller that decide   *)
(* on them:                                                                *)
(*   - a second factor spent once: the step of a one-time code, or the     *)
(*     signature count of a security key whose challenge is claimed first  *)
(*     (common/credentials.js);                                            *)
(*   - the number of a certificate revocation list, taken from the clock   *)
(*     and agreed in the store while the list is being built               *)
(*     (common/pki_revocation.js).                                         *)
(* advance() is one conditional upsert, and when it moved nothing a second *)
(* statement that reads where the counter is.  Either answer may be lost.  *)
(*                                                                         *)
(* Without a shared store advance() is the same decision on a Map of the   *)
(* process, taken in one step.                                             *)
(***************************************************************************)
EXTENDS Integers

LOCAL INSTANCE FiniteSetsExt   \* Max

CONSTANTS Spend,       \* the one-time codes and assertions presented
          Challenge,   \* the challenges a security key answers
          NoChallenge, \* a one-time code answers none
          MaxCount,    \* bound of the model: steps and counts are 0..MaxCount
          Signer,      \* processes that sign the lists of one authority
          Build,       \* builds of its list
          Serial,      \* serials that may be revoked
          Ahead,       \* Ahead[p]: how far p's clock is ahead
          MaxRounds,   \* the attempts agreedCrlNumber makes
          MaxInstant   \* bound of the model: the last instant

ASSUME CountersConstants ==
  /\ NoChallenge \notin Challenge
  /\ MaxCount \in Nat /\ MaxRounds \in Nat /\ MaxInstant \in Nat
  /\ Signer # {} /\ Ahead \in [Signer -> Nat]

VARIABLES counter,   \* counter[k]: the row of k, or Unset
          claimed,   \* the challenges claimed
          spend,     \* spend[s]: where the spending of s is
          instant,   \* the time
          revoked,   \* the serials on the authority's register
          latest,    \* latest[p]: p's lastCrlNumbers of the authority
          build      \* build[b]: where the build b is

spendvars == <<claimed, spend>>
listvars == <<instant, revoked, latest, build>>
countvars == <<counter, spendvars, listvars>>

Unset == -1

Spends == [stage : {"new", "asking", "moved", "behind", "accepted", "refused"},
           count : 0..MaxCount, answers : Challenge \cup {NoChallenge},
           above : Int]     \* the highest count accepted when it was presented

Builds == [stage : {"new", "asking", "moved", "behind", "signed", "unsigned"},
           by : Signer, list : SUBSET Serial, number : Nat, rounds : Nat,
           above : Nat]     \* the highest number signed when it began

(* A build not begun, or ended with nothing signed.                        *)
NoBuild(stage) == [stage |-> stage, by |-> CHOOSE p \in Signer : TRUE,
                   list |-> {}, number |-> 0, rounds |-> 0, above |-> 0]

CountersTypeOK ==
  /\ counter \in [{"factor", "crl"} -> Nat \cup {Unset}]
  /\ claimed \subseteq Challenge
  /\ spend \in [Spend -> Spends]
  /\ instant \in Nat /\ revoked \subseteq Serial /\ latest \in [Signer -> Nat]
  /\ build \in [Build -> Builds]

CountersInit ==
  /\ counter = [k \in {"factor", "crl"} |-> Unset]
  /\ claimed = {}
  /\ spend = [s \in Spend |-> [stage |-> "new", count |-> 0,
                               answers |-> NoChallenge, above |-> Unset]]
  /\ instant = 1 /\ revoked = {} /\ latest = [p \in Signer |-> 0]
  /\ build = [b \in Build |-> NoBuild("new")]

-----------------------------------------------------------------------------
(* advance().                                                              *)

MovesAtLeast(k, value) == counter[k] <= value   \* mutant: <= for <

(* The row's condition: absent, or below the value.                        *)
Moves(k, value) == counter[k] < value

AnyZero(k, value) == value = 0         \* mutant: zero is good wherever the counter is

(* verdictOf(), when the upsert moved nothing and the second statement has *)
(* said where the counter is: good only for a counter that is always zero. *)
AlwaysZero(k, value) == value = 0 /\ counter[k] = 0

-----------------------------------------------------------------------------
(* A second factor, spent once.                                            *)

Accepted == {s \in Spend : spend[s].stage = "accepted"}

(* A code or an assertion has verified; its count is whatever the one who  *)
(* presents it has.  A step is never 0, and every code of one step is one. *)
Presents(s, count, answers) ==
  /\ spend[s].stage = "new"
  /\ answers = NoChallenge => count > 0
  /\ spend' = [spend EXCEPT ![s] =
       [stage |-> IF answers \in claimed THEN "refused" ELSE "asking",
        count |-> count, answers |-> answers,
        above |-> Max({spend[t].count : t \in Accepted} \cup {Unset})]]
  /\ claimed' = (claimed \cup {answers}) \cap Challenge
  /\ UNCHANGED <<counter, listvars>>

(* The upsert.                                                             *)
Advances(s) ==
  /\ spend[s].stage = "asking"
  /\ \/ /\ Moves("factor", spend[s].count)
        /\ counter' = [counter EXCEPT !["factor"] = spend[s].count]
        /\ spend' = [spend EXCEPT ![s].stage = "moved"]
     \/ /\ ~Moves("factor", spend[s].count)
        /\ spend' = [spend EXCEPT ![s].stage = "behind"]
        /\ UNCHANGED counter
  /\ UNCHANGED <<claimed, listvars>>

Accepts(s) ==
  /\ \/ spend[s].stage = "moved"
     \/ spend[s].stage = "behind" /\ AlwaysZero("factor", spend[s].count)
  /\ spend' = [spend EXCEPT ![s].stage = "accepted"]
  /\ UNCHANGED <<counter, claimed, listvars>>

(* The count is not above the highest, or the store could not be asked -   *)
(* the upsert ran or did not.  The challenge is given back, unless the     *)
(* store does not hear of that either.                                     *)
RefusesSpend(s) ==
  /\ spend[s].stage \in {"asking", "moved", "behind"}
  /\ spend' = [spend EXCEPT ![s].stage = "refused"]
  /\ claimed' \in {claimed, claimed \ {spend[s].answers}}
  /\ UNCHANGED <<counter, listvars>>

-----------------------------------------------------------------------------
(* The number of a revocation list.                                        *)

SignedLists == {b \in Build : build[b].stage = "signed"}

Becoming(b, stage) == build' = [build EXCEPT ![b].stage = stage]

Revokes(c) == /\ c \notin revoked
              /\ revoked' = revoked \cup {c}
              /\ UNCHANGED <<counter, spendvars, instant, latest, build>>

(* crlNumberAt(): the clock, forced above what this process has used.      *)
CrlNumberAt(p) == Max({instant + Ahead[p], latest[p] + 1})

(* buildCrl() reads the register and takes a number before it waits.       *)
BuildCrl(b, p) ==
  /\ build[b].stage = "new"
  /\ build' = [build EXCEPT ![b] =
       [stage |-> "asking", by |-> p, list |-> revoked,
        number |-> CrlNumberAt(p), rounds |-> 0,
        above |-> Max({build[a].number : a \in SignedLists} \cup {0})]]
  /\ latest' = [latest EXCEPT ![p] = CrlNumberAt(p)]
  /\ UNCHANGED <<counter, spendvars, instant, revoked>>

(* The upsert of one round of agreedCrlNumber().                           *)
AdvancesNumber(b) ==
  /\ build[b].stage = "asking"
  /\ \/ /\ Moves("crl", build[b].number)
        /\ counter' = [counter EXCEPT !["crl"] = build[b].number]
        /\ Becoming(b, "moved")
     \/ /\ ~Moves("crl", build[b].number)
        /\ Becoming(b, "behind")
        /\ UNCHANGED counter
  /\ UNCHANGED <<spendvars, instant, revoked, latest>>

(* Overtaken: the next round asks for a number past the highest, and after *)
(* the last round nothing is signed.                                       *)
AsksAgain(b) ==
  /\ build[b].stage = "behind"
  /\ build' = [build EXCEPT ![b] =
       IF @.rounds + 1 = MaxRounds THEN NoBuild("unsigned")
       ELSE [@ EXCEPT !.stage = "asking", !.rounds = build[b].rounds + 1,
                      !.number = Max({build[b].number, counter["crl"] + 1})]]
  /\ UNCHANGED <<counter, spendvars, instant, revoked, latest>>

(* The number is agreed, and the list read at the start is signed under it.*)
SignsList(b) ==
  /\ build[b].stage = "moved"
  /\ Becoming(b, "signed")
  /\ latest' = [latest EXCEPT ![build[b].by] = Max({@, build[b].number})]
  /\ UNCHANGED <<counter, spendvars, instant, revoked>>

(* The store could not be asked, or the key could not be used: nothing is  *)
(* signed, whatever the counter has become.                                *)
SignsNothing(b) ==
  /\ build[b].stage \in {"asking", "moved", "behind"}
  /\ build' = [build EXCEPT ![b] = NoBuild("unsigned")]
  /\ UNCHANGED <<counter, spendvars, instant, revoked, latest>>

(* A process starts again with none of what it kept in memory.             *)
Restarts(p) ==
  /\ latest[p] > 0
  /\ latest' = [latest EXCEPT ![p] = 0]
  /\ build' = [b \in Build |->
       IF build[b].by = p /\ build[b].stage \in {"asking", "moved", "behind"}
       THEN NoBuild("unsigned") ELSE build[b]]
  /\ UNCHANGED <<counter, spendvars, instant, revoked>>

Passes == /\ instant < MaxInstant
          /\ instant' = instant + 1
          /\ UNCHANGED <<counter, spendvars, revoked, latest, build>>

-----------------------------------------------------------------------------
SpendStep(s) ==
  \/ \E count \in 0..MaxCount, answers \in Challenge \cup {NoChallenge} :
       Presents(s, count, answers)
  \/ Advances(s) \/ Accepts(s) \/ RefusesSpend(s)

ListStep(b) ==
  \/ \E p \in Signer : BuildCrl(b, p)
  \/ AdvancesNumber(b) \/ AsksAgain(b) \/ SignsList(b) \/ SignsNothing(b)

ListsNext == \/ \E b \in Build : ListStep(b)
             \/ \E c \in Serial : Revokes(c)
             \/ \E p \in Signer : Restarts(p)
             \/ Passes

CountersNext == (\E s \in Spend : SpendStep(s)) \/ ListsNext

CountersSpec == CountersInit /\ [][CountersNext]_countvars

-----------------------------------------------------------------------------
(* Properties.                                                             *)

(* However many processes present them and whichever answers are lost: no  *)
(* code and no assertion is accepted twice, none at or below one accepted  *)
(* when it was presented, and a count that never moves from 0 is accepted  *)
(* once for each challenge (verifyTotpAsync and spendAssertion).           *)
SpentOnce ==
  /\ \A s \in Accepted : \/ spend[s].count > spend[s].above
                         \/ spend[s].count = 0 /\ spend[s].above <= 0
  /\ \A s, t \in Accepted : s # t /\ spend[s].count = spend[t].count
       => spend[s].count = 0 /\ spend[s].answers # spend[t].answers

(* Whatever the clocks of the processes, and though they forget what they  *)
(* signed: no two lists of one authority share a number, and a list begun  *)
(* after another was signed has the higher one (agreedCrlNumber).          *)
ListsNumbered ==
  /\ \A b \in SignedLists : build[b].number > build[b].above
  /\ \A a, b \in SignedLists : a # b => build[a].number # build[b].number

(* What pki_revocation.js:917 says the number is for: the list with the    *)
(* higher number is the newer one, and has every revocation of the other.  *)
NewerListHigher == \A a, b \in SignedLists :
  build[a].number < build[b].number => build[a].list \subseteq build[b].list
=============================================================================
