---------------------------- MODULE TokenGrants -----------------------------
(***************************************************************************)
(* The token endpoint's two single-use grants, oauth-oidc/oauth2.js and    *)
(* oauth2_bcp.js, on several servers at once: an authorization code and    *)
(* the chain of refresh tokens that descends from it, one authorization.   *)
(*                                                                         *)
(* A request is caught up with the store when it arrives, makes its checks *)
(* on the memory of its server, spends what it presents through a claim,   *)
(* mints, signs, records what was spent, and is answered when its writes   *)
(* have committed.  With RFC 9700 mode on (strict) a refresh token is      *)
(* rotated and whatever is presented twice is revoked with what it bought; *)
(* with it off a refresh token may be used again and a code presented      *)
(* again is answered with the tokens it already bought.                    *)
(*                                                                         *)
(* Expiry is left out: Claims shows a claim outlives what it guards.       *)
(* The rows of sts_minted are facts that are only ever added, as their     *)
(* tombstones and merges make them (Minted).                               *)
(***************************************************************************)
EXTENDS Integers, FiniteSets

CONSTANTS Server, Request,
          MaxTokens,   \* bounds of the model: refresh tokens,
          MaxFaults    \*   late barriers, lost answers, failed commits, crashes

ASSUME GrantConstants ==
  MaxTokens \in Nat \ {0} /\ MaxFaults \in Nat /\ {"nobody", "before"} \cap Request = {}

VARIABLES strict,    \* RFC 9700 mode
          family,    \* family[t]: the family the refresh token t carries
          facts,     \* facts[n]: the rows server n has in memory
          db,        \* the rows committed
          spent,     \* spent[t]: who holds the claim oauth.code or oauth.refresh on t
          barred,    \* families claimed in oauth.refresh-family-revoked
          grant,     \* grant[r]: where the request r is
          faults,
          given,     \* refresh tokens clients hold
          exposed    \* tokens a replay's answer said are revoked (history)

gvars == <<strict, family, facts, db, spent, barred, grant, faults, given, exposed>>

Code == 0
Token == 1..MaxTokens          \* refresh tokens, in the order they are minted
Nobody == "nobody"
Before == "before"              \* a request that was answered before the start

(* A code that was issued, a redemption and the token it bought, a refresh *)
(* token's record, its rotation, and a revoked identifier.                 *)
Issued == <<"issued", Code>>
Used == <<"used", Code>>
Redeemed(c) == <<"redeemed", c>>
Record(t) == <<"record", t>>
Rotated(t) == <<"rotated", t>>
Revoked(t) == <<"revoked", t>>
Facts == {Issued, Used} \cup {Redeemed(t) : t \in Token} \cup {Record(t) : t \in Token}
         \cup {Rotated(t) : t \in Token} \cup {Revoked(t) : t \in Token}

MintedTokens == {t \in Token : family[t] # 0}

Running == {"arrived", "asking", "spending", "minting", "signing", "held",
            "waiting", "marking", "failed"}
GrantStages == Running \cup {"new", "done", "refused", "over"}

NewRequest == [stage |-> "new", at |-> Nobody, token |-> Code, child |-> 0, owes |-> {},
               late |-> FALSE, gone |-> FALSE, copy |-> FALSE, exposed |-> FALSE]
Over == [NewRequest EXCEPT !.stage = "over"]

GrantTypeOK ==
  /\ strict \in BOOLEAN
  /\ family \in [Token -> 0..MaxTokens]
  /\ facts \in [Server -> SUBSET Facts]
  /\ db \subseteq Facts
  /\ spent \in [0..MaxTokens -> Request \cup {Nobody, Before}]
  /\ barred \subseteq Token /\ given \subseteq Token
  /\ faults \in Nat /\ exposed \subseteq 0..MaxTokens
  /\ \A r \in Request :
       /\ grant[r].stage \in GrantStages /\ grant[r].token \in 0..MaxTokens
       /\ grant[r].stage \in {"signing", "held", "done"} => grant[r].child \in Token
       /\ grant[r].stage = "signing" => Record(grant[r].child) \in facts[grant[r].at]

(* A code was issued by a server, and answered; or it was redeemed there,  *)
(* for the token 1, some time ago.                                         *)
CodeIssued == /\ db = {Issued} /\ given = {}
              /\ family = [t \in Token |-> 0]

CodeRedeemed == /\ db = {Issued, Used, Redeemed(1), Record(1)} /\ given = {1}
                /\ family = [t \in Token |-> IF t = 1 THEN 1 ELSE 0]

GrantInit ==
  /\ strict \in BOOLEAN
  /\ CodeIssued \/ CodeRedeemed
  /\ \E n \in Server : facts = [m \in Server |-> IF m = n THEN db ELSE {}]
  /\ spent = [t \in 0..MaxTokens |-> IF t = Code /\ given # {} THEN Before ELSE Nobody]
  /\ barred = {}
  /\ grant = [r \in Request |-> NewRequest]
  /\ faults = 0 /\ exposed = {}

At(r) == grant[r].at
Presents(r) == grant[r].token
Stage(r) == grant[r].stage
Goes(r, stage) == grant' = [grant EXCEPT ![r].stage = stage]
Known(r) == facts[At(r)]
FamilyOf(r) == family[Presents(r)]

(* The request writes rows, goes on to a stage and owes their commit.      *)
WritesRows(r, rows, stage) ==
  /\ facts' = [facts EXCEPT ![At(r)] = @ \cup rows]
  /\ grant' = [grant EXCEPT ![r].stage = stage, ![r].owes = @ \cup rows]

Delivered(t) == {r \in Request : Stage(r) = "done" /\ Presents(r) = t}

-----------------------------------------------------------------------------
(* A request arrives with the code, or with a refresh token a client got.  *)

Comes(r, n, t, isLate) ==
  /\ Stage(r) = "new"
  /\ t \in given \cup {Code}
  /\ grant' = [grant EXCEPT ![r].stage = "arrived", ![r].at = n, ![r].token = t,
                  ![r].late = isLate, ![r].copy = Delivered(t) # {},
                  ![r].exposed = t \in exposed]

(* The read barrier: the server has what had committed.                    *)
Arrives(r, n, t) ==
  /\ Comes(r, n, t, FALSE)
  /\ facts' = [facts EXCEPT ![n] = @ \cup db]
  /\ UNCHANGED <<strict, family, db, spent, barred, faults, given, exposed>>

(* The barrier ran out of time, and the request is served.                 *)
ArrivesLate(r, n, t) ==
  /\ Comes(r, n, t, TRUE)
  /\ faults < MaxFaults /\ faults' = faults + 1
  /\ UNCHANGED <<strict, family, facts, db, spent, barred, given, exposed>>

-----------------------------------------------------------------------------
(* The code grant.                                                         *)

HasCode(r) == Issued \in Known(r) /\ Used \notin Known(r)
Purchases(r) == {c \in Token : Redeemed(c) \in Known(r)}

CodeFound(r) ==
  /\ Stage(r) = "arrived" /\ Presents(r) = Code /\ HasCode(r)
  /\ Goes(r, "asking")
  /\ UNCHANGED <<strict, family, facts, db, spent, barred, faults, given, exposed>>

(* replayOrRefuseRedemption, for a code that is not held, and for the      *)
(* loser of a race once the winner's record is there.                      *)
CodeReplayed(r) ==
  /\ Presents(r) = Code
  /\ (Stage(r) = "arrived" /\ ~HasCode(r)) \/ Stage(r) = "waiting"
  /\ \E c \in Purchases(r) :
       \/ strict /\ WritesRows(r, {Revoked(c)}, "refused")
       \/ /\ ~strict /\ grant' = [grant EXCEPT ![r].stage = "held", ![r].child = c]
          /\ UNCHANGED facts
  /\ UNCHANGED <<strict, family, db, spent, barred, faults, given, exposed>>

CodeUnknown(r) ==
  /\ Stage(r) = "arrived" /\ Presents(r) = Code /\ ~HasCode(r) /\ Purchases(r) = {}
  /\ Goes(r, "refused")
  /\ UNCHANGED <<strict, family, facts, db, spent, barred, faults, given, exposed>>

(* awaitRedemptionRecord: the loser pulls until the record is there.       *)
Pulls(r) ==
  /\ Stage(r) = "waiting"
  /\ ~(db \subseteq Known(r))
  /\ facts' = [facts EXCEPT ![At(r)] = @ \cup db]
  /\ UNCHANGED <<strict, family, db, spent, barred, grant, faults, given, exposed>>

StopsWaiting(r) ==
  /\ Stage(r) = "waiting" /\ Purchases(r) = {}
  /\ Goes(r, "refused")
  /\ UNCHANGED <<strict, family, facts, db, spent, barred, faults, given, exposed>>

-----------------------------------------------------------------------------
(* The refresh grant.                                                      *)

(* membersOf: the tokens this server has a record of in the family of t.   *)
Members(r) == {t \in Token : Record(t) \in Known(r) /\ family[t] = FamilyOf(r)}
              \cup {Presents(r)}

RevokesMembers(r, stage) == WritesRows(r, {Revoked(t) : t \in Members(r)}, stage)

(* checkRefreshRequest: a rotated token is a replay, whatever else it is.  *)
RefreshReplayed(r) ==
  /\ Stage(r) = "arrived" /\ Presents(r) # Code /\ strict
  /\ Rotated(Presents(r)) \in Known(r)
  /\ RevokesMembers(r, "marking")
  /\ UNCHANGED <<strict, family, db, spent, barred, faults, given, exposed>>

IsRevoked(r) == Revoked(Presents(r)) \in Known(r)

RefreshRevoked(r) ==
  /\ Stage(r) = "arrived" /\ Presents(r) # Code
  /\ ~(strict /\ Rotated(Presents(r)) \in Known(r)) /\ IsRevoked(r)
  /\ Goes(r, "refused")
  /\ UNCHANGED <<strict, family, facts, db, spent, barred, faults, given, exposed>>

(* With the mode off there is nothing to spend.                            *)
RefreshPasses(r) ==
  /\ Stage(r) = "arrived" /\ Presents(r) # Code
  /\ ~(strict /\ Rotated(Presents(r)) \in Known(r)) /\ ~IsRevoked(r)
  /\ Goes(r, IF strict THEN "asking" ELSE "minting")
  /\ UNCHANGED <<strict, family, facts, db, spent, barred, faults, given, exposed>>

(* spendRefreshToken asks whether the family was revoked by id, and then   *)
(* claims the token: two statements.                                       *)
FamilyBarred(r) ==
  /\ Stage(r) = "asking" /\ Presents(r) # Code /\ FamilyOf(r) \in barred
  /\ RevokesMembers(r, "refused")
  /\ UNCHANGED <<strict, family, db, spent, barred, faults, given, exposed>>

FamilyClear(r) ==
  /\ Stage(r) = "asking" /\ Presents(r) # Code /\ FamilyOf(r) \notin barred
  /\ Goes(r, "spending")
  /\ UNCHANGED <<strict, family, facts, db, spent, barred, faults, given, exposed>>

(* revokeFamily, for every server at once.                                 *)
Marks(r) ==
  /\ Stage(r) = "marking"
  /\ barred' = barred \cup {FamilyOf(r)}
  /\ Goes(r, "refused")
  /\ UNCHANGED <<strict, family, facts, db, spent, faults, given, exposed>>

-----------------------------------------------------------------------------
(* Spending, minting and answering, for both grants.                       *)

Spending(r) == \/ Stage(r) = "asking" /\ Presents(r) = Code
               \/ Stage(r) = "spending"

UnspentAlways(t) == TRUE               \* mutant: nothing is claimed
Unspent(t) == spent[t] = Nobody

Spends(r) ==
  /\ Spending(r) /\ Unspent(Presents(r))
  /\ spent' = [spent EXCEPT ![Presents(r)] = r]
  /\ Goes(r, "minting")
  /\ UNCHANGED <<strict, family, facts, db, barred, faults, given, exposed>>

AlreadySpent(r) ==
  /\ Spending(r) /\ ~Unspent(Presents(r))
  /\ IF Presents(r) = Code THEN Goes(r, "waiting") /\ UNCHANGED facts
                           ELSE RevokesMembers(r, "marking")
  /\ UNCHANGED <<strict, family, db, spent, barred, faults, given, exposed>>

(* The claim store could not be asked, or its answer to any of the three   *)
(* statements was lost: the request is refused.                            *)
StoreSilent(r) ==
  /\ faults < MaxFaults /\ faults' = faults + 1
  /\ \/ Spending(r) /\ Unspent(Presents(r))
        /\ spent' \in {spent, [spent EXCEPT ![Presents(r)] = r]} /\ UNCHANGED barred
     \/ Stage(r) = "asking" /\ Presents(r) # Code /\ UNCHANGED <<spent, barred>>
     \/ Stage(r) = "marking" /\ UNCHANGED <<spent, barred>>
  /\ Goes(r, "refused")
  /\ UNCHANGED <<strict, family, facts, db, given, exposed>>

FamilyOwn(r, c) == c                   \* mutant: each rotation starts a family

(* familyForIssuance: what the presented token says, else its own name.    *)
FamilyFor(r, c) == IF Presents(r) = Code THEN c ELSE FamilyOf(r)

NoteNothing(c) == {}                   \* mutant: the new token is not recorded
NoteRefreshIssued(c) == {Record(c)}

(* The refresh token is minted and recorded before the ID Token is signed. *)
Mints(r) ==
  /\ Stage(r) = "minting" /\ MintedTokens # Token
  /\ LET c == Cardinality(MintedTokens) + 1
     IN  /\ family' = [family EXCEPT ![c] = FamilyFor(r, c)]
         /\ facts' = [facts EXCEPT ![At(r)] = @ \cup NoteRefreshIssued(c)]
         /\ grant' = [grant EXCEPT ![r].stage = "signing", ![r].child = c,
                                   ![r].owes = @ \cup NoteRefreshIssued(c)]
  /\ UNCHANGED <<strict, db, spent, barred, faults, given, exposed>>

(* The role gate refuses, or signing fails: an error, and the claim goes   *)
(* back when the response has finished.                                    *)
MintFails(r) ==
  /\ Stage(r) \in {"minting", "signing"}
  /\ Goes(r, "failed")
  /\ UNCHANGED <<strict, family, facts, db, spent, barred, faults, given, exposed>>

RetiresUnrotated(r) ==                 \* mutant: revoked, and not noted as rotated
  IF Presents(r) = Code THEN {Used, Redeemed(grant[r].child)}
  ELSE IF strict THEN {Revoked(Presents(r))} ELSE {}

(* What was spent is recorded when the token set exists.                   *)
Retires(r) == IF Presents(r) = Code THEN {Used, Redeemed(grant[r].child)}
              ELSE IF ~strict THEN {}
              ELSE {Revoked(Presents(r))} \cup
                   (IF Record(Presents(r)) \in Known(r) THEN {Rotated(Presents(r))} ELSE {})

Signs(r) ==
  /\ Stage(r) = "signing"
  /\ WritesRows(r, Retires(r), "held")
  /\ UNCHANGED <<strict, family, db, spent, barred, faults, given, exposed>>

(* The write barrier: the answer is sent when the writes have committed,   *)
(* or when committing them failed.                                         *)
Answers(r) ==
  /\ Stage(r) = "held" /\ ~grant[r].gone
  /\ \/ grant[r].owes \subseteq db /\ UNCHANGED faults
     \/ faults < MaxFaults /\ faults' = faults + 1
  /\ grant' = [grant EXCEPT ![r].stage = "done", ![r].owes = {}]
  /\ given' = given \cup {grant[r].child}
  /\ UNCHANGED <<strict, family, facts, db, spent, barred, exposed>>

(* The client goes away before the answer: the handler runs on, and the    *)
(* claim goes back.                                                        *)
Closes(r) ==
  /\ Stage(r) \in {"signing", "held"} /\ ~grant[r].gone
  /\ grant' = [grant EXCEPT ![r].gone = TRUE]
  /\ UNCHANGED <<strict, family, facts, db, spent, barred, faults, given, exposed>>

UnsuccessfulDone(r) ==                 \* mutant: a claim is given back whatever the answer
  Stage(r) \in {"failed", "done"} \/ grant[r].gone
Unsuccessful(r) == Stage(r) = "failed" \/ grant[r].gone

GivesBack(r) ==
  /\ Unsuccessful(r)
  /\ spent[Presents(r)] = r
  /\ spent' = [spent EXCEPT ![Presents(r)] = Nobody]
  /\ IF Stage(r) \in {"failed", "held"}
     THEN grant' = [grant EXCEPT ![r] = [Over EXCEPT !.gone = grant[r].gone]]
     ELSE UNCHANGED grant
  /\ UNCHANGED <<strict, family, facts, db, barred, faults, given, exposed>>

(* A replay's refusal is sent, its revocations committed: what it named -  *)
(* after a refresh token's replay its whole family - is revoked for        *)
(* whoever comes later.                                                    *)
Refuses(r) ==
  /\ Stage(r) = "refused" /\ grant[r].owes \subseteq db
  /\ exposed' = exposed \cup {t \in Token : Revoked(t) \in grant[r].owes}
                \cup {t \in Token : Presents(r) # Code /\ FamilyOf(r) \in barred}
  /\ grant' = [grant EXCEPT ![r] = Over]
  /\ UNCHANGED <<strict, family, facts, db, spent, barred, faults, given>>

-----------------------------------------------------------------------------
(* The servers.                                                            *)

(* A flush commits what the server has written.  What is written while it  *)
(* is in flight waits for the next one, as if written after it.            *)
Commits(n) ==
  /\ ~(facts[n] \subseteq db)
  /\ db' = db \cup facts[n]
  /\ UNCHANGED <<strict, family, facts, spent, barred, grant, faults, given, exposed>>

(* The server dies with its requests, and another starts from the store.   *)
Crashes(n) ==
  /\ faults < MaxFaults /\ faults' = faults + 1
  /\ facts' = [facts EXCEPT ![n] = db]
  /\ grant' = [r \in Request |-> IF At(r) = n /\ Stage(r) \in Running
                                 THEN Over
                                 ELSE grant[r]]
  /\ UNCHANGED <<strict, family, db, spent, barred, given, exposed>>

GrantNext ==
  \/ \E r \in Request :
       \/ \E n \in Server, t \in 0..MaxTokens : Arrives(r, n, t) \/ ArrivesLate(r, n, t)
       \/ CodeFound(r) \/ CodeReplayed(r) \/ CodeUnknown(r) \/ Pulls(r) \/ StopsWaiting(r)
       \/ RefreshReplayed(r) \/ RefreshRevoked(r) \/ RefreshPasses(r)
       \/ FamilyBarred(r) \/ FamilyClear(r) \/ Marks(r)
       \/ Spends(r) \/ AlreadySpent(r) \/ StoreSilent(r)
       \/ Mints(r) \/ MintFails(r) \/ Signs(r) \/ Answers(r)
       \/ Closes(r) \/ GivesBack(r) \/ Refuses(r)
  \/ \E n \in Server : Commits(n) \/ Crashes(n)

GrantSpec == GrantInit /\ [][GrantNext]_gvars

-----------------------------------------------------------------------------
(* Properties.                                                             *)

(* In RFC 9700 mode a code or refresh token buys one token set, however    *)
(* many present it, wherever, and whichever mint, socket, commit or server *)
(* fails on the way; with the mode off a code's later answers are the      *)
(* first one's, as long as no client went away before its answer.          *)
OneTokenSet == strict => \A t \in 0..MaxTokens : \A q, r \in Delivered(t) : q = r

SameAnswer == ~strict /\ (\A r \in Request : ~grant[r].gone) /\ faults = 0 =>
  \A q, r \in Delivered(Code) : grant[q].child = grant[r].child

(* Once a replay has been answered, nothing it revoked buys anything for a *)
(* request that comes later: the members its server knew by their          *)
(* identifiers, the ones it did not by their family.                       *)
RevokedBuysNothing == strict => \A r \in Request :
  grant[r].exposed /\ ~grant[r].late => Stage(r) # "done"

(* A copied chain is caught: presenting again a refresh token whose new    *)
(* set was answered ends with its family revoked, while barriers are kept  *)
(* and nothing fails.                                                      *)
ReplayCaught == strict /\ faults = 0 => \A r \in Request :
  Stage(r) = "refused" /\ grant[r].copy /\ Presents(r) # Code
  => FamilyOf(r) \in barred
=============================================================================
