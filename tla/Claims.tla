------------------------------ MODULE Claims -------------------------------
(***************************************************************************)
(* The atomic "once" of cluster/cluster_claims.js over the table           *)
(* sts_cluster_claims of the postgres driver.                              *)
(*                                                                         *)
(* A request finds a single-use value good by the value's own check, then  *)
(* claims it with one INSERT ... ON CONFLICT, works, and answers: the      *)
(* claim is kept when the response finishes well and given back when it    *)
(* fails or its socket closes first.  The claim is a row with a lifetime   *)
(* on the DATABASE's clock; the value's own check is made on the clock of  *)
(* the process the request reached.  Answers are lost, releases are late   *)
(* or never arrive, processes die.                                         *)
(*                                                                         *)
(* Without a shared store the same functions work on a Map of the process: *)
(* those behaviours are the ones of a single process here in which the     *)
(* statement executes in the step that sends it.                           *)
(***************************************************************************)
EXTENDS Integers

CONSTANTS Process,    \* processes of every node
          Attempt,    \* requests, each presenting one value once
          Value,      \* single-use values of one scope
          None,       \* no attempt
          Drift,      \* Drift[p]: the clock of p less the database's
          Until,      \* Until[v]: the last instant v's own check accepts it
          Skew,       \* the clock skew added to a claim's lifetime
          MaxTtl,     \* MAX_TTL_MS
          MaxDelay,   \* the longest from a value's check to its statement
          MaxTime     \* bound of the model: the last instant it looks at

ASSUME ClaimsConstants ==
  /\ None \notin Attempt \cup Process \cup Value
  /\ Drift \in [Process -> Int]
  /\ Until \in [Value -> Nat]
  /\ Skew \in Nat /\ MaxTtl \in Nat /\ MaxDelay \in Nat /\ MaxTime \in Nat

(* What the operator and the callers owe the claims: the processes' clocks *)
(* and the way to the store are within the allowed skew of one another,    *)
(* and no value outlives the ceiling on a claim's lifetime.                *)
ASSUME ClocksAgree ==
  /\ \A p, q \in Process : Drift[p] + MaxDelay < Drift[q] + Skew
  /\ \A p \in Process, v \in Value : Until[v] - Drift[p] + Skew <= MaxTtl

VARIABLES now,   \* the database's clock
          row,   \* row[v]: the row of v in sts_cluster_claims, or NoRow
          req    \* req[a]: where the request a is

cvars == <<now, row, req>>

NoRow == [by |-> None, ends |-> 0]
Rows == [by : Attempt \cup {None}, ends : Int]

Stages == {"new", "checked", "asking", "claimed", "working", "ended",
           "releasing", "released", "bought", "refused", "dead"}

Requests == [stage : Stages,
             at : Process \cup {None}, value : Value \cup {None},
             since : Int,      \* when the value's own check was made
             ttl : Int,        \* the lifetime asked for
             ends : Int]       \* when the row it was given ends

ClaimsTypeOK == /\ now \in Nat
                /\ row \in [Value -> Rows]
                /\ req \in [Attempt -> Requests]
                /\ \A a \in Attempt : req[a].stage # "new"
                     => req[a].at \in Process /\ req[a].value \in Value

ClaimsInit ==
  /\ now = 0
  /\ row = [v \in Value |-> NoRow]
  /\ req = [a \in Attempt |-> [stage |-> "new", at |-> None, value |-> None,
                               since |-> 0, ttl |-> 0, ends |-> 0]]

Is(a, stage) == req[a].stage = stage
BecomesUnserved(a, stage) ==           \* mutant: an answer loses where it belongs
  req' = [req EXCEPT ![a] = [@ EXCEPT !.stage = stage, !.at = None]]
Becomes(a, stage) == req' = [req EXCEPT ![a].stage = stage]

Clock(p) == now + Drift[p]
AtMost(x, y) == IF x < y THEN x ELSE y
AtLeast(x, y) == IF x > y THEN x ELSE y

LifetimeBare(a) ==                     \* mutant: a lifetime without the skew
  AtMost(MaxTtl, AtLeast(1, Until[req[a].value] - Clock(req[a].at)))

(* The rest of the value's life and the skew (codeClaimTtlMs), clamped by  *)
(* claim() to at least a second and at most MAX_TTL_MS.                    *)
Lifetime(a) ==
  LET rest == AtLeast(0, Until[req[a].value] - Clock(req[a].at))
  IN  AtMost(MaxTtl, AtLeast(1, rest + Skew))

-----------------------------------------------------------------------------
(* The request.                                                            *)

(* The value's own check accepts it: the code is held and its expiry has   *)
(* not passed on this process's clock.                                     *)
Check(a, p, v) ==
  /\ Is(a, "new")
  /\ Clock(p) <= Until[v]
  /\ req' = [req EXCEPT ![a] = [@ EXCEPT !.stage = "checked", !.at = p,
                                         !.value = v, !.since = now]]
  /\ UNCHANGED <<now, row>>

(* claim(): the lifetime is computed and the statement sent, with a        *)
(* reservation of its own.                                                 *)
Ask(a) == /\ Is(a, "checked")
          /\ req' = [req EXCEPT ![a].stage = "asking", ![a].ttl = Lifetime(a)]
          /\ UNCHANGED <<now, row>>

(* The answer `claimed` arrives: the claim is bound to the response.       *)
Claimed(a) == Is(a, "claimed") /\ Becomes(a, "working") /\ UNCHANGED <<now, row>>

(* The statement failed, or its answer was lost after it ran: "the store   *)
(* could not be asked", and the value is refused.                          *)
StoreFails(a) == /\ req[a].stage \in {"asking", "claimed"}
                 /\ Becomes(a, "refused")
                 /\ UNCHANGED <<now, row>>

(* The response finished with a 2xx or a redirect: the claim is kept.      *)
Finish(a) == Is(a, "working") /\ Becomes(a, "bought") /\ UNCHANGED <<now, row>>

(* The response finished with an error, or its socket closed before the    *)
(* handler had ended it: the claim is given back.                          *)
GiveBack(a) == Is(a, "working") /\ Becomes(a, "releasing") /\ UNCHANGED <<now, row>>

(* The socket closed after the handler ended the response and before it    *)
(* was flushed: neither event settles the claim, and it is kept.           *)
EndedUnflushed(a) == Is(a, "working") /\ Becomes(a, "ended") /\ UNCHANGED <<now, row>>

(* The release did not reach the store: the claim stays until it ends.     *)
ReleaseFails(a) == Is(a, "releasing") /\ Becomes(a, "released")
                   /\ UNCHANGED <<now, row>>

(* The process dies with whatever its requests were doing; what the store  *)
(* was told stays.                                                         *)
Dies(p) ==
  /\ \E a \in Attempt : req[a].at = p
       /\ req[a].stage \in {"checked", "asking", "claimed", "working", "releasing"}
  /\ req' = [a \in Attempt |->
       IF req[a].at = p /\ req[a].stage \in {"checked", "asking", "claimed",
                                             "working", "releasing"}
       THEN [req[a] EXCEPT !.stage = "dead"] ELSE req[a]]
  /\ UNCHANGED <<now, row>>

-----------------------------------------------------------------------------
(* The store.                                                              *)

FreeAlways(v) == TRUE   \* mutant: ON CONFLICT DO UPDATE without its WHERE
Free(v) == row[v].by = None \/ row[v].ends <= now

(* claimOnce: the insert, or the replacement of an expired row.            *)
ClaimOnce(a) ==
  /\ Is(a, "asking")
  /\ now <= req[a].since + MaxDelay
  /\ Free(req[a].value)
  /\ row' = [row EXCEPT ![req[a].value] = [by |-> a, ends |-> now + req[a].ttl]]
  /\ req' = [req EXCEPT ![a].stage = "claimed", ![a].ends = now + req[a].ttl]
  /\ UNCHANGED now

(* claimOnce updates nothing over a live row: "used".                      *)
ClaimRefused(a) ==
  /\ Is(a, "asking")
  /\ ~Free(req[a].value)
  /\ Becomes(a, "refused")
  /\ UNCHANGED <<now, row>>

(* releaseClaim: pinned to the reservation, so a claim that ended and was  *)
(* replaced does not take the later one away.                              *)
ReleaseClaim(a) ==
  /\ Is(a, "releasing")
  /\ row' = [row EXCEPT ![req[a].value] = IF @.by = a THEN NoRow ELSE @]
  /\ Becomes(a, "released")
  /\ UNCHANGED now

(* purgeClaims, from whichever process is due: at most one a minute each.  *)
PurgeClaims ==
  /\ \E v \in Value : row[v].by # None /\ row[v].ends <= now
  /\ row' = [v \in Value |-> IF row[v].ends <= now THEN NoRow ELSE row[v]]
  /\ UNCHANGED <<now, req>>

Tick == now < MaxTime /\ now' = now + 1 /\ UNCHANGED <<row, req>>

-----------------------------------------------------------------------------
RequestStep(a) ==
  \/ \E p \in Process, v \in Value : Check(a, p, v)
  \/ Ask(a) \/ Claimed(a) \/ StoreFails(a)
  \/ Finish(a) \/ GiveBack(a) \/ EndedUnflushed(a) \/ ReleaseFails(a)

StoreStep(a) == ClaimOnce(a) \/ ClaimRefused(a) \/ ReleaseClaim(a)

ClaimsNext == \/ \E a \in Attempt : RequestStep(a) \/ StoreStep(a)
              \/ \E p \in Process : Dies(p)
              \/ PurgeClaims
              \/ Tick

ClaimsSpec == ClaimsInit /\ [][ClaimsNext]_cvars

-----------------------------------------------------------------------------
(* Properties.                                                             *)

(* A request that may still buy something, or has.                         *)
Holding(a) == req[a].stage \in {"claimed", "working", "ended", "bought"}

(* However late an answer, a release or a purge, and whichever clock each  *)
(* process reads: no two requests hold one value, at once or one after the *)
(* other, unless the first gave it back (claimOnce, releaseClaim,          *)
(* purgeClaims and the lifetime claim() asks for).                         *)
SoleHolder == \A a, b \in Attempt :
  Holding(a) /\ Holding(b) /\ req[a].value = req[b].value => a = b

(* The detailed claims implement the abstract once: a value buys something *)
(* for one request at most, for ever.                                      *)
Bought == [v \in Value |-> {a \in Attempt : Is(a, "bought") /\ req[a].value = v}]

Once == INSTANCE OnceOnly WITH bought <- Bought

OnceSpec == Once!Spec
=============================================================================
