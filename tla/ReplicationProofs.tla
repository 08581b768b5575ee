------------------------- MODULE ReplicationProofs --------------------------
(***************************************************************************)
(* What Replication promises for any number of writers, readers, keys and  *)
(* barriers and any bounds, proved: types, then the marks of the change    *)
(* log, then the read barrier.                                             *)
(***************************************************************************)
EXTENDS Replication, SequenceTheorems, TLAPS

-----------------------------------------------------------------------------
(* The log.                                                                *)

LEMMA LogType ==
  ASSUME TypeOK
  PROVE  /\ Len(log) \in Nat
         /\ Seqs = 1 .. Len(log)
         /\ \A s \in Seqs : s \in Nat /\ log[s] \in Change
         /\ Visible \subseteq Nat
         /\ Committed \subseteq Nat
<1>1. Len(log) \in Nat /\ log \in [1 .. Len(log) -> Change] /\ Seqs = 1 .. Len(log)
  BY LenProperties DEF TypeOK, Seqs
<1> QED BY <1>1 DEF Visible, Committed

LEMMA MarkedType ==
  ASSUME TypeOK, NEW s \in Seqs, NEW a \in {"open", "here", "burnt", "trimmed"}
  PROVE  /\ [log EXCEPT ![s].at = a] \in Seq(Change)
         /\ Len([log EXCEPT ![s].at = a]) = Len(log)
<1> DEFINE r == [log[s] EXCEPT !.at = a]
<1>1. s \in 1 .. Len(log) /\ log[s] \in Change
  BY LogType
<1>2. r \in Change
  BY <1>1 DEF Change
<1>3. log \in Seq(Change)
  BY DEF TypeOK
<1>4. [log EXCEPT ![s] = r] \in Seq(Change) /\ Len([log EXCEPT ![s] = r]) = Len(log)
  BY <1>1, <1>2, <1>3, ExceptSeq
<1> QED BY <1>4

LEMMA OutcomesType == ASSUME TypeOK, NEW k \in Key PROVE Outcomes(k) \subseteq Nat
BY LogType DEF Outcomes

LEMMA PullExcept ==
  ASSUME NEW r \in Pull, NEW st \in Step, NEW rows \in SUBSET Nat, NEW todo \in SUBSET Key
  PROVE  /\ [r EXCEPT !.step = st] \in Pull
         /\ [r EXCEPT !.todo = todo] \in Pull
         /\ [r EXCEPT !.step = st, !.rows = rows, !.todo = todo] \in Pull
         /\ \A last \in Nat, f \in BOOLEAN :
              [r EXCEPT !.step = st, !.rows = rows, !.last = last, !.todo = todo, !.full = f]
                \in Pull
BY DEF Pull

LEMMA BarrierExcept ==
  ASSUME NEW r \in Barrier, NEW st \in {"new", "waiting", "caught", "gave up"},
         NEW owed \in SUBSET Nat
  PROVE  /\ [r EXCEPT !.state = st] \in Barrier
         /\ [r EXCEPT !.state = st, !.owed = owed] \in Barrier
BY DEF Barrier

LEMMA NoPullType == NoPull \in Pull
BY DEF NoPull, Pull, Step

LEMMA NewPullType == ASSUME NEW calls \in SUBSET Call PROVE NewPull(calls) \in Pull
BY DEF NewPull, NoPull, Pull, Step

LEMMA PointedType ==
  ASSUME TypeOK, NEW p \in Proc, NEW rows \in SUBSET Seqs
  PROVE  Pointed(p, rows) \in SUBSET Key
BY LogType DEF Pointed, Change

-----------------------------------------------------------------------------
(* Each action keeps the types.                                            *)

LEMMA WriteType ==
  ASSUME TypeOK, NEW o \in Origin, NEW k \in Key, Write(o, k)
  PROVE  TypeOK'
<1>1. [by |-> o, key |-> k, at |-> "open"] \in Change
  BY DEF Change
<1>2. log' \in Seq(Change)
  BY <1>1 DEF TypeOK, Write
<1> QED BY <1>2 DEF TypeOK, Write, starting, memory, marks, retention

LEMMA CommitType ==
  ASSUME TypeOK, NEW s \in Seqs, Commit(s)
  PROVE  TypeOK'
<1>1. log' \in Seq(Change)
  BY MarkedType DEF Commit
<1>2. s \in Nat
  BY LogType
<1>3. seen' \in [Proc -> SUBSET Nat]
  BY <1>2 DEF TypeOK, Commit
<1> QED BY <1>1, <1>3 DEF TypeOK, Commit, starting, marks, retention

LEMMA RollbackType ==
  ASSUME TypeOK, NEW s \in Seqs, Rollback(s)
  PROVE  TypeOK'
<1>1. log' \in Seq(Change)
  BY MarkedType DEF Rollback
<1> QED BY <1>1 DEF TypeOK, Rollback, starting, memory, marks, retention

LEMMA StartsType ==
  ASSUME TypeOK, NEW p \in Proc, Starts(p)
  PROVE  TypeOK'
<1>1. CASE BeginRestore(p)
  BY <1>1, LogType DEF TypeOK, BeginRestore, memory, marks, retention
<1>2. ASSUME NEW k \in Key, Restore(p, k) PROVE TypeOK'
  BY <1>2, OutcomesType DEF TypeOK, Restore, marks, retention
<1>3. CASE Start(p)
  <2>1. /\ from' \in [Proc -> Nat]
        /\ report' \in [Proc -> Nat \cup {None}]
    <3>1. CASE UNCHANGED <<from, report>>
      BY <3>1 DEF TypeOK
    <3>2. ASSUME NEW top \in Visible \cup {0}, from' = [from EXCEPT ![p] = top],
                 report' = [report EXCEPT ![p] = top]
          PROVE  /\ from' \in [Proc -> Nat]
                 /\ report' \in [Proc -> Nat \cup {None}]
      <4>1. top \in Nat
        BY LogType
      <4> QED BY <3>2, <4>1 DEF TypeOK
    <3> QED BY <1>3, <3>1, <3>2 DEF Start
  <2>2. highest' \in [Proc -> Nat] /\ applied' \in [Proc -> Nat]
    BY <1>3, <2>1 DEF TypeOK, Start
  <2> QED BY <1>3, <2>1, <2>2 DEF TypeOK, Start, memory
<1> QED BY <1>1, <1>2, <1>3 DEF Starts

LEMMA ExitType ==
  ASSUME TypeOK, NEW p \in Proc, Exit(p), reader' \in [Proc \cup Reporter -> Nat \cup {None}]
  PROVE  TypeOK'
<1>1. call' \in [Call -> Barrier]
  BY BarrierExcept DEF TypeOK, Exit
<1>2. pull' \in [Proc -> Pull]
  BY NoPullType DEF TypeOK, Exit
<1> QED BY <1>1, <1>2 DEF TypeOK, Exit

LEMMA StopsType ==
  ASSUME TypeOK, NEW p \in Proc, Stop(p) \/ Killed(p)
  PROVE  TypeOK'
<1>1. reader' \in [Proc \cup Reporter -> Nat \cup {None}]
  BY DEF TypeOK, Stop, Killed
<1> QED BY <1>1, ExitType DEF Stop, Killed

-----------------------------------------------------------------------------
(* Pulling.                                                                *)

LEMMA WaitingType == ASSUME NEW p \in Proc PROVE Waiting(p) \in SUBSET Call
BY DEF Waiting

LEMMA StartPullType ==
  ASSUME TypeOK, NEW p \in Proc, StartPull(p) \/ Nudge(p)
  PROVE  TypeOK'
<1>1. CASE StartPull(p)
  BY <1>1, WaitingType, NewPullType DEF TypeOK, StartPull, starting, memory, marks, retention
<1>2. CASE Nudge(p)
  BY <1>2 DEF TypeOK, Nudge, starting, memory, marks, retention
<1> QED BY <1>1, <1>2

LEMMA FetchPageType ==
  ASSUME ReplicationAssumption, TypeOK, NEW p \in Proc, FetchPage(p)
  PROVE  TypeOK'
<1>1. /\ pull' \in [Proc -> Pull]
      /\ holes' \in [Proc -> SUBSET Nat]
  <2>1. CASE Above(p) = {} /\ pull' = [pull EXCEPT ![p].step = "recheck"] /\ UNCHANGED holes
    <3>1. [pull[p] EXCEPT !.step = "recheck"] \in Pull
      <4>1. pull[p] \in Pull /\ "recheck" \in Step /\ {} \in SUBSET Nat /\ {} \in SUBSET Key
        BY DEF TypeOK, Step
      <4> QED BY <4>1, PullExcept
    <3> QED BY <2>1, <3>1 DEF TypeOK
  <2>2. ASSUME NEW last \in Above(p),
               pull' = [pull EXCEPT ![p] =
                  [@ EXCEPT !.step = "paging", !.rows = {s \in Above(p) : s <= last},
                            !.last = last,
                            !.todo = Pointed(p, {s \in Above(p) : s <= last}),
                            !.full = Cardinality({s \in Above(p) : s <= last}) = Page]],
               holes' = [holes EXCEPT ![p] = @ \cup Gaps(p, {s \in Above(p) : s <= last}, last)]
        PROVE  /\ pull' \in [Proc -> Pull]
               /\ holes' \in [Proc -> SUBSET Nat]
    <3> DEFINE rows == {s \in Above(p) : s <= last}
               full == Cardinality(rows) = Page
    <3>1. rows \in SUBSET Seqs /\ rows \in SUBSET Nat /\ last \in Nat
      BY LogType DEF Above, Visible
    <3>2. Pointed(p, rows) \in SUBSET Key
      BY <3>1, PointedType
    <3>3. full \in BOOLEAN
      OBVIOUS
    <3>4. ASSUME NEW f \in BOOLEAN, NEW todo \in SUBSET Key
          PROVE  [pull[p] EXCEPT !.step = "paging", !.rows = rows, !.last = last,
                                 !.todo = todo, !.full = f] \in Pull
      <4>1. pull[p] \in Pull /\ "paging" \in Step
        BY DEF TypeOK, Step
      <4> QED BY <3>1, <4>1, PullExcept
    <3>5. [pull[p] EXCEPT !.step = "paging", !.rows = rows, !.last = last,
                          !.todo = Pointed(p, rows), !.full = full] \in Pull
      BY <3>2, <3>3, <3>4
    <3>6. pull' \in [Proc -> Pull]
      BY <2>2, <3>5 DEF TypeOK
    <3>7. Gaps(p, rows, last) \subseteq Nat
      BY <3>1 DEF Gaps, TypeOK
    <3> QED BY <2>2, <3>6, <3>7 DEF TypeOK
  <2> QED BY <2>1, <2>2 DEF FetchPage
<1> QED BY <1>1 DEF TypeOK, FetchPage, starting, memory, retention

LEMMA TodoType ==
  ASSUME TypeOK, NEW p \in Proc, NEW k \in Key
  PROVE  [pull EXCEPT ![p].todo = @ \ {k}] \in [Proc -> Pull]
<1>1. [pull[p] EXCEPT !.todo = @ \ {k}] \in Pull
  <2>1. pull[p] \in Pull /\ pull[p].step \in Step /\ pull[p].todo \ {k} \in SUBSET Key
    BY DEF TypeOK, Pull
  <2> QED BY <2>1, PullExcept
<1> QED BY <1>1 DEF TypeOK

LEMMA ApplyType ==
  ASSUME TypeOK, NEW p \in Proc, NEW k \in Key, Apply(p, k)
  PROVE  TypeOK'
BY TodoType, OutcomesType DEF TypeOK, Apply, starting, marks, retention

LEMMA ApplyFailsType ==
  ASSUME TypeOK, NEW p \in Proc, NEW k \in Key, ApplyFails(p, k)
  PROVE  TypeOK'
<1>1. {s \in pull[p].rows : log[s].key = k} \subseteq Nat
  BY DEF TypeOK, Pull
<1>2. dropped' \in [Proc -> SUBSET Nat]
  BY <1>1 DEF TypeOK, ApplyFails
<1> QED BY <1>2, TodoType DEF TypeOK, ApplyFails, starting, marks, retention

LEMMA PageDoneType ==
  ASSUME TypeOK, NEW p \in Proc, PageDone(p)
  PROVE  TypeOK'
<1>1. pull[p].last \in Nat /\ pull[p].serves \in SUBSET Call
  BY DEF TypeOK, Pull
<1>2. \A st \in Step : [NoPull EXCEPT !.step = st, !.serves = pull[p].serves] \in Pull
  BY <1>1 DEF NoPull, Pull, Step
<1>3. (IF pull[p].full THEN "page" ELSE "recheck") \in Step
  BY DEF Step
<1>4. pull' \in [Proc -> Pull]
  BY <1>2, <1>3 DEF TypeOK, PageDone
<1> QED BY <1>1, <1>4 DEF TypeOK, PageDone, starting, memory, retention

LEMMA FinishType ==
  ASSUME TypeOK, NEW p \in Proc, Finish(p), applied' \in [Proc -> Nat]
  PROVE  /\ call' \in [Call -> Barrier]
         /\ report' \in [Proc -> Nat \cup {None}]
         /\ pull' \in [Proc -> Pull]
         /\ wake' \in [Proc -> BOOLEAN]
<1>1. call' \in [Call -> Barrier]
  BY BarrierExcept DEF TypeOK, Finish
<1>2. report' \in [Proc -> Nat \cup {None}]
  BY DEF TypeOK, Finish, Position
<1>3. Waiting(p) \ Served(p) \in SUBSET Call
  BY WaitingType
<1>4. pull' \in [Proc -> Pull]
  BY <1>3, NoPullType, NewPullType DEF TypeOK, Finish
<1> QED BY <1>1, <1>2, <1>4 DEF TypeOK, Finish

LEMMA NoHolesType ==
  ASSUME TypeOK, NEW p \in Proc, NoHoles(p)
  PROVE  TypeOK'
<1>1. applied' \in [Proc -> Nat]
  BY DEF TypeOK, NoHoles
<1> QED BY <1>1, FinishType DEF TypeOK, NoHoles, starting, memory

LEMMA AskHolesType ==
  ASSUME TypeOK, NEW p \in Proc, AskHoles(p)
  PROVE  TypeOK'
<1>1. Found(p) \in SUBSET Seqs /\ Found(p) \in SUBSET Nat
  BY LogType DEF Found, Visible
<1>2. Pointed(p, Found(p)) \in SUBSET Key
  BY <1>1, PointedType
<1>3. [pull[p] EXCEPT !.step = "refilling", !.rows = Found(p), !.todo = Pointed(p, Found(p))]
        \in Pull
  <2>1. pull[p] \in Pull /\ "refilling" \in Step
    BY DEF TypeOK, Step
  <2> QED BY <1>1, <1>2, <2>1, PullExcept
<1> QED BY <1>3 DEF TypeOK, AskHoles, starting, memory, marks, retention

LEMMA SettledType ==
  ASSUME TypeOK, NEW p \in Proc, NEW kept \in SUBSET Nat, Settled(p, kept)
  PROVE  applied' \in [Proc -> Nat]
<1>1. CASE applied' = [applied EXCEPT ![p] = highest[p]]
  BY <1>1 DEF TypeOK
<1>2. ASSUME NEW oldest \in kept,
             applied' = [applied EXCEPT ![p] = IF oldest - 1 > @ THEN oldest - 1 ELSE @]
      PROVE  applied' \in [Proc -> Nat]
  <2>1. applied[p] \in Nat /\ oldest \in Nat
    BY DEF TypeOK
  <2>2. (IF oldest - 1 > applied[p] THEN oldest - 1 ELSE applied[p]) \in Nat
    BY <2>1
  <2> QED BY <1>2, <2>2 DEF TypeOK
<1> QED BY <1>1, <1>2 DEF Settled

LEMMA SettleType ==
  ASSUME TypeOK, NEW p \in Proc, Settle(p)
  PROVE  TypeOK'
<1>1. PICK expired \in SUBSET holes[p], over \in SUBSET holes[p] :
        LET kept == ((holes[p] \ pull[p].rows) \ expired) \ over
        IN /\ Expired(p, expired, over)
           /\ holes' = [holes EXCEPT ![p] = kept]
           /\ dropped' = [dropped EXCEPT ![p] = @ \cup over]
           /\ Settled(p, kept)
  BY DEF Settle
<1> DEFINE kept == ((holes[p] \ pull[p].rows) \ expired) \ over
<1>2. holes[p] \in SUBSET Nat
  BY DEF TypeOK
<1>3. kept \in SUBSET Nat /\ over \in SUBSET Nat
  BY <1>2
<1>4. holes' \in [Proc -> SUBSET Nat] /\ dropped' \in [Proc -> SUBSET Nat]
  BY <1>1, <1>3 DEF TypeOK
<1>5. applied' \in [Proc -> Nat]
  BY <1>1, <1>3, SettledType
<1> QED BY <1>4, <1>5, FinishType DEF TypeOK, Settle, starting

LEMMA PullFailsType ==
  ASSUME TypeOK, NEW p \in Proc, PullFails(p)
  PROVE  TypeOK'
BY NoPullType DEF TypeOK, PullFails, starting, memory, marks, retention

-----------------------------------------------------------------------------
(* Barriers and retention.                                                 *)

LEMMA CallType ==
  ASSUME TypeOK, NEW c \in Call, Ask(c) \/ GiveUp(c)
  PROVE  TypeOK'
<1>1. Committed \in SUBSET Nat
  BY LogType
<1>2. call' \in [Call -> Barrier]
  <2>1. call[c] \in Barrier
    BY DEF TypeOK
  <2>2. /\ [call[c] EXCEPT !.state = "waiting", !.owed = Committed] \in Barrier
        /\ [call[c] EXCEPT !.state = "gave up", !.owed = {}] \in Barrier
    BY <1>1, <2>1, BarrierExcept
  <2> QED BY <2>2 DEF TypeOK, Ask, GiveUp
<1> QED BY <1>2 DEF TypeOK, Ask, GiveUp, starting, memory, marks, retention

LEMMA ReportType ==
  ASSUME TypeOK, NEW p \in Proc, Reported(p) \/ ReportFails(p)
  PROVE  TypeOK'
BY DEF TypeOK, Reported, ReportFails, starting, memory, marks

LEMMA OtherReportsType ==
  ASSUME TypeOK, NEW o \in Reporter, NEW mark \in 0 .. Len(log), OtherReports(o, mark)
  PROVE  TypeOK'
<1>1. mark \in Nat
  BY LogType
<1> QED BY <1>1 DEF TypeOK, OtherReports, starting, memory, marks

(* What the trim does to a row: nothing, or it removes a visible one. *)
LEMMA PurgeLog ==
  ASSUME TypeOK, NEW away, Purge(away)
  PROVE  /\ log' \in Seq(Change)
         /\ Len(log') = Len(log)
         /\ \A s \in Seqs : \/ log'[s] = log[s]
                            \/ /\ s \in Visible
                               /\ log'[s] = [log[s] EXCEPT !.at = "trimmed"]
                               /\ OldEnough(s)
                               /\ \A p \in Readers \ away : s < reader[p]
<1> DEFINE live == Readers \ away
<1>1. PICK old \in SUBSET {s \in Visible : OldEnough(s)} :
        log' = [s \in Seqs |-> IF s \in old /\ live # {} /\ \A p \in live : s < reader[p]
                               THEN [log[s] EXCEPT !.at = "trimmed"] ELSE log[s]]
  BY DEF Purge
<1>2. Seqs = 1 .. Len(log) /\ Len(log) \in Nat /\ \A s \in Seqs : log[s] \in Change
  BY LogType
<1>3. \A s \in Seqs : [log[s] EXCEPT !.at = "trimmed"] \in Change
  BY <1>2 DEF Change
<1>4. log' \in [1 .. Len(log) -> Change]
  BY <1>1, <1>2, <1>3
<1>5. log' \in Seq(Change)
  BY <1>2, <1>4, SeqDef
<1>6. Len(log') = Len(log)
  BY <1>2, <1>4, <1>5, LenProperties
<1>7. \A s \in Seqs : \/ log'[s] = log[s]
                      \/ /\ s \in Visible
                         /\ log'[s] = [log[s] EXCEPT !.at = "trimmed"]
                         /\ OldEnough(s)
                         /\ \A p \in live : s < reader[p]
  BY <1>1
<1> QED BY <1>5, <1>6, <1>7

LEMMA PurgeType ==
  ASSUME TypeOK, NEW away \in SUBSET Readers, Purge(away)
  PROVE  TypeOK'
<1>1. log' \in Seq(Change)
  BY PurgeLog
<1>2. reader' \in [Proc \cup Reporter -> Nat \cup {None}]
  BY DEF TypeOK, Purge
<1>3. gone' \in [Proc -> BOOLEAN]
  BY DEF TypeOK, Purge
<1> QED BY <1>1, <1>2, <1>3 DEF TypeOK, Purge, starting, memory, marks

-----------------------------------------------------------------------------
LEMMA TypeInit == ASSUME Init PROVE TypeOK
<1>1. log \in Seq(Change)
  BY DEF Init
<1>2. call \in [Call -> Barrier]
  BY DEF Init, Barrier
<1>3. pull \in [Proc -> Pull]
  BY NoPullType DEF Init
<1> QED BY <1>1, <1>2, <1>3 DEF Init, TypeOK, None

LEMMA TypeStep == ASSUME ReplicationAssumption, TypeOK, [Next]_vars PROVE TypeOK'
<1>1. CASE UNCHANGED vars
  BY <1>1 DEF TypeOK, vars, starting, memory, marks, retention
<1>2. CASE Stopped
  BY <1>2, <1>1 DEF Stopped
<1>3. ASSUME NEW p \in Proc, Works(p) \/ Fails(p) PROVE TypeOK'
  <2>1. ASSUME NEW k \in Key, Apply(p, k) \/ ApplyFails(p, k) PROVE TypeOK'
    BY <2>1, ApplyType, ApplyFailsType
  <2> QED BY <1>3, <2>1, StartsType, StartPullType, FetchPageType, PageDoneType, NoHolesType,
             AskHolesType, SettleType, PullFailsType, StopsType, ReportType
          DEF Works, Fails, Reads
<1>4. ASSUME NEW o \in Origin, NEW k \in Key, Write(o, k) PROVE TypeOK'
  BY <1>4, WriteType
<1>5. ASSUME NEW s \in Seqs, Commit(s) \/ Rollback(s) PROVE TypeOK'
  BY <1>5, CommitType, RollbackType
<1>6. ASSUME NEW c \in Call, Ask(c) \/ GiveUp(c) PROVE TypeOK'
  BY <1>6, CallType
<1>7. ASSUME NEW o \in Reporter, NEW mark \in 0 .. Len(log), OtherReports(o, mark) PROVE TypeOK'
  BY <1>7, OtherReportsType
<1>8. ASSUME NEW away \in SUBSET Readers, Purge(away) PROVE TypeOK'
  BY <1>8, PurgeType
<1> QED BY <1>1, <1>2, <1>3, <1>4, <1>5, <1>6, <1>7, <1>8 DEF Next

(* The tables, marks, pulls and barriers keep their types (recordChanges,  *)
(* pull, syncNow and purgeChangeLog).                                      *)
THEOREM TypeCorrect == Spec => []TypeOK
<1>1. Init => TypeOK
  BY TypeInit
<1>2. TypeOK /\ [Next]_vars => TypeOK'
  BY TypeStep, ReplicationAssumption
<1> QED BY <1>1, <1>2, PTL DEF Spec

-----------------------------------------------------------------------------
(* The marks: what lies below them is applied, asked for again or given up *)
(* on, and no row is trimmed that a process following the log lacks.       *)

-----------------------------------------------------------------------------
(* The inductive invariant, one part per idea.                             *)

(* A process that does not run has no pull and no mark to stand for. *)
Fresh(p) ==
  /\ phase[p] # "running" =>
       holes[p] = {} /\ pull[p].step = "idle" /\ ~gone[p] /\ from[p] = 0
  /\ phase[p] \in {"off", "restoring"} => reader[p] = None /\ report[p] = None
  /\ phase[p] = "off" => unread[p] = Key

(* The marks and the holes, in their order along the log. *)
Ordered(p) ==
  /\ applied[p] <= highest[p]
  /\ highest[p] <= Len(log)
  /\ pull[p].step = "paging" => highest[p] < pull[p].last /\ pull[p].last <= Len(log)
  /\ \A h \in holes[p] : /\ applied[p] < h
                         /\ h <= IF pull[p].step = "paging" THEN pull[p].last ELSE highest[p]
  /\ phase[p] = "running" => reader[p] <= applied[p] /\ report[p] <= applied[p]

(* Memory holds the outcome of what was committed, and of its own writes. *)
Remembered(p) ==
  /\ seen[p] \subseteq Committed
  /\ base[p] \subseteq Committed
  /\ \A s \in Seqs : log[s].by = p =>
       /\ phase[p] \in {"running", "stopped"}
       /\ phase[p] = "running" /\ s \in Committed => s \in seen[p]

(* The restore reads what was committed when it began, or later. *)
Restored(p) ==
  /\ phase[p] = "restoring" =>
       /\ \A s \in base[p] : s \in seen[p] \/ log[s].key \in unread[p]
       /\ \A s \in Seqs : log[s].at = "trimmed" => s \in base[p]
  /\ phase[p] = "running" => base[p] \subseteq seen[p]

(* The rows a pull has read are applied, given up on, or still to do, and  *)
(* what it stepped over is a hole.                                         *)
Paged(p) ==
  /\ pull[p].step \in {"paging", "refilling"} =>
       \A s \in pull[p].rows : /\ s \in Committed
                               /\ Has(p, s) \/ log[s].key \in pull[p].todo
  /\ pull[p].step = "paging" =>
       \A s \in Seqs : highest[p] < s /\ s <= pull[p].last => s \in pull[p].rows \cup holes[p]

(* What lies below the high mark. *)
Accounted(p) == Follows(p) =>
  \A s \in Seqs : from[p] < s /\ s <= highest[p] /\ log[s].at # "burnt"
                    => Has(p, s) \/ s \in holes[p]

Trimmed(p) == Follows(p) =>
  \A s \in Seqs : from[p] < s /\ log[s].at = "trimmed" => Has(p, s)

Marks(p) == /\ Fresh(p) /\ Ordered(p) /\ Remembered(p) /\ Restored(p)
            /\ Paged(p) /\ Accounted(p) /\ Trimmed(p)

MarksInv == \A p \in Proc : Marks(p)

-----------------------------------------------------------------------------
(* It implies the properties.                                              *)

LEMMA MarksWatermark ==
  ASSUME TypeOK, NEW p \in Proc, Marks(p), Follows(p), NEW s \in Seqs,
         from[p] < s, s <= applied[p]
  PROVE  /\ log[s].at # "open" \/ s \in dropped[p]
         /\ s \in Committed => Has(p, s)
<1>1. s \in Nat /\ applied[p] \in Nat /\ highest[p] \in Nat /\ holes[p] \subseteq Nat
  BY LogType DEF TypeOK
<1>2. s <= highest[p] /\ s \notin holes[p]
  BY <1>1 DEF Marks, Ordered
<1>3. log[s].at # "burnt" => Has(p, s)
  BY <1>2 DEF Marks, Accounted
<1>4. s \in seen[p] => s \in Committed
  BY DEF Marks, Remembered
<1> QED BY <1>3, <1>4 DEF Has, Committed

LEMMA MarksImply ==
  ASSUME TypeOK, MarksInv
  PROVE  NothingSkipped /\ WatermarkTrue /\ TrimSafe
<1>1. NothingSkipped
  BY DEF NothingSkipped, MarksInv, Marks, Accounted, Committed
<1>2. WatermarkTrue
  BY MarksWatermark DEF WatermarkTrue, MarksInv
<1>3. TrimSafe
  BY DEF TrimSafe, MarksInv, Marks, Trimmed
<1> QED BY <1>1, <1>2, <1>3

-----------------------------------------------------------------------------
(* Frames: a step that leaves the log, or a process, alone.                *)

Same(p) ==
  /\ phase'[p] = phase[p] /\ unread'[p] = unread[p] /\ seen'[p] = seen[p]
  /\ dropped'[p] = dropped[p] /\ highest'[p] = highest[p] /\ holes'[p] = holes[p]
  /\ applied'[p] = applied[p] /\ pull'[p] = pull[p] /\ reader'[p] = reader[p]
  /\ report'[p] = report[p] /\ base'[p] = base[p] /\ from'[p] = from[p]
  /\ gone'[p] = gone[p]

LEMMA SameMarks ==
  ASSUME NEW p \in Proc, Marks(p), Same(p), log' = log
  PROVE  Marks(p)'
<1>1. Seqs' = Seqs /\ Committed' = Committed
  BY DEF Seqs, Committed
<1>2. Fresh(p)' /\ Ordered(p)'
  BY DEF Same, Marks, Fresh, Ordered
<1>3. Remembered(p)' /\ Restored(p)'
  BY <1>1 DEF Same, Marks, Remembered, Restored
<1>4. Paged(p)'
  BY <1>1 DEF Same, Marks, Paged, Has
<1>5. Accounted(p)' /\ Trimmed(p)'
  BY <1>1 DEF Same, Marks, Accounted, Trimmed, Follows, Has
<1> QED BY <1>2, <1>3, <1>4, <1>5 DEF Marks

LEMMA MarksInit == ASSUME Init PROVE MarksInv
<1>1. Seqs = {} /\ Committed = {} /\ Len(log) = 0
  BY DEF Init, Seqs, Committed
<1> SUFFICES ASSUME NEW p \in Proc PROVE Marks(p)
  BY DEF MarksInv
<1>2. /\ phase[p] = "off" /\ unread[p] = Key /\ seen[p] = {} /\ highest[p] = 0
      /\ holes[p] = {} /\ applied[p] = 0 /\ pull[p].step = "idle" /\ reader[p] = None
      /\ report[p] = None /\ base[p] = {} /\ from[p] = 0 /\ ~gone[p]
  BY DEF Init, NoPull
<1>3. Fresh(p) /\ Ordered(p) /\ Remembered(p) /\ Restored(p)
  BY <1>1, <1>2 DEF Fresh, Ordered, Remembered, Restored
<1>4. Paged(p) /\ Accounted(p) /\ Trimmed(p)
  BY <1>1, <1>2 DEF Paged, Accounted, Trimmed, Follows
<1> QED BY <1>3, <1>4 DEF Marks

-----------------------------------------------------------------------------
(* Steps that change the log.                                              *)

(* The log grew, or a row moved on; a process's memory kept up with it. *)
Later(p) ==
  /\ phase'[p] = phase[p] /\ unread'[p] = unread[p] /\ dropped'[p] = dropped[p]
  /\ highest'[p] = highest[p] /\ holes'[p] = holes[p] /\ applied'[p] = applied[p]
  /\ pull'[p] = pull[p] /\ report'[p] = report[p] /\ base'[p] = base[p] /\ from'[p] = from[p]
  /\ reader'[p] \in {reader[p], None}
  /\ gone[p] => gone'[p]
  /\ seen[p] \subseteq seen'[p] /\ seen'[p] \subseteq Committed'
  /\ Len(log) <= Len(log')
  /\ \A s \in Seqs : /\ log'[s].by = log[s].by /\ log'[s].key = log[s].key
                     /\ log[s].at = "burnt" => log'[s].at = "burnt"
                     /\ s \in Committed => s \in Committed'
                     /\ log[s].by = p /\ s \in Committed' => s \in Committed \cup seen'[p]
  /\ \A s \in Seqs' \ Seqs : log'[s].at = "open" /\ (log'[s].by = p => phase[p] = "running")

LEMMA LaterSeqs ==
  ASSUME TypeOK, TypeOK', NEW p \in Proc, Later(p)
  PROVE  /\ Seqs \subseteq Seqs' /\ Seqs \subseteq Nat /\ Seqs' \subseteq Nat
         /\ Len(log) \in Nat /\ Len(log') \in Nat
         /\ \A s \in Seqs : s <= Len(log)
         /\ \A s \in Seqs' : s <= Len(log) => s \in Seqs
         /\ Committed \subseteq Committed'
<1>1. Len(log) \in Nat /\ Seqs = 1 .. Len(log)
  BY LogType
<1>2. Len(log') \in Nat /\ Seqs' = 1 .. Len(log')
  <2>1. log' \in Seq(Change)
    BY DEF TypeOK
  <2> QED BY <2>1, LenProperties DEF Seqs
<1>3. Committed \subseteq Committed'
  BY DEF Later, Committed
<1> QED BY <1>1, <1>2, <1>3 DEF Later

LEMMA LaterMarks ==
  ASSUME TypeOK, TypeOK', NEW p \in Proc, Marks(p), Later(p)
  PROVE  Ordered(p)' /\ Remembered(p)' /\ Paged(p)' /\ Accounted(p)'
<1>1. highest[p] \in Nat /\ applied[p] \in Nat /\ pull[p].last \in Nat /\ holes[p] \subseteq Nat
  BY DEF TypeOK, Pull
<1>2. Ordered(p)'
  <2>1. Len(log) \in Nat /\ Len(log') \in Nat /\ Len(log) <= Len(log')
    BY LaterSeqs DEF Later
  <2> QED BY <1>1, <2>1 DEF Later, Marks, Ordered, None
<1>3. Remembered(p)'
  <2>1. seen'[p] \subseteq Committed' /\ base'[p] \subseteq Committed'
    BY LaterSeqs DEF Later, Marks, Remembered
  <2>2. ASSUME NEW s \in Seqs', log'[s].by = p
        PROVE  /\ phase'[p] \in {"running", "stopped"}
               /\ phase'[p] = "running" /\ s \in Committed' => s \in seen'[p]
    <3>1. CASE s \in Seqs
      BY <3>1, <2>2 DEF Later, Marks, Remembered
    <3>2. CASE s \notin Seqs
      BY <3>2, <2>2 DEF Later, Committed
    <3> QED BY <3>1, <3>2
  <2> QED BY <2>1, <2>2 DEF Remembered
<1>4. \A s : Has(p, s) => Has(p, s)'
  BY DEF Later, Has
<1>5. Paged(p)'
  <2>1. ASSUME pull'[p].step \in {"paging", "refilling"}, NEW s \in pull'[p].rows
        PROVE  s \in Committed' /\ (Has(p, s)' \/ log'[s].key \in pull'[p].todo)
    <3>1. s \in Committed /\ (Has(p, s) \/ log[s].key \in pull[p].todo)
      BY <2>1 DEF Later, Marks, Paged
    <3> QED BY <3>1, <1>4, LaterSeqs DEF Later, Committed
  <2>2. ASSUME pull'[p].step = "paging", NEW s \in Seqs',
               highest'[p] < s, s <= pull'[p].last
        PROVE  s \in pull'[p].rows \cup holes'[p]
    <3>1. pull[p].step = "paging" /\ highest[p] < s /\ s <= pull[p].last /\ pull[p].last <= Len(log)
      BY <2>2 DEF Later, Marks, Ordered
    <3>2. s \in Seqs
      BY <1>1, <3>1, LaterSeqs
    <3> QED BY <3>1, <3>2 DEF Later, Marks, Paged
  <2> QED BY <2>1, <2>2 DEF Paged
<1>6. Accounted(p)'
  <2> SUFFICES ASSUME Follows(p)', NEW s \in Seqs', from'[p] < s, s <= highest'[p],
                      log'[s].at # "burnt"
               PROVE  Has(p, s)' \/ s \in holes'[p]
    BY DEF Accounted
  <2>1. Follows(p) /\ from[p] < s /\ s <= highest[p] /\ highest[p] <= Len(log)
    BY DEF Later, Follows, Marks, Ordered
  <2>2. s \in Seqs
    BY <1>1, <2>1, LaterSeqs
  <2>3. log[s].at # "burnt"
    BY <2>2 DEF Later
  <2> QED BY <1>4, <2>1, <2>2, <2>3 DEF Later, Marks, Accounted
<1> QED BY <1>2, <1>3, <1>5, <1>6

LEMMA WriteMarks ==
  ASSUME TypeOK, TypeOK', NEW p \in Proc, Marks(p), NEW o \in Origin, NEW k \in Key, Write(o, k)
  PROVE  Marks(p)'
<1>1. /\ Len(log) \in Nat /\ Seqs = 1 .. Len(log)
      /\ Len(log') = Len(log) + 1 /\ Seqs' = 1 .. Len(log) + 1
      /\ \A s \in Seqs : log'[s] = log[s]
      /\ log'[Len(log) + 1] = [by |-> o, key |-> k, at |-> "open"]
  BY LogType DEF Write, Seqs, TypeOK
<1>2. Seqs' \ Seqs = {Len(log) + 1}
  BY <1>1
<1>3. Committed' = Committed
  BY <1>1, <1>2 DEF Committed
<1>4. Later(p)
  BY <1>1, <1>2, <1>3 DEF Later, Write, starting, memory, marks, retention, Marks, Remembered
<1>5. Ordered(p)' /\ Remembered(p)' /\ Paged(p)' /\ Accounted(p)'
  BY <1>4, LaterMarks
<1>6. Fresh(p)'
  BY DEF Marks, Fresh, Write, starting, memory, marks, retention
<1>7. \A s \in Seqs' : log'[s].at = "trimmed" => s \in Seqs /\ log[s].at = "trimmed"
  BY <1>1, <1>2
<1>8. Restored(p)'
  BY <1>1, <1>7 DEF Marks, Restored, Remembered, Committed, Write, starting, memory
<1>9. Trimmed(p)'
  BY <1>7 DEF Marks, Trimmed, Follows, Has, Write, starting, memory, retention
<1> QED BY <1>5, <1>6, <1>8, <1>9 DEF Marks

(* A row that leaves "open", for a commit or a rollback. *)
LEMMA EndMarks ==
  ASSUME TypeOK, TypeOK', NEW p \in Proc, Marks(p), NEW q \in Seqs, Commit(q) \/ Rollback(q)
  PROVE  Marks(p)'
<1>1. /\ Len(log') = Len(log) /\ Seqs' = Seqs
      /\ \A s \in Seqs : s # q => log'[s] = log[s]
      /\ log'[q].by = log[q].by /\ log'[q].key = log[q].key
      /\ log[q].at = "open" /\ log'[q].at \in {"here", "burnt"}
  BY MarkedType, LogType DEF Commit, Rollback, Seqs, Change
<1>2. Committed \subseteq Committed' /\ Committed' \subseteq Committed \cup {q}
  BY <1>1 DEF Committed
<1>3. Commit(q) => q \in Committed'
  BY <1>1, LogType DEF Commit, Committed, Change
<1>4. Rollback(q) => q \notin Committed'
  BY <1>1, LogType DEF Rollback, Committed, Change
<1>5. seen'[p] = IF Commit(q) /\ log[q].by = p THEN seen[p] \cup {q} ELSE seen[p]
  BY <1>3, <1>4 DEF Commit, Rollback, memory, TypeOK
<1>6. /\ phase' = phase /\ unread' = unread /\ dropped' = dropped /\ highest' = highest
      /\ holes' = holes /\ applied' = applied /\ pull' = pull /\ report' = report
      /\ base' = base /\ from' = from /\ reader' = reader /\ gone' = gone
  BY DEF Commit, Rollback, starting, memory, marks, retention
<1>7. Later(p)
  <2>1. seen[p] \subseteq seen'[p] /\ seen'[p] \subseteq Committed'
    BY <1>2, <1>3, <1>5 DEF Marks, Remembered
  <2>2. \A s \in Seqs : /\ log'[s].by = log[s].by /\ log'[s].key = log[s].key
                        /\ log[s].at = "burnt" => log'[s].at = "burnt"
    BY <1>1
  <2>3. \A s \in Seqs : log[s].by = p /\ s \in Committed' => s \in Committed \cup seen'[p]
    BY <1>2, <1>4, <1>5
  <2> QED BY <1>1, <1>2, <1>6, <2>1, <2>2, <2>3, LogType DEF Later
<1>8. Ordered(p)' /\ Remembered(p)' /\ Paged(p)' /\ Accounted(p)'
  BY <1>7, LaterMarks
<1>9. Fresh(p)'
  BY <1>6 DEF Marks, Fresh
<1>10. \A s \in Seqs' : log'[s].at = "trimmed" => log[s].at = "trimmed"
  BY <1>1
<1>11. Restored(p)'
  BY <1>1, <1>6, <1>7, <1>10 DEF Marks, Restored, Remembered, Committed, Later
<1>12. Trimmed(p)'
  BY <1>1, <1>6, <1>7, <1>10 DEF Marks, Trimmed, Follows, Has, Later
<1> QED BY <1>8, <1>9, <1>11, <1>12 DEF Marks

(* Why the trim is safe: a row it removes is below the mark of a process   *)
(* that reports, and older than the restore of one that does not yet.      *)
LEMMA PurgeMarks ==
  ASSUME TypeOK, TypeOK', NEW p \in Proc, Marks(p), NEW away \in SUBSET Readers, Purge(away)
  PROVE  Marks(p)'
<1>1. /\ Len(log') = Len(log) /\ Seqs' = Seqs
      /\ \A s \in Seqs : \/ log'[s] = log[s]
                         \/ /\ s \in Visible
                            /\ log'[s] = [log[s] EXCEPT !.at = "trimmed"]
                            /\ OldEnough(s)
                            /\ \A o \in Readers \ away : s < reader[o]
  <2>1. log \in Seq(Change) /\ log' \in Seq(Change)
    BY DEF TypeOK
  <2> QED BY <2>1, PurgeLog, LenProperties DEF Seqs
<1>2. \A s \in Seqs : /\ log'[s].by = log[s].by /\ log'[s].key = log[s].key
                      /\ log'[s].at \in {log[s].at, "trimmed"}
                      /\ log'[s].at # log[s].at => log[s].at = "here"
  <2>1. \A s \in Seqs : log[s] \in Change
    BY LogType
  <2>2. ASSUME NEW s \in Seqs, s \in Visible, log'[s] = [log[s] EXCEPT !.at = "trimmed"]
        PROVE  /\ log'[s].by = log[s].by /\ log'[s].key = log[s].key
               /\ log'[s].at = "trimmed" /\ log[s].at = "here"
    BY <2>1, <2>2 DEF Change, Visible
  <2> QED BY <1>1, <2>2
<1>3. Committed' = Committed
  BY <1>1, <1>2 DEF Committed
<1>4. /\ phase' = phase /\ unread' = unread /\ dropped' = dropped /\ highest' = highest
      /\ holes' = holes /\ applied' = applied /\ pull' = pull /\ report' = report
      /\ base' = base /\ from' = from /\ seen' = seen
  BY DEF Purge, starting, memory, marks
<1>5. /\ reader'[p] = IF p \in away THEN None ELSE reader[p]
      /\ gone'[p] <=> gone[p] \/ (p \in away /\ phase[p] = "running")
  BY DEF Purge, TypeOK
<1>6. Later(p)
  BY <1>1, <1>2, <1>3, <1>4, <1>5, LogType DEF Later, Marks, Remembered
<1>7. Ordered(p)' /\ Remembered(p)' /\ Paged(p)' /\ Accounted(p)'
  BY <1>6, LaterMarks
<1>8. Fresh(p)'
  BY <1>4, <1>5 DEF Marks, Fresh
<1>9. ASSUME NEW s \in Seqs, log'[s].at = "trimmed", log[s].at # "trimmed"
      PROVE  /\ s \in Committed
             /\ phase[p] = "restoring" => s \in base[p]
             /\ Follows(p)' /\ from[p] < s => Has(p, s)
  <2>1. /\ s \in Visible /\ OldEnough(s) /\ s \in Committed
        /\ \A o \in Readers \ away : s < reader[o]
    BY <1>1, <1>9 DEF Visible, Committed
  <2>2. phase[p] \in {"restoring", "running"} /\ reader[p] = None /\ ~gone[p] => s \in base[p]
    BY <2>1 DEF OldEnough, Unreported
  <2>3. phase[p] = "restoring" => s \in base[p]
    BY <2>2 DEF Marks, Fresh
  <2>4. ASSUME Follows(p)', from[p] < s PROVE Has(p, s)
    <3>1. Follows(p) /\ p \notin away
      BY <1>4, <1>5, <2>4 DEF Follows
    <3>2. CASE reader[p] = None
      BY <2>2, <3>1, <3>2 DEF Follows, Marks, Restored, Has
    <3>3. CASE reader[p] # None
      <4>1. s < reader[p] /\ reader[p] <= applied[p]
        BY <2>1, <3>1, <3>3 DEF Readers, Marks, Ordered, Follows
      <4>2. s \in Nat /\ applied[p] \in Nat /\ reader[p] \in Nat
        BY <3>3, LogType DEF TypeOK
      <4>3. s <= applied[p]
        BY <4>1, <4>2
      <4> QED BY <2>1, <2>4, <3>1, <4>3, MarksWatermark
    <3> QED BY <3>2, <3>3
  <2> QED BY <2>1, <2>3, <2>4
<1>10. Restored(p)'
  BY <1>1, <1>2, <1>4, <1>9 DEF Marks, Restored, Remembered, Committed
<1>11. Trimmed(p)'
  <2> SUFFICES ASSUME Follows(p)', NEW s \in Seqs, from[p] < s, log'[s].at = "trimmed"
               PROVE  Has(p, s)
    BY <1>1, <1>4 DEF Trimmed, Has
  <2>1. Follows(p)
    BY <1>4, <1>5 DEF Follows
  <2> QED BY <1>9, <2>1 DEF Marks, Trimmed
<1> QED BY <1>7, <1>8, <1>10, <1>11 DEF Marks

-----------------------------------------------------------------------------
(* Steps of one process.  The log stands still.                            *)

SameLog == log' = log /\ Seqs' = Seqs /\ Visible' = Visible /\ Committed' = Committed

LEMMA SameLogs == ASSUME log' = log PROVE SameLog
BY DEF SameLog, Seqs, Visible, Committed

LEMMA MarksType ==
  ASSUME TypeOK, NEW p \in Proc
  PROVE  /\ highest[p] \in Nat /\ applied[p] \in Nat /\ from[p] \in Nat
         /\ holes[p] \subseteq Nat /\ pull[p].last \in Nat
         /\ reader[p] \in Nat \cup {None} /\ report[p] \in Nat \cup {None}
         /\ Len(log) \in Nat
BY LogType DEF TypeOK, Pull

LEMMA StartsMarks ==
  ASSUME TypeOK, NEW p \in Proc, Marks(p), Starts(p)
  PROVE  Marks(p)'
<1>1. CASE BeginRestore(p)
  <2>1. /\ SameLog /\ phase[p] = "off" /\ phase'[p] = "restoring" /\ base'[p] = Committed
        /\ unread'[p] = Key /\ seen'[p] = seen[p] /\ dropped'[p] = dropped[p]
        /\ highest'[p] = highest[p] /\ holes'[p] = holes[p] /\ applied'[p] = applied[p]
        /\ pull'[p] = pull[p] /\ reader'[p] = reader[p] /\ report'[p] = report[p]
        /\ from'[p] = from[p] /\ gone'[p] = gone[p] /\ log' = log
    BY <1>1, SameLogs DEF BeginRestore, memory, marks, retention, TypeOK, Marks, Fresh
  <2>2. Fresh(p)' /\ Ordered(p)' /\ Remembered(p)'
    BY <2>1 DEF SameLog, Marks, Fresh, Ordered, Remembered
  <2>3. Restored(p)'
    BY <2>1, LogType DEF SameLog, Restored, Committed, Change
  <2>4. Paged(p)' /\ Accounted(p)' /\ Trimmed(p)'
    BY <2>1 DEF Marks, Fresh, Paged, Accounted, Trimmed, Follows
  <2> QED BY <2>2, <2>3, <2>4 DEF Marks
<1>2. ASSUME NEW k \in Key, Restore(p, k) PROVE Marks(p)'
  <2>1. /\ SameLog /\ phase[p] = "restoring" /\ phase'[p] = "restoring" /\ base'[p] = base[p]
        /\ unread'[p] = unread[p] \ {k} /\ seen'[p] = seen[p] \cup Outcomes(k)
        /\ highest'[p] = highest[p] /\ holes'[p] = holes[p] /\ applied'[p] = applied[p]
        /\ pull'[p] = pull[p] /\ reader'[p] = reader[p] /\ report'[p] = report[p]
        /\ from'[p] = from[p] /\ gone'[p] = gone[p] /\ log' = log
    BY <1>2, SameLogs DEF Restore, marks, retention, TypeOK
  <2>2. Fresh(p)' /\ Ordered(p)'
    BY <2>1 DEF Marks, Fresh, Ordered
  <2>3. Remembered(p)'
    BY <2>1 DEF SameLog, Marks, Remembered, Outcomes
  <2>4. Restored(p)'
    BY <2>1 DEF SameLog, Marks, Remembered, Restored, Outcomes
  <2>5. Paged(p)' /\ Accounted(p)' /\ Trimmed(p)'
    BY <2>1 DEF Marks, Fresh, Paged, Accounted, Trimmed, Follows
  <2> QED BY <2>2, <2>3, <2>4, <2>5 DEF Marks
<1>3. CASE Start(p)
  <2>1. /\ SameLog /\ phase[p] = "restoring" /\ phase'[p] = "running" /\ base'[p] = base[p]
        /\ unread[p] = {} /\ unread'[p] = {} /\ seen'[p] = seen[p] /\ holes'[p] = {}
        /\ dropped'[p] = dropped[p] /\ pull'[p] = pull[p] /\ pull[p].step = "idle"
        /\ reader'[p] = None /\ reader[p] = None /\ report[p] = None /\ from[p] = 0
        /\ gone'[p] = gone[p] /\ ~gone[p] /\ log' = log
        /\ highest'[p] = from'[p] /\ applied'[p] = from'[p]
    BY <1>3, SameLogs DEF Start, memory, TypeOK, Marks, Fresh
  <2>2. from'[p] \in 0 .. Len(log) /\ report'[p] \in {None, from'[p]}
    <3>1. CASE UNCHANGED <<from, report>>
      BY <2>1, <3>1, MarksType
    <3>2. ASSUME NEW top \in Visible \cup {0}, from' = [from EXCEPT ![p] = top],
                 report' = [report EXCEPT ![p] = top]
          PROVE  from'[p] \in 0 .. Len(log) /\ report'[p] \in {None, from'[p]}
      <4>1. top \in 0 .. Len(log)
        BY LogType DEF Visible
      <4> QED BY <3>2, <4>1 DEF TypeOK
    <3> QED BY <1>3, <3>1, <3>2 DEF Start
  <2>3. Fresh(p)'
    BY <2>1 DEF Fresh
  <2>4. Ordered(p)'
    BY <2>1, <2>2, MarksType DEF Ordered, None
  <2>5. Restored(p)' /\ Trimmed(p)'
    BY <2>1 DEF SameLog, Marks, Restored, Trimmed, Has
  <2>6. Paged(p)'
    BY <2>1 DEF Paged
  <2>7. Accounted(p)'
    BY <2>1, <2>2, LogType DEF SameLog, Accounted
  <2>8. ~\E s \in Seqs : log[s].by = p
    BY <2>1 DEF Marks, Remembered
  <2>9. Remembered(p)'
    BY <2>1, <2>8 DEF SameLog, Marks, Remembered
  <2> QED BY <2>3, <2>4, <2>5, <2>6, <2>7, <2>9 DEF Marks
<1> QED BY <1>1, <1>2, <1>3 DEF Starts

LEMMA StopsMarks ==
  ASSUME TypeOK, NEW p \in Proc, Marks(p), Stop(p) \/ Killed(p)
  PROVE  Marks(p)'
<1>1. /\ SameLog /\ phase'[p] = "stopped" /\ seen'[p] = {} /\ highest'[p] = 0 /\ holes'[p] = {}
      /\ applied'[p] = 0 /\ pull'[p].step = "idle" /\ base'[p] = {} /\ from'[p] = 0 /\ ~gone'[p]
      /\ log' = log
  <2>1. Exit(p)
    BY DEF Stop, Killed
  <2>2. /\ phase'[p] = "stopped" /\ seen'[p] = {} /\ highest'[p] = 0 /\ holes'[p] = {}
        /\ applied'[p] = 0 /\ base'[p] = {} /\ from'[p] = 0 /\ log' = log
    BY <2>1 DEF Exit, TypeOK
  <2>3. pull'[p] = NoPull
    BY <2>1 DEF Exit, TypeOK
  <2>4. ~gone'[p]
    BY <2>1 DEF Exit, TypeOK
  <2> QED BY <2>2, <2>3, <2>4, SameLogs DEF NoPull
<1>2. Fresh(p)' /\ Remembered(p)' /\ Restored(p)'
  BY <1>1 DEF Fresh, Remembered, Restored
<1>3. Ordered(p)'
  BY <1>1, MarksType DEF Ordered
<1>4. Paged(p)' /\ Accounted(p)' /\ Trimmed(p)'
  BY <1>1 DEF Paged, Accounted, Trimmed, Follows
<1> QED BY <1>2, <1>3, <1>4 DEF Marks

(* A step of a pull: it changes a running process's marks, pull and memory. *)
Pulling(p) ==
  /\ SameLog
  /\ phase[p] = "running" /\ phase'[p] = "running"
  /\ unread'[p] = unread[p] /\ base'[p] = base[p] /\ from'[p] = from[p]
  /\ reader'[p] = reader[p] /\ gone'[p] = gone[p]
  /\ seen[p] \subseteq seen'[p] /\ dropped[p] \subseteq dropped'[p]

LEMMA PullingMarks ==
  ASSUME TypeOK, NEW p \in Proc, Marks(p), Pulling(p), seen'[p] \subseteq Committed
  PROVE  Fresh(p)' /\ Remembered(p)' /\ Restored(p)' /\ Trimmed(p)'
BY DEF Pulling, SameLog, Marks, Fresh, Remembered, Restored, Trimmed, Follows, Has

LEMMA FetchPageMarks ==
  ASSUME TypeOK, NEW p \in Proc, Marks(p), FetchPage(p)
  PROVE  Marks(p)'
<1>1. /\ Pulling(p) /\ pull[p].step = "page" /\ log' = log /\ seen'[p] = seen[p]
      /\ dropped'[p] = dropped[p] /\ highest'[p] = highest[p] /\ applied'[p] = applied[p]
      /\ report'[p] = report[p]
  BY SameLogs DEF FetchPage, Pulling, starting, memory, retention, Marks, Fresh
<1>2. Fresh(p)' /\ Remembered(p)' /\ Restored(p)' /\ Trimmed(p)'
  <2>1. seen'[p] \subseteq Committed
    BY <1>1 DEF Marks, Remembered
  <2> QED BY <1>1, <2>1, PullingMarks
<1>3. \A h \in holes[p] : applied[p] < h /\ h <= highest[p]
  BY <1>1 DEF Marks, Ordered
<1>4. CASE pull' = [pull EXCEPT ![p].step = "recheck"] /\ UNCHANGED holes
  <2>1. pull'[p].step = "recheck"
    BY <1>4 DEF TypeOK, Pull
  <2>2. Ordered(p)'
    BY <1>1, <1>3, <1>4, <2>1 DEF Marks, Ordered, Pulling
  <2>3. Paged(p)' /\ Accounted(p)'
    BY <1>1, <1>4, <2>1 DEF Marks, Paged, Accounted, Pulling, SameLog, Has, Follows
  <2> QED BY <1>2, <2>2, <2>3 DEF Marks
<1>5. ASSUME NEW last \in Above(p), NEW rows, rows = {s \in Above(p) : s <= last},
             pull' = [pull EXCEPT ![p] =
                [@ EXCEPT !.step = "paging", !.rows = rows, !.last = last,
                          !.todo = Pointed(p, rows), !.full = Cardinality(rows) = Page]],
             holes' = [holes EXCEPT ![p] = @ \cup Gaps(p, rows, last)]
      PROVE  Marks(p)'
  <2>1. /\ pull'[p].step = "paging" /\ pull'[p].rows = rows /\ pull'[p].last = last
        /\ pull'[p].todo = Pointed(p, rows)
    BY <1>5 DEF TypeOK, Pull
  <2>2. holes'[p] = holes[p] \cup ((highest[p] + 1 .. last) \ rows)
    BY <1>5 DEF TypeOK, Gaps
  <2>3. last \in Nat /\ highest[p] < last /\ last <= Len(log) /\ rows \subseteq Visible
    BY <1>5, LogType DEF Above, Visible
  <2>4. Ordered(p)'
    BY <1>1, <1>3, <2>1, <2>2, <2>3, MarksType DEF Marks, Ordered, Pulling
  <2>5. Paged(p)'
    <3>1. ASSUME NEW s \in rows PROVE s \in Committed /\ (Has(p, s) \/ log[s].key \in Pointed(p, rows))
      <4>1. s \in Committed /\ s \in Seqs
        BY <2>3 DEF Visible, Committed
      <4>2. CASE log[s].by = p
        BY <1>1, <4>1, <4>2 DEF Pulling, Marks, Remembered, Has
      <4>3. CASE log[s].by # p
        BY <4>1, <4>3 DEF Pointed
      <4> QED BY <4>1, <4>2, <4>3
    <3>2. ASSUME NEW s \in Seqs, highest[p] < s, s <= last PROVE s \in rows \cup holes'[p]
      BY <2>2, <2>3, <3>2, LogType, MarksType
    <3> QED BY <1>1, <2>1, <3>1, <3>2 DEF Paged, Pulling, SameLog, Has
  <2>6. Accounted(p)'
    BY <1>1, <2>2 DEF Marks, Accounted, Pulling, SameLog, Has, Follows
  <2> QED BY <1>2, <2>4, <2>5, <2>6 DEF Marks
<1> QED BY <1>4, <1>5 DEF FetchPage

(* A key of the page, or of the holes found, was read or given up on. *)
LEMMA ApplyMarks ==
  ASSUME TypeOK, NEW p \in Proc, Marks(p), NEW k \in Key, Apply(p, k) \/ ApplyFails(p, k)
  PROVE  Marks(p)'
<1>1. /\ pull'[p] = [pull[p] EXCEPT !.todo = @ \ {k}] /\ pull[p] \in Pull
      /\ pull[p].step \in {"paging", "refilling"}
  BY DEF Apply, ApplyFails, TypeOK
<1>2. /\ pull'[p].step = pull[p].step /\ pull'[p].rows = pull[p].rows
      /\ pull'[p].last = pull[p].last /\ pull'[p].todo = pull[p].todo \ {k}
  BY <1>1 DEF Pull
<1>3. /\ Pulling(p) /\ log' = log /\ highest'[p] = highest[p] /\ applied'[p] = applied[p]
      /\ holes'[p] = holes[p] /\ report'[p] = report[p]
  BY <1>1, SameLogs DEF Apply, ApplyFails, Pulling, starting, marks, retention, Marks, Fresh, TypeOK
<1>4. Fresh(p)' /\ Remembered(p)' /\ Restored(p)' /\ Trimmed(p)'
  <2>1. seen'[p] \subseteq Committed
    BY DEF Apply, ApplyFails, Outcomes, Marks, Remembered, TypeOK
  <2> QED BY <1>3, <2>1, PullingMarks
<1>5. Ordered(p)'
  BY <1>2, <1>3 DEF Marks, Ordered, Pulling
<1>6. \A s : Has(p, s) => Has(p, s)'
  BY <1>3 DEF Has, Pulling
<1>7. ASSUME NEW s \in pull[p].rows, log[s].key = k PROVE Has(p, s)'
  <2>1. s \in Committed
    BY <1>1 DEF Marks, Paged
  <2>2. Apply(p, k) => s \in seen'[p]
    BY <1>7, <2>1 DEF Apply, Outcomes, TypeOK
  <2>3. ApplyFails(p, k) => s \in dropped'[p]
    BY <1>7 DEF ApplyFails, TypeOK
  <2> QED BY <2>2, <2>3 DEF Has
<1>8. Paged(p)'
  BY <1>1, <1>2, <1>3, <1>6, <1>7 DEF Marks, Paged, Pulling, SameLog
<1>9. Accounted(p)'
  BY <1>3, <1>6 DEF Marks, Accounted, Pulling, SameLog, Follows
<1> QED BY <1>4, <1>5, <1>8, <1>9 DEF Marks

LEMMA PageDoneMarks ==
  ASSUME TypeOK, NEW p \in Proc, Marks(p), PageDone(p)
  PROVE  Marks(p)'
<1>1. /\ Pulling(p) /\ log' = log /\ seen'[p] = seen[p] /\ dropped'[p] = dropped[p]
      /\ holes'[p] = holes[p] /\ applied'[p] = applied[p] /\ report'[p] = report[p]
      /\ highest'[p] = pull[p].last /\ pull[p].step = "paging" /\ pull[p].todo = {}
      /\ pull'[p].step \in {"page", "recheck"}
  BY SameLogs DEF PageDone, NoPull, Pulling, starting, memory, retention, Marks, Fresh, TypeOK
<1>2. Fresh(p)' /\ Remembered(p)' /\ Restored(p)' /\ Trimmed(p)'
  <2>1. seen'[p] \subseteq Committed
    BY <1>1 DEF Marks, Remembered
  <2> QED BY <1>1, <2>1, PullingMarks
<1>3. Ordered(p)'
  BY <1>1, MarksType DEF Marks, Ordered, Pulling
<1>4. Paged(p)'
  BY <1>1 DEF Paged
<1>5. Accounted(p)'
  <2> SUFFICES ASSUME Follows(p), NEW s \in Seqs, from[p] < s, s <= pull[p].last,
                      log[s].at # "burnt"
               PROVE  Has(p, s) \/ s \in holes[p]
    BY <1>1 DEF Accounted, Pulling, SameLog, Follows, Has
  <2>1. CASE s <= highest[p]
    BY <2>1 DEF Marks, Accounted
  <2>2. CASE highest[p] < s
    BY <1>1, <2>2 DEF Marks, Paged
  <2> QED BY <2>1, <2>2, LogType, MarksType
<1> QED BY <1>2, <1>3, <1>4, <1>5 DEF Marks

LEMMA FinishMarks ==
  ASSUME TypeOK, NEW p \in Proc, Marks(p), Pulling(p), Finish(p), log' = log,
         seen'[p] \subseteq Committed, highest'[p] = highest[p],
         applied'[p] \in Nat, applied[p] <= applied'[p], applied'[p] <= highest[p],
         \A h \in holes'[p] : h \in holes[p] /\ applied'[p] < h,
         \A s \in holes[p] \ holes'[p] :
           Follows(p) /\ from[p] < s /\ log[s].at # "burnt" => Has(p, s)',
         pull[p].step # "paging"
  PROVE  Marks(p)'
<1>1. pull'[p].step \in {"idle", "page"} /\ report'[p] \in {report[p], applied'[p]}
  BY DEF Finish, NewPull, NoPull, Position, TypeOK
<1>2. Fresh(p)' /\ Remembered(p)' /\ Restored(p)' /\ Trimmed(p)'
  BY PullingMarks
<1>3. Ordered(p)'
  <2>1. reader[p] <= applied[p] /\ report[p] <= applied[p]
    BY DEF Marks, Ordered, Pulling
  <2>2. reader'[p] <= applied'[p] /\ report'[p] <= applied'[p]
    BY <1>1, <2>1, MarksType DEF Pulling, None
  <2>3. \A h \in holes[p] : h <= highest[p]
    BY DEF Marks, Ordered
  <2> QED BY <1>1, <2>2, <2>3 DEF Marks, Ordered
<1>4. Paged(p)'
  BY <1>1 DEF Paged
<1>5. \A s : Has(p, s) => Has(p, s)'
  BY DEF Has, Pulling
<1>6. Accounted(p)'
  BY <1>5 DEF Marks, Accounted, Pulling, SameLog, Follows
<1> QED BY <1>2, <1>3, <1>4, <1>6 DEF Marks

LEMMA NoHolesMarks ==
  ASSUME TypeOK, NEW p \in Proc, Marks(p), NoHoles(p)
  PROVE  Marks(p)'
<1>1. /\ Pulling(p) /\ log' = log /\ seen'[p] = seen[p] /\ holes'[p] = {} /\ holes[p] = {}
      /\ highest'[p] = highest[p] /\ applied'[p] = highest[p] /\ pull[p].step = "recheck"
      /\ Finish(p)
  BY SameLogs DEF NoHoles, Pulling, starting, memory, Marks, Fresh, TypeOK
<1>2. applied[p] <= highest[p] /\ seen'[p] \subseteq Committed
  BY <1>1 DEF Marks, Ordered, Remembered
<1> QED BY <1>1, <1>2, FinishMarks, MarksType

LEMMA SettleMarks ==
  ASSUME TypeOK, NEW p \in Proc, Marks(p), Settle(p)
  PROVE  Marks(p)'
<1>1. PICK expired \in SUBSET holes[p], over \in SUBSET holes[p] :
        LET kept == ((holes[p] \ pull[p].rows) \ expired) \ over
        IN /\ Expired(p, expired, over)
           /\ holes' = [holes EXCEPT ![p] = kept]
           /\ dropped' = [dropped EXCEPT ![p] = @ \cup over]
           /\ Settled(p, kept)
  BY DEF Settle
<1> DEFINE kept == ((holes[p] \ pull[p].rows) \ expired) \ over
<1> HIDE DEF kept
<1>2. /\ holes'[p] = kept /\ dropped'[p] = dropped[p] \cup over /\ kept \subseteq holes[p]
      /\ Settled(p, kept) /\ Expired(p, expired, over)
  BY <1>1 DEF TypeOK, kept
<1>3. /\ Pulling(p) /\ log' = log /\ seen'[p] = seen[p] /\ highest'[p] = highest[p]
      /\ pull[p].step = "refilling" /\ pull[p].todo = {} /\ Finish(p)
  BY <1>2, SameLogs DEF Settle, Pulling, starting, Marks, Fresh
<1>4. \A h \in holes[p] : h \in Nat /\ applied[p] < h /\ h <= highest[p]
  BY <1>3, MarksType DEF Marks, Ordered
<1>5. applied[p] <= highest[p] /\ highest[p] \in Nat /\ applied[p] \in Nat
  BY MarksType DEF Marks, Ordered
<1>6. /\ applied'[p] \in Nat /\ applied[p] <= applied'[p] /\ applied'[p] <= highest[p]
      /\ \A h \in kept : applied'[p] < h
  <2>1. CASE kept = {} /\ applied' = [applied EXCEPT ![p] = highest[p]]
    BY <1>5, <2>1 DEF TypeOK
  <2>2. ASSUME NEW oldest \in kept, \A s \in kept : oldest <= s,
               applied' = [applied EXCEPT ![p] = IF oldest - 1 > @ THEN oldest - 1 ELSE @]
        PROVE  /\ applied'[p] \in Nat /\ applied[p] <= applied'[p] /\ applied'[p] <= highest[p]
               /\ \A h \in kept : applied'[p] < h
    <3>1. applied'[p] = IF oldest - 1 > applied[p] THEN oldest - 1 ELSE applied[p]
      BY <2>2 DEF TypeOK
    <3>2. \A h \in kept : h \in Nat /\ applied[p] < h /\ h <= highest[p] /\ oldest <= h
      BY <1>2, <1>4, <2>2
    <3> QED BY <1>5, <3>1, <3>2
  <2> QED BY <1>2, <2>1, <2>2 DEF Settled
<1>7. ASSUME NEW s \in holes[p] \ kept, Follows(p), from[p] < s, log[s].at # "burnt"
      PROVE  Has(p, s)'
  <2>1. CASE s \in pull[p].rows
    BY <1>3, <2>1 DEF Marks, Paged, Has, Pulling
  <2>2. CASE s \in expired
    <3>1. log[s].at = "trimmed"
      BY <1>2, <1>7, <2>2 DEF Expired, Dead
    <3>2. s \in Seqs
      BY <1>4, <1>7, LogType, MarksType DEF Marks, Ordered
    <3> QED BY <1>3, <1>7, <3>1, <3>2 DEF Marks, Trimmed, Has, Pulling
  <2>3. CASE s \in over
    BY <1>2, <2>3 DEF Has
  <2> QED BY <1>7, <2>1, <2>2, <2>3 DEF kept
<1>8. seen'[p] \subseteq Committed
  BY <1>3 DEF Marks, Remembered
<1> QED BY <1>2, <1>3, <1>6, <1>7, <1>8, FinishMarks

(* A pull starts, asks for the holes, or fails. *)
LEMMA PullMarks ==
  ASSUME TypeOK, NEW p \in Proc, Marks(p),
         StartPull(p) \/ Nudge(p) \/ AskHoles(p) \/ PullFails(p)
  PROVE  Marks(p)'
<1>1. /\ Pulling(p) /\ log' = log /\ seen'[p] = seen[p] /\ dropped'[p] = dropped[p]
      /\ highest'[p] = highest[p] /\ holes'[p] = holes[p] /\ applied'[p] = applied[p]
      /\ report'[p] = report[p]
  BY SameLogs DEF StartPull, Nudge, AskHoles, PullFails, Pulling, starting, memory, marks,
                  retention, Marks, Fresh
<1>2. Fresh(p)' /\ Remembered(p)' /\ Restored(p)' /\ Trimmed(p)'
  <2>1. seen'[p] \subseteq Committed
    BY <1>1 DEF Marks, Remembered
  <2> QED BY <1>1, <2>1, PullingMarks
<1>3. \/ /\ pull[p].step # "paging" /\ pull'[p].step \in {"idle", "page"}
      \/ /\ pull[p].step # "paging" /\ pull'[p].step = "refilling"
         /\ pull'[p].rows = Found(p) /\ pull'[p].todo = Pointed(p, Found(p))
      \/ pull'[p] = pull[p]
  <2>1. pull[p] \in Pull
    BY DEF TypeOK
  <2>2. StartPull(p) \/ PullFails(p) => pull[p].step # "paging" /\ pull'[p].step \in {"idle", "page"}
    <3>1. StartPull(p) => pull[p].step = "idle" /\ pull'[p] = NewPull(Waiting(p))
      BY DEF StartPull, TypeOK
    <3>2. PullFails(p) => pull[p].step \in {"page", "recheck"} /\ pull'[p] = NoPull
      BY DEF PullFails, TypeOK
    <3>3. NoPull.step = "idle" /\ NewPull(Waiting(p)).step = "page"
      BY DEF NewPull, NoPull
    <3> QED BY <3>1, <3>2, <3>3
  <2>3. AskHoles(p) =>
           /\ pull[p].step # "paging" /\ pull'[p].step = "refilling"
           /\ pull'[p].rows = Found(p) /\ pull'[p].todo = Pointed(p, Found(p))
    BY <2>1 DEF AskHoles, TypeOK, Pull
  <2>4. Nudge(p) => pull'[p] = pull[p]
    BY DEF Nudge
  <2> QED BY <2>2, <2>3, <2>4
<1>4. Ordered(p)'
  BY <1>1, <1>3 DEF Marks, Ordered, Pulling
<1>5. Accounted(p)'
  BY <1>1 DEF Marks, Accounted, Pulling, SameLog, Has, Follows
<1>6. Paged(p)'
  <2>1. ASSUME NEW s \in Found(p)
        PROVE  s \in Committed /\ (Has(p, s) \/ log[s].key \in Pointed(p, Found(p)))
    <3>1. s \in Committed /\ s \in Seqs
      BY DEF Found, Visible, Committed
    <3>2. CASE log[s].by = p
      BY <1>1, <3>1, <3>2 DEF Pulling, Marks, Remembered, Has
    <3>3. CASE log[s].by # p
      BY <3>1, <3>3 DEF Pointed
    <3> QED BY <3>1, <3>2, <3>3
  <2> QED BY <1>1, <1>3, <2>1 DEF Marks, Paged, Pulling, SameLog, Has
<1> QED BY <1>2, <1>4, <1>5, <1>6 DEF Marks

LEMMA ReportMarks ==
  ASSUME TypeOK, NEW p \in Proc, Marks(p), Reported(p) \/ ReportFails(p)
  PROVE  Marks(p)'
<1>1. /\ SameLog /\ log' = log /\ report[p] # None /\ report'[p] = None
      /\ reader'[p] \in {reader[p], report[p]}
  BY SameLogs DEF Reported, ReportFails, TypeOK
<1>2. /\ phase' = phase /\ unread' = unread /\ seen' = seen /\ dropped' = dropped
      /\ highest' = highest /\ holes' = holes /\ applied' = applied /\ pull' = pull
      /\ base' = base /\ from' = from /\ gone' = gone
  BY DEF Reported, ReportFails, starting, memory, marks
<1>3. Fresh(p)'
  BY <1>1, <1>2 DEF Marks, Fresh
<1>4. Ordered(p)'
  BY <1>1, <1>2, MarksType DEF Marks, Ordered, None
<1>5. Remembered(p)' /\ Restored(p)' /\ Paged(p)' /\ Accounted(p)' /\ Trimmed(p)'
  BY <1>1, <1>2 DEF SameLog, Marks, Remembered, Restored, Paged, Accounted, Trimmed, Follows, Has
<1> QED BY <1>3, <1>4, <1>5 DEF Marks

-----------------------------------------------------------------------------
LEMMA StepMarks ==
  ASSUME TypeOK, NEW p \in Proc, Marks(p), Works(p) \/ Fails(p)
  PROVE  Marks(p)'
<1>1. ASSUME NEW k \in Key, Apply(p, k) \/ ApplyFails(p, k) PROVE Marks(p)'
  BY <1>1, ApplyMarks
<1> QED BY <1>1, StartsMarks, StopsMarks, FetchPageMarks, PageDoneMarks, NoHolesMarks, SettleMarks,
           PullMarks, ReportMarks
        DEF Works, Fails, Reads

(* A process's step leaves the others alone. *)
LEMMA OthersSame ==
  ASSUME TypeOK, NEW p \in Proc, NEW q \in Proc \ {p}, Works(p) \/ Fails(p)
  PROVE  Same(q) /\ log' = log
<1>1. CASE Starts(p)
  BY <1>1 DEF Starts, BeginRestore, Restore, Start, Same, memory, marks, retention, TypeOK
<1>2. CASE Stop(p) \/ Killed(p)
  <2>1. Exit(p) /\ (UNCHANGED reader \/ reader' = [reader EXCEPT ![p] = None])
    BY <1>2 DEF Stop, Killed
  <2> QED BY <2>1 DEF Exit, Same, TypeOK
<1>3. CASE StartPull(p) \/ Nudge(p) \/ AskHoles(p) \/ PullFails(p)
  BY <1>3 DEF StartPull, Nudge, AskHoles, PullFails, Same, starting, memory, marks, retention, TypeOK
<1>4. CASE FetchPage(p) \/ PageDone(p)
  BY <1>4 DEF FetchPage, PageDone, Same, starting, memory, retention, TypeOK
<1>5. ASSUME NEW k \in Key, Apply(p, k) \/ ApplyFails(p, k) PROVE Same(q) /\ log' = log
  BY <1>5 DEF Apply, ApplyFails, Same, starting, marks, retention, TypeOK
<1>6. CASE NoHoles(p) \/ Settle(p)
  <2>1. applied'[q] = applied[q]
    BY <1>6 DEF NoHoles, Settle, Settled, TypeOK
  <2>2. holes'[q] = holes[q] /\ dropped'[q] = dropped[q] /\ seen'[q] = seen[q]
    BY <1>6 DEF NoHoles, Settle, memory, TypeOK
  <2>3. Finish(p) /\ highest' = highest /\ log' = log /\ reader' = reader /\ gone' = gone
        /\ UNCHANGED starting
    BY <1>6 DEF NoHoles, Settle
  <2>4. pull'[q] = pull[q] /\ report'[q] = report[q]
    BY <2>3 DEF Finish, TypeOK
  <2> QED BY <2>1, <2>2, <2>3, <2>4 DEF Same, starting
<1>7. CASE Reported(p) \/ ReportFails(p)
  BY <1>7 DEF Reported, ReportFails, Same, starting, memory, marks, TypeOK
<1> QED BY <1>1, <1>2, <1>3, <1>4, <1>5, <1>6, <1>7 DEF Works, Fails, Reads

LEMMA MarksStep ==
  ASSUME ReplicationAssumption, TypeOK, TypeOK', MarksInv, [Next]_vars
  PROVE  MarksInv'
<1> SUFFICES ASSUME NEW q \in Proc PROVE Marks(q)'
  BY DEF MarksInv
<1>1. Marks(q)
  BY DEF MarksInv
<1>2. CASE UNCHANGED vars
  <2>1. Same(q) /\ log' = log
    BY <1>2 DEF vars, starting, memory, marks, retention, Same
  <2> QED BY <1>1, <2>1, SameMarks
<1>3. CASE Stopped
  BY <1>2, <1>3 DEF Stopped
<1>4. ASSUME NEW p \in Proc, Works(p) \/ Fails(p) PROVE Marks(q)'
  BY <1>1, <1>4, StepMarks, OthersSame, SameMarks
<1>5. ASSUME NEW o \in Origin, NEW k \in Key, Write(o, k) PROVE Marks(q)'
  BY <1>1, <1>5, WriteMarks
<1>6. ASSUME NEW s \in Seqs, Commit(s) \/ Rollback(s) PROVE Marks(q)'
  BY <1>1, <1>6, EndMarks
<1>7. ASSUME NEW c \in Call, Ask(c) \/ GiveUp(c) PROVE Marks(q)'
  <2>1. Same(q) /\ log' = log
    BY <1>7 DEF Ask, GiveUp, starting, memory, marks, retention, Same
  <2> QED BY <1>1, <2>1, SameMarks
<1>8. ASSUME NEW o \in Reporter, NEW mark \in 0 .. Len(log), OtherReports(o, mark)
      PROVE  Marks(q)'
  <2>1. q # o
    BY DEF ReplicationAssumption
  <2>2. Same(q) /\ log' = log
    BY <1>8, <2>1 DEF OtherReports, starting, memory, marks, Same, TypeOK
  <2> QED BY <1>1, <2>2, SameMarks
<1>9. ASSUME NEW away \in SUBSET Readers, Purge(away) PROVE Marks(q)'
  BY <1>1, <1>9, PurgeMarks
<1> QED BY <1>2, <1>3, <1>4, <1>5, <1>6, <1>7, <1>8, <1>9 DEF Next

LEMMA MarksAlways == Spec => [](TypeOK /\ MarksInv)
<1>1. Init => TypeOK /\ MarksInv
  BY TypeInit, MarksInit
<1>2. (TypeOK /\ MarksInv) /\ [Next]_vars => (TypeOK /\ MarksInv)'
  BY TypeStep, MarksStep, ReplicationAssumption
<1> QED BY <1>1, <1>2, PTL DEF Spec

(* Nothing committed at or below the high mark is lost sight of: it is in  *)
(* memory, given up on with an error, or a hole (page()).                  *)
THEOREM NothingIsSkipped == Spec => []NothingSkipped
<1>1. TypeOK /\ MarksInv => NothingSkipped
  BY MarksImply
<1> QED BY <1>1, MarksAlways, PTL

(* Everything at or below the low mark is applied or given up on, and its  *)
(* transaction has ended (settleWatermark()).                              *)
THEOREM WatermarkIsTrue == Spec => []WatermarkTrue
<1>1. TypeOK /\ MarksInv => WatermarkTrue
  BY MarksImply
<1> QED BY <1>1, MarksAlways, PTL

(* The trim takes no row from a process that follows the log and lacks it  *)
(* (purgeChangeLog).                                                       *)
THEOREM TrimIsSafe == Spec => []TrimSafe
<1>1. TypeOK /\ MarksInv => TrimSafe
  BY MarksImply
<1> QED BY <1>1, MarksAlways, PTL

-----------------------------------------------------------------------------
(* The read barrier: whoever is told by syncNow() that it caught up has    *)
(* all that had committed when it asked.                                   *)

-----------------------------------------------------------------------------
(* The inductive invariant.                                                *)

Of(c) == call[c].at
Lacks(c, s) == s \in call[c].owed /\ from[Of(c)] < s /\ ~Has(Of(c), s)

(* Only a running process's barrier is under way, and what it owes stays   *)
(* committed.                                                              *)
Asked(c) ==
  /\ call[c].owed \subseteq Committed
  /\ phase[Of(c)] # "running" => call[c].state \in {"new", "gave up"}
  /\ \A p \in Proc : c \in pull[p].serves => p = Of(c) /\ call[c].state # "new"

(* The pull that serves a barrier started after it asked: past the last    *)
(* page what is owed lies at or below the high mark, and past the question *)
(* for the holes it is among the rows found.                               *)
Covered(c) == LET p == Of(c) IN
  Follows(p) /\ call[c].state = "waiting" /\ c \in pull[p].serves =>
    \A s : Lacks(c, s) =>
      /\ pull[p].step = "paging" /\ ~pull[p].full => s <= pull[p].last
      /\ pull[p].step \in {"recheck", "refilling"} => s <= highest[p]
      /\ pull[p].step = "refilling" /\ s \in holes[p] => s \in pull[p].rows

Kept(c) == call[c].state = "caught" /\ Follows(Of(c)) => \A s : ~Lacks(c, s)

Barriers(c) == Asked(c) /\ Covered(c) /\ Kept(c)
BarrierInv == \A c \in Call : Barriers(c)

LEMMA BarrierImplies ==
  ASSUME TypeOK, BarrierInv
  PROVE  BarrierKept
<1> SUFFICES ASSUME NEW c \in Call, call[c].state = "caught", Follows(Of(c)),
                    NEW s \in call[c].owed, s > from[Of(c)]
             PROVE  Has(Of(c), s)
  BY DEF BarrierKept, Of
<1>1. s \in Nat /\ from[Of(c)] \in Nat
  BY LogType DEF TypeOK, Barrier, Of
<1> QED BY <1>1 DEF BarrierInv, Barriers, Kept, Lacks

LEMMA BarrierInit == ASSUME Init PROVE BarrierInv
<1> SUFFICES ASSUME NEW c \in Call PROVE Barriers(c)
  BY DEF BarrierInv
<1>1. /\ call[c].state = "new" /\ call[c].owed = {} /\ Of(c) \in Proc
      /\ \A p \in Proc : pull[p].serves = {}
  BY DEF Init, NoPull, Of
<1> QED BY <1>1 DEF Barriers, Asked, Covered, Kept

-----------------------------------------------------------------------------
(* Frames.                                                                 *)

LEMMA CommittedGrows ==
  ASSUME ReplicationAssumption, TypeOK, [Next]_vars
  PROVE  Committed \subseteq Committed'
<1>1. CASE log' = log
  BY <1>1, SameLogs DEF SameLog
<1>2. ASSUME NEW o \in Origin, NEW k \in Key, Write(o, k) PROVE Committed \subseteq Committed'
  <2>1. /\ Len(log) \in Nat /\ Seqs = 1 .. Len(log) /\ Seqs' = 1 .. Len(log) + 1
        /\ \A s \in Seqs : log'[s] = log[s]
    BY <1>2, LogType DEF Write, Seqs, TypeOK
  <2> QED BY <2>1 DEF Committed
<1>3. ASSUME NEW q \in Seqs, Commit(q) \/ Rollback(q) PROVE Committed \subseteq Committed'
  <2>1. Seqs' = Seqs /\ log[q].at = "open" /\ \A s \in Seqs : s # q => log'[s] = log[s]
    BY <1>3 DEF Commit, Rollback, Seqs
  <2> QED BY <2>1 DEF Committed
<1>4. ASSUME NEW away \in SUBSET Readers, Purge(away) PROVE Committed \subseteq Committed'
  <2>1. Seqs' = Seqs
    BY <1>4 DEF Purge, Seqs
  <2>2. \A s \in Seqs : log'[s] = log[s] \/ log'[s] = [log[s] EXCEPT !.at = "trimmed"]
    BY <1>4, PurgeLog
  <2>3. \A s \in Seqs : log'[s].at \in {log[s].at, "trimmed"}
    <3> SUFFICES ASSUME NEW s \in Seqs PROVE log'[s].at \in {log[s].at, "trimmed"}
      OBVIOUS
    <3>1. log[s] \in Change
      BY LogType
    <3> QED BY <2>2, <3>1 DEF Change
  <2> QED BY <2>1, <2>3 DEF Committed
<1>5. ASSUME NEW p \in Proc, Works(p) \/ Fails(p) PROVE log' = log
  <2>1. CASE Starts(p) \/ Stop(p) \/ Killed(p)
    BY <2>1 DEF Starts, BeginRestore, Restore, Start, Stop, Killed, Exit
  <2>2. CASE Reads(p)
    BY <2>2 DEF Reads, StartPull, FetchPage, PageDone, NoHoles, AskHoles, Settle, Apply
  <2>3. CASE Nudge(p) \/ PullFails(p) \/ (\E k \in Key : ApplyFails(p, k))
    BY <2>3 DEF Nudge, PullFails, ApplyFails
  <2>4. CASE Reported(p) \/ ReportFails(p)
    BY <2>4 DEF Reported, ReportFails
  <2> QED BY <1>5, <2>1, <2>2, <2>3, <2>4 DEF Works, Fails
<1>6. CASE UNCHANGED vars \/ Stopped
  BY <1>1, <1>6 DEF vars, Stopped
<1>7. ASSUME NEW c \in Call, Ask(c) \/ GiveUp(c) PROVE log' = log
  BY <1>7 DEF Ask, GiveUp
<1>8. ASSUME NEW o \in Reporter, NEW mark \in 0 .. Len(log), OtherReports(o, mark)
      PROVE  log' = log
  BY <1>8 DEF OtherReports
<1> QED BY <1>1, <1>2, <1>3, <1>4, <1>5, <1>6, <1>7, <1>8 DEF Next

(* The pulls of the other processes, and of this one but for its wants. *)
SamePull(p) ==
  /\ pull'[p].step = pull[p].step /\ pull'[p].rows = pull[p].rows
  /\ pull'[p].last = pull[p].last /\ pull'[p].full = pull[p].full
  /\ pull'[p].serves = pull[p].serves

Keeps(p) ==
  /\ phase'[p] = phase[p] /\ from'[p] = from[p]
  /\ gone[p] => gone'[p]
  /\ seen[p] \subseteq seen'[p] /\ dropped[p] \subseteq dropped'[p]

LEMMA LacksKept ==
  ASSUME NEW c \in Call, call'[c].at = call[c].at, call'[c].owed = call[c].owed, Keeps(Of(c))
  PROVE  \A s : Lacks(c, s)' => Lacks(c, s)
BY DEF Lacks, Keeps, Of, Has

LEMMA SameBarrier ==
  ASSUME NEW c \in Call, Barriers(c), call'[c] = call[c], Committed \subseteq Committed',
         Keeps(Of(c)), highest'[Of(c)] = highest[Of(c)], holes'[Of(c)] = holes[Of(c)],
         SamePull(Of(c)), \A p \in Proc : pull'[p].serves = pull[p].serves
  PROVE  Barriers(c)'
<1>1. \A s : Lacks(c, s)' => Lacks(c, s)
  BY LacksKept
<1>2. Of(c)' = Of(c)
  BY DEF Of
<1>3. Follows(Of(c))' => Follows(Of(c))
  BY <1>2 DEF Follows, Keeps
<1>4. Asked(c)'
  BY <1>2 DEF Barriers, Asked, Keeps
<1>5. Covered(c)'
  BY <1>1, <1>2, <1>3 DEF Barriers, Covered, SamePull
<1>6. Kept(c)'
  BY <1>1, <1>2, <1>3 DEF Barriers, Kept
<1> QED BY <1>4, <1>5, <1>6 DEF Barriers

-----------------------------------------------------------------------------
(* Steps of the barrier's process.                                         *)

LEMMA BarrierType ==
  ASSUME TypeOK, NEW c \in Call
  PROVE  /\ Of(c) \in Proc /\ call[c] \in Barrier
         /\ call[c].state \in {"new", "waiting", "caught", "gave up"}
         /\ \A s : Lacks(c, s) => s \in Nat
BY DEF TypeOK, Barrier, Of, Lacks

LEMMA StartsBarrier ==
  ASSUME TypeOK, NEW c \in Call, Barriers(c), Committed \subseteq Committed', Starts(Of(c))
  PROVE  Barriers(c)'
<1> DEFINE p == Of(c)
<1>1. call' = call /\ pull' = pull /\ phase[p] # "running"
  BY DEF Starts, BeginRestore, Restore, Start
<1>2. call[c].state \in {"new", "gave up"} /\ Of(c)' = Of(c)
  BY <1>1 DEF Barriers, Asked, Of
<1> QED BY <1>1, <1>2 DEF Barriers, Asked, Covered, Kept

LEMMA StopsBarrier ==
  ASSUME TypeOK, NEW c \in Call, Barriers(c), Committed \subseteq Committed',
         Stop(Of(c)) \/ Killed(Of(c))
  PROVE  Barriers(c)'
<1>1. Exit(Of(c))
  BY DEF Stop, Killed
<1>2. call'[c].at = call[c].at /\ call'[c].state = "gave up" /\ call'[c].owed = {}
  BY <1>1, BarrierType DEF Exit, Of, Barrier
<1>3. \A q \in Proc : pull'[q].serves \subseteq pull[q].serves
  BY <1>1, BarrierType DEF Exit, TypeOK, NoPull
<1> QED BY <1>2, <1>3 DEF Barriers, Asked, Covered, Kept, Of

(* A pull starts with the barriers that wait, or ends with none. *)
LEMMA PullBarrier ==
  ASSUME TypeOK, NEW c \in Call, Barriers(c), Committed \subseteq Committed',
         StartPull(Of(c)) \/ PullFails(Of(c))
  PROVE  Barriers(c)'
<1> DEFINE p == Of(c)
<1>1. /\ call' = call /\ phase' = phase /\ from' = from /\ gone' = gone
      /\ seen' = seen /\ dropped' = dropped
  BY DEF StartPull, PullFails, starting, memory, retention
<1>2. /\ pull'[p].step \in {"idle", "page"}
      /\ \A q \in Proc : pull'[q].serves \subseteq pull[q].serves \cup (IF q = p THEN Waiting(p) ELSE {})
  <2>1. StartPull(p) => pull' = [pull EXCEPT ![p] = NewPull(Waiting(p))]
    BY DEF StartPull
  <2>2. PullFails(p) => pull' = [pull EXCEPT ![p] = NoPull]
    BY DEF PullFails
  <2>3. /\ NoPull.step = "idle" /\ NoPull.serves = {}
        /\ NewPull(Waiting(p)).step = "page" /\ NewPull(Waiting(p)).serves = Waiting(p)
    BY DEF NewPull, NoPull
  <2>4. p \in Proc
    BY BarrierType
  <2> QED BY <2>1, <2>2, <2>3, <2>4 DEF TypeOK
<1>3. Of(c)' = Of(c)
  BY <1>1 DEF Of
<1>4. Asked(c)'
  BY <1>1, <1>2, <1>3 DEF Barriers, Asked, Waiting
<1>5. Covered(c)'
  BY <1>2, <1>3 DEF Covered
<1>6. Kept(c)'
  BY <1>1, <1>3 DEF Barriers, Kept, Lacks, Follows, Has
<1> QED BY <1>4, <1>5, <1>6 DEF Barriers

(* What a process lacks of the log is still to be read from it. *)
LEMMA LackedVisible ==
  ASSUME TypeOK, NEW c \in Call, Barriers(c), Marks(Of(c)), Follows(Of(c)), NEW s, Lacks(c, s)
  PROVE  /\ s \in Visible
         /\ s <= highest[Of(c)] => s \in holes[Of(c)]
<1>1. s \in Committed /\ from[Of(c)] < s /\ ~Has(Of(c), s) /\ s \in Seqs
  BY DEF Barriers, Asked, Lacks, Committed
<1>2. log[s].at # "trimmed"
  BY <1>1 DEF Marks, Trimmed
<1>3. s \in Visible
  BY <1>1, <1>2 DEF Committed, Visible
<1>4. s <= highest[Of(c)] => s \in holes[Of(c)]
  BY <1>1, <1>3 DEF Marks, Accounted, Visible
<1> QED BY <1>3, <1>4

LEMMA FetchPageBarrier ==
  ASSUME TypeOK, NEW c \in Call, Barriers(c), Marks(Of(c)), Committed \subseteq Committed',
         FetchPage(Of(c))
  PROVE  Barriers(c)'
<1> DEFINE p == Of(c)
<1> p \in Proc
  BY BarrierType
<1>1. /\ call' = call /\ phase' = phase /\ from' = from /\ gone' = gone
      /\ seen' = seen /\ dropped' = dropped /\ highest' = highest
      /\ Of(c)' = p /\ \A s : Lacks(c, s)' <=> Lacks(c, s)
      /\ Follows(p)' <=> Follows(p)
  BY DEF FetchPage, starting, memory, retention, Of, Lacks, Has, Follows
<1>2. \A s : Lacks(c, s) /\ Follows(p) /\ highest[p] < s => s \in Above(p)
  BY LackedVisible DEF Above
<1>3. \A s : Lacks(c, s) => s \in Nat /\ highest[p] \in Nat
  BY BarrierType, MarksType
<1>4. CASE Above(p) = {} /\ pull' = [pull EXCEPT ![p].step = "recheck"]
  <2>1. pull'[p].step = "recheck" /\ \A q \in Proc : pull'[q].serves = pull[q].serves
    BY <1>4 DEF TypeOK, Pull
  <2>2. Asked(c)'
    BY <1>1, <2>1 DEF Barriers, Asked
  <2>3. Covered(c)'
    BY <1>1, <1>2, <1>3, <1>4, <2>1 DEF Covered
  <2>4. Kept(c)'
    BY <1>1 DEF Barriers, Kept
  <2> QED BY <2>2, <2>3, <2>4 DEF Barriers
<1>5. ASSUME NEW last \in Above(p), NEW rows, rows = {s \in Above(p) : s <= last},
             Cardinality(rows) = Page \/ (rows = Above(p) /\ Cardinality(rows) < Page),
             pull' = [pull EXCEPT ![p] =
                [@ EXCEPT !.step = "paging", !.rows = rows, !.last = last,
                          !.todo = Pointed(p, rows), !.full = Cardinality(rows) = Page]]
      PROVE  Barriers(c)'
  <2>1. /\ pull'[p].step = "paging" /\ pull'[p].last = last
        /\ pull'[p].full = (Cardinality(rows) = Page)
        /\ \A q \in Proc : pull'[q].serves = pull[q].serves
    <3>1. pull'[p] = [pull[p] EXCEPT !.step = "paging", !.rows = rows, !.last = last,
                        !.todo = Pointed(p, rows), !.full = Cardinality(rows) = Page]
      BY <1>5 DEF TypeOK
    <3>2. pull[p] \in Pull /\ \A q \in Proc \ {p} : pull'[q] = pull[q]
      BY <1>5 DEF TypeOK
    <3> QED BY <3>1, <3>2 DEF Pull
  <2>2. ~pull'[p].full => \A s \in Above(p) : s <= last
    BY <1>5, <2>1
  <2>3. last \in Nat /\ highest[p] < last
    BY LogType DEF Above
  <2>4. Asked(c)'
    BY <1>1, <2>1 DEF Barriers, Asked
  <2>5. Covered(c)'
    BY <1>1, <1>2, <1>3, <2>1, <2>2, <2>3 DEF Covered
  <2>6. Kept(c)'
    BY <1>1 DEF Barriers, Kept
  <2> QED BY <2>4, <2>5, <2>6 DEF Barriers
<1> QED BY <1>4, <1>5 DEF FetchPage

LEMMA PageDoneBarrier ==
  ASSUME TypeOK, NEW c \in Call, Barriers(c), Committed \subseteq Committed', PageDone(Of(c))
  PROVE  Barriers(c)'
<1> DEFINE p == Of(c)
<1> p \in Proc
  BY BarrierType
<1>1. /\ call' = call /\ phase' = phase /\ from' = from /\ gone' = gone
      /\ seen' = seen /\ dropped' = dropped /\ highest'[p] = pull[p].last
      /\ Of(c)' = p /\ \A s : Lacks(c, s)' <=> Lacks(c, s)
      /\ Follows(p)' <=> Follows(p)
  BY DEF PageDone, starting, memory, retention, Of, Lacks, Has, Follows, TypeOK
<1>2. /\ pull[p].step = "paging"
      /\ pull'[p].step = IF pull[p].full THEN "page" ELSE "recheck"
      /\ \A q \in Proc : pull'[q].serves = pull[q].serves
  BY DEF PageDone, NoPull, TypeOK
<1>3. Asked(c)'
  BY <1>1, <1>2 DEF Barriers, Asked
<1>4. Covered(c)'
  BY <1>1, <1>2 DEF Barriers, Covered
<1>5. Kept(c)'
  BY <1>1 DEF Barriers, Kept
<1> QED BY <1>3, <1>4, <1>5 DEF Barriers

LEMMA AskHolesBarrier ==
  ASSUME TypeOK, NEW c \in Call, Barriers(c), Marks(Of(c)), Committed \subseteq Committed',
         AskHoles(Of(c))
  PROVE  Barriers(c)'
<1> DEFINE p == Of(c)
<1> p \in Proc
  BY BarrierType
<1>1. /\ call' = call /\ phase' = phase /\ from' = from /\ gone' = gone
      /\ seen' = seen /\ dropped' = dropped /\ highest' = highest /\ holes' = holes
      /\ Of(c)' = p /\ \A s : Lacks(c, s)' <=> Lacks(c, s)
      /\ Follows(p)' <=> Follows(p)
  BY DEF AskHoles, starting, memory, marks, retention, Of, Lacks, Has, Follows
<1>2. /\ pull[p].step = "recheck" /\ pull'[p].step = "refilling"
      /\ pull'[p].rows = holes[p] \cap Visible
      /\ \A q \in Proc : pull'[q].serves = pull[q].serves
  <2>1. pull[p] \in Pull
    BY DEF TypeOK
  <2> QED BY <2>1 DEF AskHoles, Found, TypeOK, Pull
<1>3. Asked(c)'
  BY <1>1, <1>2 DEF Barriers, Asked
<1>4. Covered(c)'
  BY <1>1, <1>2, LackedVisible DEF Barriers, Covered
<1>5. Kept(c)'
  BY <1>1 DEF Barriers, Kept
<1> QED BY <1>3, <1>4, <1>5 DEF Barriers

(* A pull that ends well keeps the barriers it serves. *)
LEMMA FinishBarrier ==
  ASSUME TypeOK, NEW c \in Call, Barriers(c), Committed \subseteq Committed', Finish(Of(c)),
         Keeps(Of(c)), gone'[Of(c)] = gone[Of(c)],
         call[c].state = "waiting" /\ c \in pull[Of(c)].serves /\ Follows(Of(c))
           => \A s : Lacks(c, s) => Has(Of(c), s)'
  PROVE  Barriers(c)'
<1> DEFINE p == Of(c)
<1> p \in Proc
  BY BarrierType
<1>1. /\ call'[c].at = call[c].at /\ call'[c].owed = call[c].owed /\ Of(c)' = p
      /\ call'[c].state = IF c \in Served(p) THEN "caught" ELSE call[c].state
  BY BarrierType DEF Finish, Barrier, Of
<1>2. \A s : Lacks(c, s)' => Lacks(c, s)
  BY <1>1, LacksKept
<1>3. Follows(p)' <=> Follows(p)
  BY <1>1 DEF Keeps, Follows
<1>4. /\ pull'[p].step \in {"idle", "page"}
      /\ \A q \in Proc : pull'[q].serves \subseteq pull[q].serves \cup (IF q = p THEN Waiting(p) ELSE {})
  <2>1. /\ NoPull.step = "idle" /\ NoPull.serves = {}
        /\ \A w : NewPull(w).step = "page" /\ NewPull(w).serves = w
    BY DEF NewPull, NoPull
  <2> QED BY <2>1 DEF Finish, TypeOK
<1>5. Asked(c)'
  BY <1>1, <1>4 DEF Barriers, Asked, Waiting, Served, Keeps
<1>6. Covered(c)'
  BY <1>1, <1>4 DEF Covered
<1>7. Kept(c)'
  <2>1. CASE c \in Served(p)
    <3>1. call[c].state = "waiting" /\ c \in pull[p].serves
      BY <2>1 DEF Served, Waiting
    <3>2. \A s : Lacks(c, s)' => ~Has(p, s)'
      BY <1>1 DEF Lacks
    <3> QED BY <1>1, <1>2, <1>3, <3>1, <3>2 DEF Kept
  <2>2. CASE c \notin Served(p)
    BY <1>1, <1>2, <1>3, <2>2 DEF Barriers, Kept
  <2> QED BY <2>1, <2>2
<1> QED BY <1>5, <1>6, <1>7 DEF Barriers

LEMMA EndsBarrier ==
  ASSUME TypeOK, NEW c \in Call, Barriers(c), Marks(Of(c)), Committed \subseteq Committed',
         NoHoles(Of(c)) \/ Settle(Of(c))
  PROVE  Barriers(c)'
<1> DEFINE p == Of(c)
<1> p \in Proc
  BY BarrierType
<1>1. Finish(p) /\ Keeps(p) /\ gone'[p] = gone[p]
  <2>1. phase' = phase /\ from' = from /\ seen' = seen /\ gone' = gone
    BY DEF NoHoles, Settle, starting, memory
  <2>2. dropped[p] \subseteq dropped'[p]
    <3>1. CASE NoHoles(p)
      BY <3>1 DEF NoHoles, memory
    <3>2. CASE Settle(p)
      <4>1. \E over \in SUBSET holes[p] : dropped' = [dropped EXCEPT ![p] = @ \cup over]
        BY <3>2 DEF Settle
      <4> QED BY <4>1 DEF TypeOK
    <3> QED BY <3>1, <3>2
  <2> QED BY <2>1, <2>2 DEF NoHoles, Settle, Keeps
<1>2. ASSUME call[c].state = "waiting", c \in pull[p].serves, Follows(p), NEW s, Lacks(c, s)
      PROVE  Has(p, s)'
  <2>1. s <= highest[p] /\ s \in holes[p] /\ ~Has(p, s)
    <3>1. pull[p].step \in {"recheck", "refilling"}
      BY DEF NoHoles, Settle
    <3> QED BY <1>2, <3>1, LackedVisible DEF Barriers, Covered, Lacks
  <2>2. Settle(p) /\ pull[p].step = "refilling" /\ pull[p].todo = {}
    BY <2>1 DEF NoHoles, Settle
  <2>3. s \in pull[p].rows
    BY <1>2, <2>1, <2>2 DEF Barriers, Covered
  <2> QED BY <2>1, <2>2, <2>3 DEF Marks, Paged
<1> QED BY <1>1, <1>2, FinishBarrier

-----------------------------------------------------------------------------
(* The callers.                                                            *)

LEMMA CallBarrier ==
  ASSUME TypeOK, NEW c \in Call, Barriers(c), Committed \subseteq Committed', Ask(c) \/ GiveUp(c)
  PROVE  Barriers(c)'
<1>1. /\ call[c] \in Barrier /\ phase' = phase /\ pull' = pull /\ phase[Of(c)] = "running"
      /\ \/ /\ call[c].state = "new"
            /\ call'[c] = [call[c] EXCEPT !.state = "waiting", !.owed = Committed]
         \/ /\ call[c].state = "waiting"
            /\ call'[c] = [call[c] EXCEPT !.state = "gave up", !.owed = {}]
  BY DEF Ask, GiveUp, Of, TypeOK, starting
<1>2. /\ call'[c].at = call[c].at /\ Of(c)' = Of(c) /\ call'[c].owed \subseteq Committed
      /\ call'[c].state \in {"waiting", "gave up"}
      /\ call'[c].state = "waiting" => call[c].state = "new"
  BY <1>1 DEF Barrier, Of
<1>3. Asked(c)'
  BY <1>1, <1>2 DEF Barriers, Asked
<1>4. Covered(c)'
  BY <1>1, <1>2, BarrierType DEF Barriers, Asked, Covered
<1>5. Kept(c)'
  BY <1>2 DEF Kept
<1> QED BY <1>3, <1>4, <1>5 DEF Barriers

-----------------------------------------------------------------------------
LEMMA OwnStepBarrier ==
  ASSUME TypeOK, NEW c \in Call, Barriers(c), Marks(Of(c)), Committed \subseteq Committed',
         Works(Of(c)) \/ Fails(Of(c))
  PROVE  Barriers(c)'
<1> DEFINE p == Of(c)
<1> p \in Proc
  BY BarrierType
<1>1. CASE Nudge(p) \/ Reported(p) \/ ReportFails(p)
  BY <1>1, SameBarrier DEF Nudge, Reported, ReportFails, starting, memory, marks, retention,
                           Keeps, SamePull
<1>2. ASSUME NEW k \in Key, Apply(p, k) \/ ApplyFails(p, k) PROVE Barriers(c)'
  <2>1. /\ SamePull(p) /\ \A q \in Proc : pull'[q].serves = pull[q].serves
    <3>1. /\ pull'[p] = [pull[p] EXCEPT !.todo = @ \ {k}] /\ pull[p] \in Pull
          /\ \A q \in Proc \ {p} : pull'[q] = pull[q]
      BY <1>2 DEF Apply, ApplyFails, TypeOK
    <3> QED BY <3>1 DEF SamePull, Pull
  <2>2. Keeps(p) /\ call' = call /\ highest' = highest /\ holes' = holes
    BY <1>2 DEF Apply, ApplyFails, Keeps, starting, marks, retention, TypeOK
  <2> QED BY <2>1, <2>2, SameBarrier
<1> QED BY <1>1, <1>2, StartsBarrier, StopsBarrier, PullBarrier, FetchPageBarrier, PageDoneBarrier,
           AskHolesBarrier, EndsBarrier
        DEF Works, Fails, Reads

(* A pull serves no barrier that did not wait when it started. *)
LEMMA ServesWaiting ==
  ASSUME TypeOK, NEW p \in Proc, Works(p) \/ Fails(p)
  PROVE  pull'[p].serves \subseteq pull[p].serves \cup Waiting(p)
<1>1. /\ NoPull.serves = {} /\ \A w : NewPull(w).serves = w /\ pull[p] \in Pull
  BY DEF NewPull, NoPull, TypeOK
<1>2. CASE Starts(p) \/ Nudge(p) \/ Reported(p) \/ ReportFails(p)
  BY <1>2 DEF Starts, BeginRestore, Restore, Start, Nudge, Reported, ReportFails
<1>3. CASE Stop(p) \/ Killed(p) \/ PullFails(p)
  <2>1. pull' = [pull EXCEPT ![p] = NoPull]
    BY <1>3 DEF Stop, Killed, Exit, PullFails
  <2> QED BY <1>1, <2>1 DEF TypeOK
<1>4. CASE StartPull(p)
  BY <1>1, <1>4 DEF StartPull, TypeOK
<1>5. CASE NoHoles(p) \/ Settle(p)
  <2>1. Finish(p)
    BY <1>5 DEF NoHoles, Settle
  <2> QED BY <1>1, <2>1 DEF Finish, TypeOK
<1>6. CASE PageDone(p)
  BY <1>6 DEF PageDone, NoPull, TypeOK
<1>7. ASSUME NEW k \in Key, Apply(p, k) \/ ApplyFails(p, k)
      PROVE  pull'[p].serves = pull[p].serves
  <2>1. pull'[p] = [pull[p] EXCEPT !.todo = @ \ {k}]
    BY <1>7 DEF Apply, ApplyFails, TypeOK
  <2> QED BY <1>1, <2>1 DEF Pull
<1>8. CASE AskHoles(p)
  <2>1. pull'[p] = [pull[p] EXCEPT !.step = "refilling", !.rows = Found(p),
                                   !.todo = Pointed(p, Found(p))]
    BY <1>8 DEF AskHoles, TypeOK
  <2> QED BY <1>1, <2>1 DEF Pull
<1>9. CASE FetchPage(p)
  <2>1. CASE pull' = [pull EXCEPT ![p].step = "recheck"]
    BY <1>1, <2>1 DEF TypeOK, Pull
  <2>2. ASSUME NEW last \in Above(p), NEW rows, rows = {s \in Above(p) : s <= last},
               pull' = [pull EXCEPT ![p] =
                  [@ EXCEPT !.step = "paging", !.rows = rows, !.last = last,
                            !.todo = Pointed(p, rows), !.full = Cardinality(rows) = Page]]
        PROVE  pull'[p].serves = pull[p].serves
    BY <1>1, <2>2 DEF TypeOK, Pull
  <2> QED BY <1>9, <2>1, <2>2 DEF FetchPage
<1> QED BY <1>2, <1>3, <1>4, <1>5, <1>6, <1>7, <1>8, <1>9 DEF Works, Fails, Reads

LEMMA OthersStepBarrier ==
  ASSUME TypeOK, NEW c \in Call, Barriers(c), Committed \subseteq Committed',
         NEW p \in Proc \ {Of(c)}, Works(p) \/ Fails(p)
  PROVE  Barriers(c)'
<1>1. Same(Of(c))
  BY BarrierType, OthersSame
<1>2. Keeps(Of(c)) /\ SamePull(Of(c))
  BY <1>1 DEF Same, Keeps, SamePull
<1>3. call'[c] = call[c]
  <2>1. CASE Starts(p) \/ Nudge(p) \/ Reported(p) \/ ReportFails(p) \/ PullFails(p)
    BY <2>1 DEF Starts, BeginRestore, Restore, Start, Nudge, Reported, ReportFails, PullFails
  <2>2. CASE StartPull(p) \/ FetchPage(p) \/ PageDone(p) \/ AskHoles(p)
    BY <2>2 DEF StartPull, FetchPage, PageDone, AskHoles
  <2>3. ASSUME NEW k \in Key, Apply(p, k) \/ ApplyFails(p, k) PROVE call'[c] = call[c]
    BY <2>3 DEF Apply, ApplyFails
  <2>4. CASE Stop(p) \/ Killed(p)
    BY <2>4 DEF Stop, Killed, Exit, Of
  <2>5. CASE NoHoles(p) \/ Settle(p)
    BY <2>5 DEF NoHoles, Settle, Finish, Served, Waiting, Of
  <2> QED BY <2>1, <2>2, <2>3, <2>4, <2>5 DEF Works, Fails, Reads
<1>4. \A q \in Proc : c \in pull'[q].serves => c \in pull[q].serves
  <2>1. \A q \in Proc \ {p} : pull'[q] = pull[q]
    BY OthersSame DEF Same
  <2>2. c \notin Waiting(p)
    BY DEF Waiting, Of
  <2> QED BY <2>1, <2>2, ServesWaiting
<1>5. Of(c)' = Of(c) /\ \A s : Lacks(c, s)' => Lacks(c, s)
  BY <1>2, <1>3, LacksKept DEF Of
<1>6. Follows(Of(c))' => Follows(Of(c))
  BY <1>2, <1>5 DEF Follows, Keeps
<1>7. Asked(c)'
  BY <1>2, <1>3, <1>4, <1>5 DEF Barriers, Asked, Keeps
<1>8. Covered(c)'
  BY <1>1, <1>3, <1>5, <1>6 DEF Barriers, Covered, Same
<1>9. Kept(c)'
  BY <1>3, <1>5, <1>6 DEF Barriers, Kept
<1> QED BY <1>7, <1>8, <1>9 DEF Barriers

LEMMA BarrierStep ==
  ASSUME ReplicationAssumption, TypeOK, MarksInv, BarrierInv, [Next]_vars
  PROVE  BarrierInv'
<1> SUFFICES ASSUME NEW c \in Call PROVE Barriers(c)'
  BY DEF BarrierInv
<1>1. Barriers(c) /\ Marks(Of(c)) /\ Committed \subseteq Committed'
  BY BarrierType, CommittedGrows DEF BarrierInv, MarksInv
<1>2. CASE UNCHANGED vars
  BY <1>1, <1>2, SameBarrier DEF vars, starting, memory, marks, retention, Keeps, SamePull
<1>3. CASE Stopped
  BY <1>2, <1>3 DEF Stopped
<1>4. ASSUME NEW p \in Proc, Works(p) \/ Fails(p) PROVE Barriers(c)'
  BY <1>1, <1>4, OwnStepBarrier, OthersStepBarrier
<1>5. ASSUME NEW o \in Origin, NEW k \in Key, Write(o, k) PROVE Barriers(c)'
  BY <1>1, <1>5, SameBarrier DEF Write, starting, memory, marks, retention, Keeps, SamePull
<1>6. ASSUME NEW s \in Seqs, Commit(s) \/ Rollback(s) PROVE Barriers(c)'
  <2>1. seen[Of(c)] \subseteq seen'[Of(c)]
    <3>1. CASE Commit(s)
      BY <3>1, BarrierType DEF Commit
    <3>2. CASE Rollback(s)
      BY <3>2 DEF Rollback, memory
    <3> QED BY <1>6, <3>1, <3>2
  <2> QED BY <1>1, <1>6, <2>1, SameBarrier
          DEF Commit, Rollback, starting, memory, marks, retention, Keeps, SamePull
<1>7. ASSUME NEW d \in Call, Ask(d) \/ GiveUp(d) PROVE Barriers(c)'
  <2>1. CASE d = c
    BY <1>1, <1>7, <2>1, CallBarrier
  <2>2. CASE d # c
    BY <1>1, <1>7, <2>2, SameBarrier
       DEF Ask, GiveUp, starting, memory, marks, retention, Keeps, SamePull, TypeOK
  <2> QED BY <2>1, <2>2
<1>8. ASSUME NEW o \in Reporter, NEW mark \in 0 .. Len(log), OtherReports(o, mark)
      PROVE  Barriers(c)'
  BY <1>1, <1>8, SameBarrier DEF OtherReports, starting, memory, marks, Keeps, SamePull
<1>9. ASSUME NEW away \in SUBSET Readers, Purge(away) PROVE Barriers(c)'
  <2>1. gone[Of(c)] => gone'[Of(c)]
    BY <1>9, BarrierType DEF Purge
  <2> QED BY <1>1, <1>9, <2>1, SameBarrier DEF Purge, starting, memory, marks, Keeps, SamePull
<1> QED BY <1>2, <1>3, <1>4, <1>5, <1>6, <1>7, <1>8, <1>9 DEF Next

(* A caller told that it caught up has everything committed when it asked, *)
(* given up on with an error, or older than its process's start            *)
(* (syncNow()).                                                            *)
THEOREM BarrierIsKept == Spec => []BarrierKept
<1>1. Init => BarrierInv
  BY BarrierInit
<1>2. (TypeOK /\ MarksInv) /\ BarrierInv /\ [Next]_vars => BarrierInv'
  BY BarrierStep, ReplicationAssumption
<1>3. (TypeOK /\ MarksInv) /\ BarrierInv => BarrierKept
  BY BarrierImplies
<1> QED BY <1>1, <1>2, <1>3, MarksAlways, PTL DEF Spec
=============================================================================
