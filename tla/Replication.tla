----------------------------- MODULE Replication -----------------------------
(***************************************************************************)
(* The change log: persistence/persistence_replication.js and the          *)
(* sts_changes and sts_change_readers statements of the postgres driver.   *)
(*                                                                         *)
(* Each front process and each request worker holds the whole store in its *)
(* memory and follows the other processes' writes through the log.  A      *)
(* row's sequence number is allocated when it is inserted and the row      *)
(* becomes visible when its transaction commits, so rows appear out of     *)
(* order and some never do.                                                *)
(*                                                                         *)
(* A change is a pointer to a key; applying it reads what the key holds at *)
(* that moment.  What a process has in memory is the set "seen" of the     *)
(* changes whose outcome it has read, or made itself: what two writers of  *)
(* one key leave behind is not this module's concern.                      *)
(***************************************************************************)
EXTENDS Integers, Sequences, FiniteSets

CONSTANTS Origin,     \* processes that write the store: container starts and worker forks
          Proc,       \* those whose reading of the log is followed here
          Reporter,   \* others that report a mark to sts_change_readers
          Key,        \* what a change row points at
          Call,       \* read barriers asked for: calls of syncNow()
          Page,       \* PAGE: rows in one query
          MaxHoles,   \* MAX_HOLES: holes remembered
          MaxSeq      \* bound: changes made

ASSUME ReplicationAssumption ==
  /\ Proc \subseteq Origin
  /\ Reporter \subseteq Origin \ Proc
  /\ Page \in Nat \ {0}
  /\ MaxHoles \in Nat
  /\ MaxSeq \in Nat

VARIABLES
  log,       \* sts_changes by seq; a seq that rolled back is burnt
  phase,     \* of each process
  unread,    \* what a starting process has yet to restore
  seen,      \* the changes whose outcome is in a process's memory
  highest,   \* the newest seq applied
  holes,     \* seqs stepped over and still asked for
  applied,   \* the low-water mark
  pull,      \* the pull that is running
  wake,      \* pendingWake
  call,      \* the read barriers
  reader,    \* sts_change_readers: the reported mark, or None
  report,    \* the report in flight, or None
  base,      \* history: what was committed when a process began to restore
  from,      \* history: where it began to read the log
  dropped,   \* history: what it gave up on, with an error in its log
  gone       \* history: it was declared gone while it ran

memory == <<seen, dropped>>
marks == <<highest, holes, applied>>
retention == <<reader, report, gone>>
starting == <<phase, unread, base, from>>
vars == <<log, starting, memory, marks, pull, wake, call, retention>>

None == -1
Change == [by : Origin, key : Key, at : {"open", "here", "burnt", "trimmed"}]
Step == {"idle", "page", "paging", "recheck", "refilling"}
Pull == [step : Step, rows : SUBSET Nat, todo : SUBSET Key, last : Nat,
         full : BOOLEAN, serves : SUBSET Call]
Barrier == [at : Proc, state : {"new", "waiting", "caught", "gave up"}, owed : SUBSET Nat]

NoPull == [step |-> "idle", rows |-> {}, todo |-> {}, last |-> 0, full |-> FALSE,
           serves |-> {}]

TypeOK ==
  /\ log \in Seq(Change)
  /\ phase \in [Proc -> {"off", "restoring", "running", "stopped"}]
  /\ unread \in [Proc -> SUBSET Key]
  /\ seen \in [Proc -> SUBSET Nat]
  /\ highest \in [Proc -> Nat]
  /\ holes \in [Proc -> SUBSET Nat]
  /\ applied \in [Proc -> Nat]
  /\ pull \in [Proc -> Pull]
  /\ wake \in [Proc -> BOOLEAN]
  /\ call \in [Call -> Barrier]
  /\ reader \in [Proc \cup Reporter -> Nat \cup {None}]
  /\ report \in [Proc -> Nat \cup {None}]
  /\ base \in [Proc -> SUBSET Nat]
  /\ from \in [Proc -> Nat]
  /\ dropped \in [Proc -> SUBSET Nat]
  /\ gone \in [Proc -> BOOLEAN]

Init ==
  /\ log = <<>>
  /\ phase = [p \in Proc |-> "off"]
  /\ unread = [p \in Proc |-> Key]
  /\ seen = [p \in Proc |-> {}]
  /\ highest = [p \in Proc |-> 0]
  /\ holes = [p \in Proc |-> {}]
  /\ applied = [p \in Proc |-> 0]
  /\ pull = [p \in Proc |-> NoPull]
  /\ wake = [p \in Proc |-> FALSE]
  /\ call \in [Call -> [at : Proc, state : {"new"}, owed : {{}}]]
  /\ reader = [o \in Proc \cup Reporter |-> None]
  /\ report = [p \in Proc |-> None]
  /\ base = [p \in Proc |-> {}]
  /\ from = [p \in Proc |-> 0]
  /\ dropped = [p \in Proc |-> {}]
  /\ gone = [p \in Proc |-> FALSE]

-----------------------------------------------------------------------------
(* The log.                                                                *)

Seqs == DOMAIN log
Visible == {s \in Seqs : log[s].at = "here"}
Committed == {s \in Seqs : log[s].at \in {"here", "trimmed"}}
Outcomes(k) == {s \in Committed : log[s].key = k}   \* what reading key k shows

(* recordChanges() inside withTransaction(): the seq is allocated. *)
Write(o, k) ==
  /\ o \in Proc => phase[o] = "running"
  /\ Len(log) < MaxSeq
  /\ log' = Append(log, [by |-> o, key |-> k, at |-> "open"])
  /\ UNCHANGED <<starting, memory, marks, pull, wake, call, retention>>

(* The writer's own memory held the change before it committed. *)
Commit(s) ==
  /\ log[s].at = "open"
  /\ log' = [log EXCEPT ![s].at = "here"]
  /\ seen' = [p \in Proc |-> IF log[s].by = p THEN seen[p] \cup {s} ELSE seen[p]]
  /\ UNCHANGED <<starting, dropped, marks, pull, wake, call, retention>>

Rollback(s) ==
  /\ log[s].at = "open"
  /\ log' = [log EXCEPT ![s].at = "burnt"]
  /\ UNCHANGED <<starting, memory, marks, pull, wake, call, retention>>

-----------------------------------------------------------------------------
(* Starting and stopping.                                                  *)

BeginRestore(p) ==
  /\ phase[p] = "off"
  /\ phase' = [phase EXCEPT ![p] = "restoring"]
  /\ base' = [base EXCEPT ![p] = Committed]
  /\ UNCHANGED <<log, unread, from, memory, marks, pull, wake, call, retention>>

(* One table of the store at a time, each read where it stands by then. *)
Restore(p, k) ==
  /\ phase[p] = "restoring"
  /\ k \in unread[p]
  /\ unread' = [unread EXCEPT ![p] = @ \ {k}]
  /\ seen' = [seen EXCEPT ![p] = @ \cup Outcomes(k)]
  /\ UNCHANGED <<log, phase, base, from, dropped, marks, pull, wake, call, retention>>

(* start(): the log is read from its newest visible row.  When that row    *)
(* cannot be read the process runs all the same, from 0, and reports only  *)
(* after its first pull.                                                   *)
Start(p) ==
  /\ phase[p] = "restoring"
  /\ unread[p] = {}
  /\ phase' = [phase EXCEPT ![p] = "running"]
  /\ \/ \E top \in Visible \cup {0} :
          /\ \A s \in Visible : s <= top
          /\ from' = [from EXCEPT ![p] = top]
          /\ report' = [report EXCEPT ![p] = top]
     \/ UNCHANGED <<from, report>>
  /\ highest' = [highest EXCEPT ![p] = from'[p]]
  /\ applied' = [applied EXCEPT ![p] = from'[p]]
  /\ UNCHANGED <<log, unread, base, memory, holes, pull, wake, call, reader, gone>>

(* The process's memory goes with it; its statements may still execute. *)
Exit(p) ==
  /\ phase' = [phase EXCEPT ![p] = "stopped"]
  /\ unread' = [unread EXCEPT ![p] = {}]
  /\ seen' = [seen EXCEPT ![p] = {}]
  /\ dropped' = [dropped EXCEPT ![p] = {}]
  /\ highest' = [highest EXCEPT ![p] = 0]
  /\ holes' = [holes EXCEPT ![p] = {}]
  /\ applied' = [applied EXCEPT ![p] = 0]
  /\ pull' = [pull EXCEPT ![p] = NoPull]
  /\ wake' = [wake EXCEPT ![p] = FALSE]
  /\ base' = [base EXCEPT ![p] = {}]
  /\ from' = [from EXCEPT ![p] = 0]
  /\ gone' = [gone EXCEPT ![p] = FALSE]
  /\ call' = [c \in Call |-> IF call[c].at = p THEN [call[c] EXCEPT !.state = "gave up", !.owed = {}]
                                              ELSE call[c]]
  /\ UNCHANGED <<log, report>>

(* stop(): a clean stop takes the process's place out of the readers. *)
Stop(p) ==
  /\ phase[p] = "running"
  /\ reader' = [reader EXCEPT ![p] = None]
  /\ Exit(p)

Killed(p) ==
  /\ phase[p] \in {"restoring", "running"}
  /\ UNCHANGED reader
  /\ Exit(p)

-----------------------------------------------------------------------------
(* Pulling.                                                                *)

Waiting(p) == {c \in Call : call[c].at = p /\ call[c].state = "waiting"}

(* pull(), for the timer, a nudge or a barrier: one at a time. *)
NewPull(calls) == [NoPull EXCEPT !.step = "page", !.serves = calls]

StartPull(p) ==
  /\ phase[p] = "running"
  /\ pull[p].step = "idle"
  /\ pull' = [pull EXCEPT ![p] = NewPull(Waiting(p))]
  /\ UNCHANGED <<log, starting, memory, marks, wake, call, retention>>

(* wake(): a nudge during a pull asks for another. *)
Nudge(p) ==
  /\ pull[p].step # "idle"
  /\ wake' = [wake EXCEPT ![p] = TRUE]
  /\ UNCHANGED <<log, starting, memory, marks, pull, call, retention>>

(* applyRows(): rows coalesced by key, the process's own left out. *)
Pointed(p, rows) == {log[s].key : s \in {r \in rows : log[r].by # p}}

(* page(): changesSince(highest, PAGE), and the gaps it steps over. *)
Above(p) == {s \in Visible : s > highest[p]}
NoGaps(p, rows, last) == {}                      \* mutant: holes not remembered
GapsBelow(p, rows, last) == (highest[p] - 1 .. last) \ rows   \* mutant: the wrong side
Gaps(p, rows, last) == (highest[p] + 1 .. last) \ rows

FetchPage(p) ==
  /\ pull[p].step = "page"
  /\ \/ /\ Above(p) = {}
        /\ pull' = [pull EXCEPT ![p].step = "recheck"]
        /\ UNCHANGED holes
     \/ \E last \in Above(p) :
          LET rows == {s \in Above(p) : s <= last}
          IN /\ Cardinality(rows) = Page \/ (rows = Above(p) /\ Cardinality(rows) < Page)
             /\ pull' = [pull EXCEPT ![p] =
                  [@ EXCEPT !.step = "paging", !.rows = rows, !.last = last,
                            !.todo = Pointed(p, rows), !.full = Cardinality(rows) = Page]]
             /\ holes' = [holes EXCEPT ![p] = @ \cup Gaps(p, rows, last)]
  /\ UNCHANGED <<log, starting, memory, highest, applied, wake, call, retention>>

(* One key of the page: what it holds now becomes this process's copy. *)
Apply(p, k) ==
  /\ pull[p].step \in {"paging", "refilling"}
  /\ k \in pull[p].todo
  /\ seen' = [seen EXCEPT ![p] = @ \cup Outcomes(k)]
  /\ pull' = [pull EXCEPT ![p].todo = @ \ {k}]
  /\ UNCHANGED <<log, starting, dropped, marks, wake, call, retention>>

(* STS-STORE-0042: the rest of the page is unaffected, and the row is not  *)
(* asked for again.                                                        *)
ApplyFails(p, k) ==
  /\ pull[p].step \in {"paging", "refilling"}
  /\ k \in pull[p].todo
  /\ dropped' = [dropped EXCEPT ![p] = @ \cup {s \in pull[p].rows : log[s].key = k}]
  /\ pull' = [pull EXCEPT ![p].todo = @ \ {k}]
  /\ UNCHANGED <<log, starting, seen, marks, wake, call, retention>>

PageDone(p) ==
  /\ pull[p].step = "paging"
  /\ pull[p].todo = {}
  /\ highest' = [highest EXCEPT ![p] = pull[p].last]
  /\ pull' = [pull EXCEPT ![p] = [NoPull EXCEPT !.step = IF pull[p].full THEN "page" ELSE "recheck",
                                                !.serves = pull[p].serves]]
  /\ UNCHANGED <<log, starting, memory, holes, applied, wake, call, retention>>

(* The end of a pull that worked: the barriers asked for before it started *)
(* are kept, the mark is reported at most every REPORT_INTERVAL_MS, and a  *)
(* nudge that came meanwhile starts the next one.                          *)
ServedAll(p) == Waiting(p)                       \* mutant: the running pull will do
Served(p) == pull[p].serves \cap Waiting(p)

PositionHighest(p) == highest'[p]                \* mutant: the wrong mark reported
Position(p) == applied'[p]

Finish(p) ==
  /\ call' = [c \in Call |-> IF c \in Served(p) THEN [call[c] EXCEPT !.state = "caught"]
                                                ELSE call[c]]
  /\ \/ UNCHANGED report
     \/ report[p] = None /\ report' = [report EXCEPT ![p] = Position(p)]
  /\ pull' = [pull EXCEPT ![p] = IF wake[p] THEN NewPull(Waiting(p) \ Served(p)) ELSE NoPull]
  /\ wake' = [wake EXCEPT ![p] = FALSE]

(* recheckHoles() with nothing to ask for. *)
NoHoles(p) ==
  /\ pull[p].step = "recheck"
  /\ holes[p] = {}
  /\ applied' = [applied EXCEPT ![p] = highest[p]]
  /\ UNCHANGED highest
  /\ Finish(p)
  /\ UNCHANGED <<log, starting, memory, holes, reader, gone>>

(* changesAt(): the holes that have become visible. *)
FoundNone(p) == {}                               \* mutant: a hole is never read again
Found(p) == holes[p] \cap Visible

AskHoles(p) ==
  /\ pull[p].step = "recheck"
  /\ holes[p] # {}
  /\ pull' = [pull EXCEPT ![p] = [@ EXCEPT !.step = "refilling", !.rows = Found(p),
                                           !.todo = Pointed(p, Found(p))]]
  /\ UNCHANGED <<log, starting, memory, marks, wake, call, retention>>

(* expireHoles(): after HOLE_EXPIRE_MS a hole is given up on - by then its *)
(* transaction has ended, and it would have been found had it committed    *)
(* before the question - and beyond MAX_HOLES the oldest are.              *)
DeadNever(s) == FALSE                            \* mutant: a hole is kept for ever
Dead(s) == log[s].at \in {"burnt", "trimmed"}

Expired(p, expired, over) ==
  LET left == holes[p] \ pull[p].rows
      rest == left \ expired
  IN /\ expired \subseteq {s \in left : Dead(s)}
     /\ over \subseteq rest
     /\ \A s \in over, t \in rest \ over : s < t
     /\ IF Cardinality(rest) <= MaxHoles THEN over = {}
        ELSE Cardinality(rest \ over) = MaxHoles

(* settleWatermark(). *)
Settled(p, kept) ==
  \/ kept = {} /\ applied' = [applied EXCEPT ![p] = highest[p]]
  \/ \E oldest \in kept :
       /\ \A s \in kept : oldest <= s
       /\ applied' = [applied EXCEPT ![p] = IF oldest - 1 > @ THEN oldest - 1 ELSE @]

Settle(p) ==
  /\ pull[p].step = "refilling"
  /\ pull[p].todo = {}
  /\ \E expired, over \in SUBSET holes[p] :
       LET kept == ((holes[p] \ pull[p].rows) \ expired) \ over
       IN /\ Expired(p, expired, over)
          /\ holes' = [holes EXCEPT ![p] = kept]
          /\ dropped' = [dropped EXCEPT ![p] = @ \cup over]
          /\ Settled(p, kept)
  /\ UNCHANGED highest
  /\ Finish(p)
  /\ UNCHANGED <<log, starting, seen, reader, gone>>

(* A query of the pull fails: nothing is rethrown, and no pull follows. *)
PullFails(p) ==
  /\ pull[p].step \in {"page", "recheck"}
  /\ pull[p].step = "recheck" => holes[p] # {}
  /\ pull' = [pull EXCEPT ![p] = NoPull]
  /\ wake' = [wake EXCEPT ![p] = FALSE]
  /\ UNCHANGED <<log, starting, memory, marks, call, retention>>

-----------------------------------------------------------------------------
(* syncNow(): the read barrier.                                            *)

Ask(c) ==
  /\ phase[call[c].at] = "running"
  /\ call[c].state = "new"
  /\ call' = [call EXCEPT ![c] = [@ EXCEPT !.state = "waiting", !.owed = Committed]]
  /\ UNCHANGED <<log, starting, memory, marks, pull, wake, retention>>

(* SYNC_DEADLINE_MS, looked at between pulls. *)
GiveUp(c) ==
  /\ call[c].state = "waiting"
  /\ phase[call[c].at] = "running"
  /\ call' = [call EXCEPT ![c] = [@ EXCEPT !.state = "gave up", !.owed = {}]]
  /\ UNCHANGED <<log, starting, memory, marks, pull, wake, retention>>

-----------------------------------------------------------------------------
(* Retention.                                                              *)

(* reportChangeReader: the mark in the row never goes back.  A report sent *)
(* before the process stopped can land after it.                           *)
Reported(p) ==
  /\ report[p] # None
  /\ reader' = [reader EXCEPT ![p] = IF report[p] > @ THEN report[p] ELSE @]
  /\ report' = [report EXCEPT ![p] = None]
  /\ UNCHANGED <<log, starting, memory, marks, pull, wake, call, gone>>

ReportFails(p) ==
  /\ report[p] # None
  /\ report' = [report EXCEPT ![p] = None]
  /\ UNCHANGED <<log, starting, memory, marks, pull, wake, call, reader, gone>>

(* What other processes report may be anything. *)
OtherReports(o, mark) ==
  /\ reader' = [reader EXCEPT ![o] = mark]
  /\ UNCHANGED <<log, starting, memory, marks, pull, wake, call, report, gone>>

(* purgeChangeLog: readers that stopped reporting are declared gone, and   *)
(* rows below the lowest mark of the others and older than the retention   *)
(* go.  A process reports within the retention of its start: a row older   *)
(* than that was committed before any process yet to report began.         *)
Unreported(p) == phase[p] \in {"restoring", "running"} /\ reader[p] = None /\ ~gone[p]
OldEnough(s) == \A p \in Proc : Unreported(p) => s \in base[p]

Readers == {o \in Proc \cup Reporter : reader[o] # None}

Purge(away) ==
  LET live == Readers \ away
  IN /\ away \subseteq Readers
     /\ reader' = [o \in Proc \cup Reporter |-> IF o \in away THEN None ELSE reader[o]]
     /\ gone' = [p \in Proc |-> gone[p] \/ (p \in away /\ phase[p] = "running")]
     /\ \E old \in SUBSET {s \in Visible : OldEnough(s)} :
          log' = [s \in Seqs |-> IF s \in old /\ live # {} /\ \A p \in live : s < reader[p]
                                 THEN [log[s] EXCEPT !.at = "trimmed"] ELSE log[s]]
     /\ UNCHANGED <<starting, memory, marks, pull, wake, call, report>>

-----------------------------------------------------------------------------
Reads(p) == \/ StartPull(p) \/ FetchPage(p) \/ PageDone(p) \/ NoHoles(p) \/ AskHoles(p)
            \/ Settle(p) \/ \E k \in Key : Apply(p, k)

Starts(p) == BeginRestore(p) \/ Start(p) \/ \E k \in Key : Restore(p, k)

Works(p) == Starts(p) \/ Reads(p) \/ Nudge(p) \/ Reported(p)

Fails(p) == \/ Stop(p) \/ Killed(p) \/ PullFails(p) \/ ReportFails(p)
            \/ \E k \in Key : ApplyFails(p, k)

(* Every process has stopped. *)
Stopped == (\A p \in Proc : phase[p] = "stopped") /\ UNCHANGED vars

Next == \/ Stopped
        \/ \E p \in Proc : Works(p) \/ Fails(p)
        \/ \E o \in Origin, k \in Key : Write(o, k)
        \/ \E s \in Seqs : Commit(s) \/ Rollback(s)
        \/ \E c \in Call : Ask(c) \/ GiveUp(c)
        \/ \E o \in Reporter, mark \in 0 .. Len(log) : OtherReports(o, mark)
        \/ \E away \in SUBSET Readers : Purge(away)

Spec == Init /\ [][Next]_vars

-----------------------------------------------------------------------------
(* Properties.  A process is answerable for what was allocated after the   *)
(* point it began to read from (see WatermarkExact for the rest), while it *)
(* runs and has not been declared gone.                                    *)

Follows(p) == phase[p] = "running" /\ ~gone[p]
Has(p, s) == s \in seen[p] \cup dropped[p]

(* The high mark: a committed change at or below it that this process does *)
(* not have is a hole it still asks for (page(): "it takes everything      *)
(* visible above highest, remembers each gap it steps over as a hole").    *)
NothingSkipped == \A p \in Proc, s \in Committed :
  Follows(p) /\ from[p] < s /\ s <= highest[p] => Has(p, s) \/ s \in holes[p]

(* The low mark: "every seq at or below this is applied or given up on",   *)
(* however late a transaction below it commits.                            *)
WatermarkTrue == \A p \in Proc, s \in Seqs :
  Follows(p) /\ from[p] < s /\ s <= applied[p]
    => /\ log[s].at # "open" \/ s \in dropped[p]
       /\ s \in Committed => Has(p, s)

(* Retention: no row is removed from the log that a process following it   *)
(* has yet to apply - reports being delayed, holes being asked for, rows   *)
(* of dead readers being removed, and processes starting meanwhile.        *)
TrimSafe == \A p \in Proc, s \in Seqs :
  Follows(p) /\ log[s].at = "trimmed" /\ from[p] < s => Has(p, s)

(* The read barrier: a caller that is told it caught up has everything     *)
(* that had committed when it asked, though pulls run before, during and   *)
(* after its call, and fail.                                               *)
BarrierKept == \A c \in Call :
  call[c].state = "caught" /\ Follows(call[c].at)
    => \A s \in call[c].owed : s > from[call[c].at] => Has(call[c].at, s)

(* "every change up to and including this one has been applied here":      *)
(* with what was committed around the start counted in.                    *)
WatermarkExact == \A p \in Proc, s \in Committed :
  Follows(p) /\ s <= applied[p] => Has(p, s)

-----------------------------------------------------------------------------
(* Fairness.  Transactions end; the timer starts pulls; a query that keeps *)
(* being retried is answered one day; holes reach their age; marks are     *)
(* reported; and the leader of the purge keeps trimming what it may.       *)
Expires(p) == Settle(p) /\ \A s \in holes'[p] : ~Dead(s)
Reports(p) == (NoHoles(p) \/ Expires(p)) /\ report'[p] = applied'[p]
Trims == Purge({}) /\ log' # log

Fairness ==
  /\ \A s \in 1 .. MaxSeq : WF_vars(s \in Seqs /\ (Commit(s) \/ Rollback(s)))
  /\ \A p \in Proc :
       /\ WF_vars(StartPull(p) \/ PageDone(p) \/ \E k \in Key : Apply(p, k) \/ ApplyFails(p, k))
       /\ SF_vars(FetchPage(p)) /\ SF_vars(AskHoles(p)) /\ WF_vars(Settle(p))
       /\ SF_vars(NoHoles(p)) /\ SF_vars(Expires(p))
       /\ SF_vars(Reports(p)) /\ SF_vars(Reported(p))
  /\ WF_vars(Trims)

FairSpec == Spec /\ Fairness

(* A committed change reaches every process that follows the log, lost     *)
(* nudges, failed pulls and late commits below the mark notwithstanding.   *)
Converges == \A p \in Proc, s \in 1 .. MaxSeq :
  (Follows(p) /\ s \in Committed /\ from[p] < s) ~> (~Follows(p) \/ Has(p, s))

(* The log does not grow for ever: a row with a newer one above it goes,   *)
(* though seqs below it rolled back, queries fail and reports are lost.    *)
LogTrimmed == \A s \in 1 .. MaxSeq :
  (s \in Visible /\ \E t \in Visible : t > s)
    ~> (s \notin Visible \/ \A p \in Proc : ~Follows(p))
=============================================================================
