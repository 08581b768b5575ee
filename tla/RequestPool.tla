---------------------------- MODULE RequestPool ----------------------------
(***************************************************************************)
(* The front process and its request workers, common/request_pool.js and   *)
(* common/request_worker.js, with workers.readYourWrite on: whoever was    *)
(* answered sees, whichever process answers next, what that answer wrote.  *)
(*                                                                         *)
(* An answer goes out before its writes are flushed.  So every exchange    *)
(* dispatched holds a ticket, which blocks later ones once it is answered  *)
(* and until its worker announces a flush that covers it; an announcement  *)
(* of rows moves the generation; and a worker behind the generation an     *)
(* exchange wants pulls first, in a round its readers share.               *)
(*                                                                         *)
(* What the front does in one turn of its event loop, the microtasks it    *)
(* queues included, is one step.  Workers that exit are not replaced.  A   *)
(* worker also pulls when a timer fires, which only adds to what it has;   *)
(* no step depends on it, and it is left out.                              *)
(***************************************************************************)
EXTENDS Integers, Sequences, FiniteSets

LOCAL INSTANCE FiniteSetsExt   \* Max, Min

CONSTANTS Worker, Exchange,
          MaxLosses    \* bound of the model: deaths, failures and waits given up

ASSUME PoolConstants == MaxLosses \in Nat /\ "front" \notin Worker

VARIABLES writesAt,    \* generation, of the writes announced
          current,     \* current[w]: entry.generation
          ticket,      \* ticket[r]: of the exchange r
          localSeen,   \* localWritesSeen
          ex,          \* ex[r]: where the exchange is
          sync,        \* sync[w]: the rounds of w
          up,          \* up[w]: whether w lives, and the front knows
          holds,       \* holds[p]: the exchanges whose writes p has
          fact,        \* fact[r]: where the writes of r are
          flush,       \* flush[w]: the flush and the announcement of w
          channel,     \* channel[w]: messages to the front, in order
          forgone,     \* exchanges whose writes nobody is promised (history)
          blind,       \* workers that said they had caught up and had not (history)
          losses

poolvars == <<writesAt, current, ticket, localSeen, ex, sync, up, holds, fact, flush,
              channel, forgone, blind, losses>>

Front == "front"

PoolStages == {"new", "waiting", "catching", "syncing", "sent", "answered", "gone"}

NewExchange == [stage |-> "new", by |-> Front,
                below |-> {},     \* those dispatched when it arrived
                after |-> {},     \* those answered by then (history)
                owed |-> {},      \* of them, those the pool accounts for (history)
                wanted |-> 0,     \* the generation it was dispatched at
                late |-> FALSE,   \* a wait of it was given up (history)
                work |-> "none",  \* at the worker: none, handled, finished
                missed |-> {}]    \* the writes of "after" it did not see (history)

NoRounds == [id |-> 0, wanted |-> 0, queued |-> 0, last |-> 0, asked |-> {}]
NoFlush == [running |-> FALSE, state |-> "idle", covers |-> {}, next |-> {},
            untold |-> FALSE]

PoolTypeOK ==
  /\ writesAt \in Nat /\ localSeen \in Int /\ losses \in Nat
  /\ ticket \in [Exchange -> {"none", "out", "finished", "clear"}]
  /\ fact \in [Exchange -> {"none", "noted", "flying", "stored", "lost"}]
  /\ holds \in [Worker \cup {Front} -> SUBSET Exchange]
  /\ \A r \in Exchange : /\ ex[r].stage \in PoolStages /\ ex[r].by \in Worker \cup {Front}
                         /\ ex[r].wanted <= writesAt
                         /\ ex[r].work \in {"none", "handled", "finished"}
                         /\ ticket[r] # "none" => ex[r].by # Front
  /\ \A w \in Worker : /\ current[w] \in 0..writesAt
                       /\ up[w] \in {"up", "dead", "reaped"}
                       /\ flush[w].state \in {"idle", "queued", "flushing"}
                       /\ sync[w].queued > 0 => sync[w].wanted < sync[w].queued
  /\ forgone \subseteq Exchange /\ blind \subseteq Worker

PoolInit ==
  /\ writesAt = 0 /\ current = [w \in Worker |-> 0] /\ localSeen = -1
  /\ ticket = [r \in Exchange |-> "none"] /\ ex = [r \in Exchange |-> NewExchange]
  /\ sync = [w \in Worker |-> NoRounds] /\ up = [w \in Worker |-> "up"]
  /\ holds = [p \in Worker \cup {Front} |-> {}]
  /\ fact = [r \in Exchange |-> "none"]
  /\ flush = [w \in Worker |-> NoFlush] /\ channel = [w \in Worker |-> <<>>]
  /\ forgone = {} /\ blind = {} /\ losses = 0

By(r) == ex[r].by
Stored == {r \in Exchange : fact[r] = "stored"}
OfWorker(w, place) == {r \in Exchange : By(r) = w /\ fact[r] = place}
Loses == losses < MaxLosses /\ losses' = losses + 1

-----------------------------------------------------------------------------
(* The front: who is released, and where released exchanges go.            *)

BlockedAny(T, E, r) == FALSE           \* mutant: nobody waits for an announcement

(* blockedBelow: an answered write of another worker is not announced yet. *)
Blocked(T, E, r) == \E q \in E[r].below : T[q] = "finished" /\ E[q].by # E[r].by

(* startSyncRound.                                                         *)
NewRound(s, g) == [id |-> s.last + 1, wanted |-> g, queued |-> 0, last |-> s.last + 1,
                   asked |-> s.asked \cup {s.last + 1}]

(* syncRoundFor: the round running, if it covers g, or the one queued.     *)
Joined(s, g) == CASE s.id = 0 -> NewRound(s, g)
                  [] s.id # 0 /\ s.wanted >= g -> s
                  [] s.id # 0 /\ s.wanted < g -> [s EXCEPT !.queued = Max({@, g})]

LocalRows == Cardinality({r \in Exchange : By(r) = Front /\ fact[r] = "stored"})

(* releaseTicketWaiters, when the tickets are T, the generation g, the     *)
(* workers' generations cur and the exchanges E, and what route() and      *)
(* middleware() do next for those released: a ticket, a look at what the   *)
(* front has committed (noteLocalWrites), and the barrier.                 *)
Released(T, g, cur, E) ==
  LET free == {r \in Exchange : E[r].stage = "waiting" /\ ~Blocked(T, E, r)}
      sends == {r \in free : E[r].by # Front}
      now == IF sends # {} /\ localSeen \in 0..(LocalRows - 1) THEN g + 1 ELSE g
      behind == {r \in sends : cur[E[r].by] < now}
  IN  /\ writesAt' = now
      /\ current' = cur
      /\ localSeen' = IF sends = {} THEN localSeen ELSE LocalRows
      /\ ticket' = [r \in Exchange |-> IF r \in sends THEN "out" ELSE T[r]]
      /\ ex' = [r \in Exchange |->
           IF r \notin free THEN E[r]
           ELSE [E[r] EXCEPT !.wanted = IF r \in sends THEN now ELSE @,
                             !.stage = IF r \in behind THEN "syncing"
                                       ELSE IF r \in sends THEN "sent" ELSE "catching"]]
      /\ sync' = [w \in Worker |-> IF \E r \in behind : E[r].by = w
                                   THEN Joined(sync[w], now) ELSE sync[w]]

(* The first look bumps nothing: what the front committed before it is     *)
(* announced to nobody.                                                    *)
Unannounced(S) ==
  forgone' = forgone \cup S \cup
    (IF localSeen = -1 /\ localSeen' # -1 THEN {r \in Stored : By(r) = Front} ELSE {})

(* A request comes, for the front itself or for a worker.  Of the writes   *)
(* answered by then the pool accounts for those of workers, by tickets,    *)
(* and for the front's that are committed, by noteLocalWrites: what the    *)
(* front has answered and not committed yet has no ticket and no row, and  *)
(* nothing holds a reader for it.                                          *)
ExchangeComes(r, p) ==
  /\ ex[r].stage = "new"
  /\ p # Front => up[p] # "reaped"
  /\ LET answered == {q \in Exchange : ex[q].stage = "answered"}
     IN  Released(ticket, writesAt, current,
           [ex EXCEPT ![r].stage = "waiting", ![r].by = p,
              ![r].below = {q \in Exchange : ticket[q] \in {"out", "finished"}},
              ![r].after = answered,
              ![r].owed = {q \in answered : By(q) # Front \/ fact[q] = "stored"}])
  /\ Unannounced({})
  /\ UNCHANGED <<up, holds, fact, flush, channel, blind, losses>>

(* The two seconds of awaitCommitConfirmations pass: the request goes on,  *)
(* and tickets long finished are reaped.                                   *)
GivesUpWaiting(r) ==
  /\ ex[r].stage = "waiting" /\ Loses
  /\ \E old \in SUBSET {q \in ex[r].below : ticket[q] = "finished"} :
       /\ Released([q \in Exchange |-> IF q \in old THEN "clear" ELSE ticket[q]],
                   writesAt, current,
                   [ex EXCEPT ![r].below = {}, ![r].late = TRUE])
       /\ Unannounced(old)
  /\ UNCHANGED <<up, holds, fact, flush, channel, blind>>

CurrentAnyway(w, wrote) ==             \* mutant: the announcer is always stamped current
  IF wrote THEN [current EXCEPT ![w] = writesAt + 1] ELSE current

(* The announcer is current only if it was before.                         *)
CurrentAfter(w, wrote) ==
  IF wrote /\ current[w] >= writesAt
  THEN [current EXCEPT ![w] = writesAt + 1] ELSE current

(* receiveCommitted.                                                       *)
ReceiveCommitted(w) ==
  /\ channel[w] # <<>> /\ Head(channel[w]).kind = "committed"
  /\ LET told == Head(channel[w])
     IN  Released([r \in Exchange |-> IF r \in told.covers
                                      THEN "clear" ELSE ticket[r]],
                  IF told.wrote THEN writesAt + 1 ELSE writesAt,
                  CurrentAfter(w, told.wrote), ex)
  /\ channel' = [channel EXCEPT ![w] = Tail(@)]
  /\ Unannounced({})
  /\ UNCHANGED <<up, holds, fact, flush, blind, losses>>

(* A round settles: its readers are sent on, and those of the queued one   *)
(* too if the worker is current by now; else that one starts.              *)
Settles(w, ok) ==
  LET s == sync[w]
      cur == IF ok THEN Max({current[w], s.wanted}) ELSE current[w]
      next == s.queued > cur
      on == {r \in Exchange : ex[r].stage = "syncing" /\ By(r) = w
                              /\ (next => ex[r].wanted <= s.wanted)}
  IN  /\ current' = [current EXCEPT ![w] = cur]
      /\ sync' = [sync EXCEPT ![w] = IF next THEN NewRound(s, s.queued)
                                     ELSE [s EXCEPT !.id = 0, !.wanted = 0, !.queued = 0]]
      /\ ex' = [r \in Exchange |->
                  IF r \in on THEN [ex[r] EXCEPT !.stage = "sent", !.late = @ \/ ~ok] ELSE ex[r]]

ReceiveSync(w) ==
  /\ channel[w] # <<>> /\ Head(channel[w]).kind = "synced"
  /\ IF Head(channel[w]).id = sync[w].id THEN Settles(w, TRUE)
     ELSE UNCHANGED <<current, sync, ex>>
  /\ channel' = [channel EXCEPT ![w] = Tail(@)]
  /\ UNCHANGED <<writesAt, ticket, localSeen, up, holds, fact, flush, forgone, blind, losses>>

RoundTimesOut(w) ==
  /\ sync[w].id # 0
  /\ IF up[w] = "up" THEN Loses ELSE UNCHANGED losses
  /\ Settles(w, FALSE)
  /\ UNCHANGED <<writesAt, ticket, localSeen, up, holds, fact, flush, channel, forgone, blind>>

(* The five seconds of barrier() pass: the request is served from what the *)
(* worker has.                                                             *)
GivesUpSyncing(r) ==
  /\ ex[r].stage = "syncing" /\ Loses
  /\ ex' = [ex EXCEPT ![r].stage = "sent", ![r].late = TRUE]
  /\ UNCHANGED <<writesAt, current, ticket, localSeen, sync, up, holds, fact, flush,
                 channel, forgone, blind>>

(* ticketFinished: the answer has been read whole, or was cut off after it *)
(* had begun.                                                              *)
AnswerEnds(r) ==
  /\ ex[r].stage = "sent" /\ ex[r].work # "none"
  /\ ticket' = [ticket EXCEPT ![r] = IF @ = "out" THEN "finished" ELSE @]
  /\ \/ ex' = [ex EXCEPT ![r].stage = "answered"] /\ UNCHANGED losses
     \/ ex' = [ex EXCEPT ![r].stage = "gone"] /\ Loses
  /\ UNCHANGED <<writesAt, current, localSeen, sync, up, holds, fact, flush, channel,
                 forgone, blind>>

TicketFinishedLost == "finished"       \* mutant: a ticket nobody answered is armed
TicketLost == "clear"

(* ticketAbandoned: no answer had begun when the connection failed or the  *)
(* client left.  The worker may run the handler all the same.              *)
Abandoned(r) ==
  /\ ex[r].stage = "sent"
  /\ IF up[By(r)] = "up" THEN Loses ELSE UNCHANGED losses
  /\ Released([ticket EXCEPT ![r] = TicketLost], writesAt, current,
              [ex EXCEPT ![r].stage = "gone"])
  /\ Unannounced({})
  /\ UNCHANGED <<up, holds, fact, flush, channel, blind>>

(* reap: the tickets of a worker that exited block nobody any more.        *)
Reap(w) ==
  /\ up[w] = "dead"
  /\ up' = [up EXCEPT ![w] = "reaped"]
  /\ Released([r \in Exchange |-> IF By(r) = w /\ ticket[r] # "none" THEN "clear" ELSE ticket[r]],
              writesAt, current, ex)
  /\ Unannounced({})
  /\ UNCHANGED <<holds, fact, flush, channel, blind, losses>>

(* What had been answered when r came and is not in what its process has;  *)
(* a write is a write once it is made.                                     *)
Missing(r, has) == {q \in ex[r].after \ (has \cup forgone) : fact[q] # "none"}

(* A request kept here: the front catches up, and answers.                 *)
KeptHere(r) ==
  /\ ex[r].stage = "catching"
  /\ \E writes \in BOOLEAN :
       /\ fact' = [fact EXCEPT ![r] = IF writes THEN "noted" ELSE @]
       /\ holds' = [holds EXCEPT ![Front] = @ \cup Stored \cup {r}]
  /\ ex' = [ex EXCEPT ![r].stage = "answered", ![r].work = "finished",
                      ![r].missed = Missing(r, holds[Front] \cup Stored)]
  /\ UNCHANGED <<writesAt, current, ticket, localSeen, sync, up, flush, channel, forgone,
                 blind, losses>>

FrontFlushes ==
  /\ OfWorker(Front, "noted") # {}
  /\ fact' = [r \in Exchange |-> IF By(r) = Front /\ fact[r] = "noted" THEN "stored" ELSE fact[r]]
  /\ UNCHANGED <<writesAt, current, ticket, localSeen, ex, sync, up, holds, flush, channel,
                 forgone, blind, losses>>

-----------------------------------------------------------------------------
(* A worker.                                                               *)

Tells(w, message) == channel' = [channel EXCEPT ![w] = Append(@, message)]

(* The handler runs; it may write, and its answer goes out.                *)
Handles(r) ==
  /\ ex[r].stage \in {"sent", "gone"} /\ ex[r].work = "none" /\ up[By(r)] = "up"
  /\ \E writes \in BOOLEAN :
       /\ fact' = [fact EXCEPT ![r] = IF writes THEN "noted" ELSE @]
       /\ holds' = [holds EXCEPT ![By(r)] = @ \cup {r}]
  /\ ex' = [ex EXCEPT ![r].work = "handled", ![r].missed = Missing(r, holds[By(r)])]
  /\ UNCHANGED <<writesAt, current, ticket, localSeen, sync, up, flush, channel, forgone,
                 blind, losses>>

(* announceWhenCommitted: the tickets the next flush covers are taken, if  *)
(* no announcement is under way; else they wait for the next one.          *)
Announcing(f) == IF f.state = "idle" /\ f.next # {}
                 THEN [f EXCEPT !.state = "queued", !.covers = f.next, !.next = {}] ELSE f

(* The response finished or closed (announceOnce).                         *)
Finishes(r) ==
  /\ ex[r].work = "handled" /\ up[By(r)] = "up"
  /\ ex' = [ex EXCEPT ![r].work = "finished"]
  /\ flush' = [flush EXCEPT ![By(r)] = Announcing([flush[By(r)] EXCEPT !.next = @ \cup {r}])]
  /\ UNCHANGED <<writesAt, current, ticket, localSeen, sync, up, holds, fact, channel,
                 forgone, blind, losses>>

(* A flush starts, the scheduled one or the announcement's: one that       *)
(* starts after the tickets were taken serves both.                        *)
FlushStarts(w) ==
  /\ up[w] = "up" /\ ~flush[w].running
  /\ flush[w].state = "queued" \/ OfWorker(w, "noted") # {}
  /\ fact' = [r \in Exchange |-> IF r \in OfWorker(w, "noted") THEN "flying" ELSE fact[r]]
  /\ flush' = [flush EXCEPT ![w].running = TRUE,
                            ![w].state = IF @ = "queued" THEN "flushing" ELSE @]
  /\ UNCHANGED <<writesAt, current, ticket, localSeen, ex, sync, up, holds, channel, forgone,
                 blind, losses>>

(* The flush ends, and with it the announcement that waited for it: its    *)
(* tickets, and whether rows were committed since the last one.  A flush   *)
(* that fails resolves as well, and is announced like any other.           *)
FlushEnds(w, ok) ==
  LET f == flush[w]
      flown == OfWorker(w, "flying")
      wrote == f.untold \/ (ok /\ flown # {})
  IN  /\ up[w] = "up" /\ f.running
      /\ fact' = [r \in Exchange |-> IF r \notin flown THEN fact[r]
                                     ELSE IF ok THEN "stored" ELSE "noted"]
      /\ IF f.state = "flushing"
         THEN /\ Tells(w, [kind |-> "committed", wrote |-> wrote, covers |-> f.covers, id |-> 0])
              /\ flush' = [flush EXCEPT ![w] =
                   Announcing([NoFlush EXCEPT !.next = f.next])]
         ELSE /\ flush' = [flush EXCEPT ![w].running = FALSE, ![w].untold = wrote]
              /\ UNCHANGED channel
      /\ IF ok THEN UNCHANGED <<losses, forgone>>
               ELSE Loses /\ forgone' = forgone \cup flown
      /\ UNCHANGED <<writesAt, current, ticket, localSeen, ex, sync, up, holds, blind>>

(* handleSync: the worker reads the change log, and says it caught up      *)
(* whether it did or not.                                                  *)
HandleSync(w) ==
  /\ up[w] = "up" /\ sync[w].asked # {}
  /\ LET id == Min(sync[w].asked)
     IN  /\ sync' = [sync EXCEPT ![w].asked = @ \ {id}]
         /\ Tells(w, [kind |-> "synced", wrote |-> FALSE, covers |-> {}, id |-> id])
  /\ \/ holds' = [holds EXCEPT ![w] = @ \cup Stored] /\ UNCHANGED <<blind, losses>>
     \/ blind' = blind \cup {w} /\ Loses /\ UNCHANGED holds
  /\ UNCHANGED <<writesAt, current, ticket, localSeen, ex, up, fact, flush, forgone>>

(* The worker dies with what it had not flushed; a transaction in flight   *)
(* committed or did not, and nobody announces it.                          *)
WorkerDies(w) ==
  /\ up[w] = "up" /\ Loses
  /\ up' = [up EXCEPT ![w] = "dead"]
  /\ \E flown \in {"stored", "lost"} :
       fact' = [r \in Exchange |-> IF r \in OfWorker(w, "noted") THEN "lost"
                                   ELSE IF r \in OfWorker(w, "flying") THEN flown ELSE fact[r]]
  /\ forgone' = forgone \cup {r \in Exchange : By(r) = w}
  /\ flush' = [flush EXCEPT ![w] = NoFlush]
  /\ sync' = [sync EXCEPT ![w].asked = {}]
  /\ UNCHANGED <<writesAt, current, ticket, localSeen, ex, holds, channel, blind>>

PoolNext ==
  \/ \E r \in Exchange :
       \/ \E p \in Worker \cup {Front} : ExchangeComes(r, p)
       \/ GivesUpWaiting(r) \/ GivesUpSyncing(r) \/ AnswerEnds(r) \/ Abandoned(r)
       \/ KeptHere(r) \/ Handles(r) \/ Finishes(r)
  \/ \E w \in Worker :
       \/ ReceiveCommitted(w) \/ ReceiveSync(w) \/ RoundTimesOut(w) \/ Reap(w)
       \/ FlushStarts(w) \/ HandleSync(w) \/ WorkerDies(w)
       \/ \E ok \in BOOLEAN : FlushEnds(w, ok)
  \/ FrontFlushes

PoolSpec == PoolInit /\ [][PoolNext]_poolvars

-----------------------------------------------------------------------------
(* Properties.                                                             *)

(* What the pool accounts for: whichever process an exchange goes to, it   *)
(* sees every write a worker had answered when it came, and every one the  *)
(* front had answered and committed - unless a wait of it was given up,    *)
(* the write's worker died or failed to flush it, its own could not catch  *)
(* up, or the front committed it before it first looked.                   *)
ReadYourWrite == \A r \in Exchange :
  ex[r].late \/ By(r) \in blind \/ ex[r].missed \cap ex[r].owed = {}

(* What is claimed: "no worker serves a request having seen less than what *)
(* the pool had already answered for" (request_pool.js:3197), the writes   *)
(* the front answered and has not committed included, with the same        *)
(* exceptions.  It does not hold: MCStores_front.cfg has the behaviour.    *)
AnsweredIsSeen == \A r \in Exchange :
  By(r) # Front => ex[r].late \/ By(r) \in blind \/ ex[r].missed = {}

(* No ticket blocks readers for ever: one that is finished is its worker's *)
(* to announce - to be noted, noted, being flushed, or on its way - or the *)
(* worker is dead and not reaped yet (ticketAbandoned, reap).              *)
Announced(w) == UNION {channel[w][i].covers : i \in 1..Len(channel[w])}

TicketsAnnounced == \A r \in Exchange : ticket[r] = "finished" =>
  LET w == By(r) IN
  \/ up[w] = "dead"
  \/ up[w] = "up" /\ \/ ex[r].work = "handled"
                     \/ r \in flush[w].next \cup flush[w].covers \cup Announced(w)
=============================================================================
