------------------------- MODULE RequestPoolProofs --------------------------
(***************************************************************************)
(* What the front process and its request workers promise for any number   *)
(* of workers and exchanges, proved.                                       *)
(***************************************************************************)
EXTENDS RequestPool, FiniteSetTheorems, WellFoundedInduction, TLAPS

LOCAL INSTANCE FiniteSetsExt   \* Max, Min

-----------------------------------------------------------------------------
(* The inductive invariant.  What releases exchanges works on tickets T,   *)
(* workers' generations cur and exchanges E that are not the variables'    *)
(* yet, so the parts that speak of them take them as parameters; U, C and  *)
(* F stand for up, channel and forgone.                                    *)

ExchangeSet == [stage : PoolStages, by : Worker \cup {Front}, below : SUBSET Exchange,
                after : SUBSET Exchange, owed : SUBSET Exchange, wanted : Nat, late : BOOLEAN,
                work : {"none", "handled", "finished"}, missed : SUBSET Exchange]
RoundSet == [id : Nat, wanted : Nat, queued : Nat, last : Nat, asked : SUBSET Nat]
FlushSet == [running : BOOLEAN, state : {"idle", "queued", "flushing"},
             covers : SUBSET Exchange, next : SUBSET Exchange, untold : BOOLEAN]
MessageSet == [kind : {"committed", "synced"}, wrote : BOOLEAN, covers : SUBSET Exchange,
               id : Nat]

TicketStates == {"none", "out", "finished", "clear"}
Facts4 == {"none", "noted", "flying", "stored", "lost"}

PoolTypes ==
  /\ writesAt \in Nat /\ localSeen \in Int /\ losses \in Nat
  /\ current \in [Worker -> Nat]
  /\ ticket \in [Exchange -> TicketStates]
  /\ ex \in [Exchange -> ExchangeSet]
  /\ sync \in [Worker -> RoundSet]
  /\ up \in [Worker -> {"up", "dead", "reaped"}]
  /\ holds \in [Worker \cup {Front} -> SUBSET Exchange]
  /\ fact \in [Exchange -> Facts4]
  /\ flush \in [Worker -> FlushSet]
  /\ channel \in [Worker -> Seq(MessageSet)]
  /\ forgone \in SUBSET Exchange /\ blind \in SUBSET Worker

(* Where an exchange is, its ticket and what its worker has done of it.    *)
Shape(E, T) == \A r \in Exchange :
  /\ E[r].stage = "new" => E[r] = NewExchange
  /\ E[r].stage \in {"new", "waiting", "catching"} => T[r] = "none" /\ E[r].work = "none"
  /\ E[r].stage = "catching" => E[r].by = Front
  /\ E[r].stage \in {"syncing", "sent", "gone"} => E[r].by \in Worker
  /\ E[r].stage = "syncing" => T[r] \in {"out", "clear"} /\ E[r].work = "none"
  /\ E[r].stage = "sent" => T[r] \in {"out", "clear"}
  /\ E[r].stage = "answered" => E[r].work # "none"
  /\ E[r].stage = "answered" /\ E[r].by \in Worker => T[r] \in {"finished", "clear"}
  /\ E[r].stage = "gone" => T[r] \in {"finished", "clear"}
  /\ T[r] = "finished" => E[r].work # "none"
  /\ T[r] # "none" => E[r].by \in Worker
  /\ E[r].work = "none" => fact[r] = "none" /\ E[r].missed = {}
  /\ E[r].work # "none" => r \in holds[E[r].by]
  /\ E[r].work = "handled" => E[r].by \in Worker

(* The exchanges a flush covers have finished, and their rows are not      *)
(* left behind by it.                                                      *)
Flushes(E, F) == \A w \in Worker :
  /\ flush[w].state = "idle" => flush[w].covers = {}
  /\ \A q \in flush[w].next \cup flush[w].covers : E[q].by = w /\ E[q].work = "finished"
  /\ flush[w].state = "flushing" =>
       \A q \in flush[w].covers : fact[q] \in {"none", "flying", "stored"} \/ q \in F

(* What is announced has been stored.                                      *)
Channels(E, C, F) == \A w \in Worker : \A i \in 1..Len(C[w]) :
  /\ C[w][i].kind = "synced" =>
       C[w][i].covers = {} /\ ~C[w][i].wrote /\ C[w][i].id \in 1..sync[w].last
  /\ \A q \in C[w][i].covers : /\ E[q].by = w /\ E[q].work = "finished"
                               /\ fact[q] \in {"none", "stored"} \/ q \in F

InChannel(C, w) == UNION {C[w][i].covers : i \in 1..Len(C[w])}

(* A ticket whose worker has begun is the worker's to announce.            *)
Tickets(E, T, U, C) == \A r \in Exchange : T[r] \in {"out", "finished"} /\ E[r].work # "none" =>
  \/ U[E[r].by] = "dead"
  \/ /\ U[E[r].by] = "up"
     /\ \/ E[r].work = "handled"
        \/ r \in flush[E[r].by].next \cup flush[E[r].by].covers
        \/ \E i \in 1..Len(C[E[r].by]) : r \in C[E[r].by][i].covers

(* gen[q] is the generation that announced the writes of q, 0 when none    *)
(* has.  Until then a message that says its worker wrote is before any     *)
(* that covers q, or the next one will be it.                              *)
Generations(gen, g) ==
  /\ gen \in [Exchange -> Nat]
  /\ \A q \in Exchange : gen[q] <= g /\ (gen[q] # 0 => fact[q] = "stored")

Announcements(gen, E, C, F) == \A q \in Exchange : \A w \in Worker :
  E[q].by = w /\ fact[q] = "stored" /\ q \notin F /\ gen[q] = 0 =>
    \/ \E i \in 1..Len(C[w]) : /\ C[w][i].wrote
                               /\ \A j \in 1..Len(C[w]) : q \in C[w][j].covers => i <= j
    \/ flush[w].untold /\ \A j \in 1..Len(C[w]) : q \notin C[w][j].covers

(* Every row the front has stored is announced when it has looked at all.  *)
OfFront(E) == {q \in Exchange : E[q].by = Front /\ fact[q] = "stored"}
Looked(gen, E, F) ==
  /\ IsFiniteSet({r \in Exchange : E[r].stage # "new"})
  /\ localSeen <= Cardinality(OfFront(E)) /\ localSeen >= -1
  /\ localSeen = Cardinality(OfFront(E)) => \A q \in OfFront(E) : gen[q] # 0 \/ q \in F

(* An exchange of a worker that blocks nobody is announced, or nobody is   *)
(* promised its writes.                                                    *)
Settled(gen, E, T, U, F) == \A q \in Exchange :
  E[q].by \in Worker /\ T[q] = "clear" /\ E[q].stage # "gone" =>
    \/ E[q].work = "none" /\ U[E[q].by] # "up"
    \/ q \in F
    \/ E[q].work # "none" /\ (fact[q] = "none" \/ gen[q] # 0)

(* What a worker that died had begun is promised to nobody, and what was   *)
(* lost with it.                                                           *)
Deaths(E, U, F) == \A q \in Exchange :
  /\ E[q].by \in Worker /\ U[E[q].by] # "up" /\ E[q].work # "none" => q \in F
  /\ fact[q] = "lost" => q \in F

(* A worker has all up to its generation; and, when it has answered the    *)
(* round that runs, all up to what that one wants.                         *)
Knows(gen, cur, F) == \A v \in Worker : v \notin blind =>
  \A q \in Exchange : gen[q] \in 1..cur[v] => q \in holds[v] \cup F

Rounds(gen, g, C, F) == \A v \in Worker :
  /\ sync[v].id <= sync[v].last /\ sync[v].wanted <= g /\ sync[v].queued <= g
  /\ sync[v].asked \subseteq 1..sync[v].last
  /\ sync[v].queued > 0 => sync[v].wanted < sync[v].queued
  /\ sync[v].id = 0 => sync[v].queued = 0
  /\ v \notin blind => \A i \in 1..Len(C[v]) :
       C[v][i].kind = "synced" /\ C[v][i].id = sync[v].id =>
         \A q \in Exchange : gen[q] \in 1..sync[v].wanted => q \in holds[v] \cup F

Syncs(E) == \A r \in Exchange : E[r].stage = "syncing" =>
  /\ sync[E[r].by].id # 0
  /\ E[r].wanted <= sync[E[r].by].wanted \/ E[r].wanted <= sync[E[r].by].queued

Wants(E, cur, g) == /\ \A r \in Exchange : E[r].wanted <= g
                    /\ \A w \in Worker : cur[w] <= g

(* What an exchange is owed: it waits for it, the round it waits for will  *)
(* bring it, or the process has it.                                        *)
Safe(q, p, F) == q \in F \cup holds[p] \/ fact[q] = "none"

Gets(gen, r, E, T, F) == \A q \in E[r].owed :
  /\ E[r].stage = "waiting" => \/ E[q].by = Front /\ fact[q] = "stored"
                               \/ E[q].by \in Worker /\ (T[q] = "finished" => q \in E[r].below)
  /\ E[r].stage = "catching" => Safe(q, Front, F) \/ fact[q] = "stored"
  /\ E[r].stage = "syncing" => Safe(q, E[r].by, F) \/ gen[q] \in 1..E[r].wanted
  /\ E[r].stage \in {"sent", "gone"} => Safe(q, E[r].by, F)

Reads(gen, E, T, F) == \A r \in Exchange :
  /\ \A q \in E[r].owed : E[q].stage = "answered"
  /\ \/ E[r].late \/ E[r].by \in blind
     \/ E[r].missed \cap E[r].owed = {} /\ (E[r].work = "none" => Gets(gen, r, E, T, F))

Told(gen, g, cur, T, E, U, C, F) ==
  /\ Generations(gen, g) /\ Announcements(gen, E, C, F) /\ Looked(gen, E, F)
  /\ Settled(gen, E, T, U, F) /\ Deaths(E, U, F) /\ Knows(gen, cur, F)
  /\ Rounds(gen, g, C, F) /\ Reads(gen, E, T, F)

PoolInv(gen) ==
  /\ PoolTypes /\ Shape(ex, ticket) /\ Flushes(ex, forgone) /\ Channels(ex, channel, forgone)
  /\ Tickets(ex, ticket, up, channel) /\ Syncs(ex) /\ Wants(ex, current, writesAt)
  /\ Told(gen, writesAt, current, ticket, ex, up, channel, forgone)

-----------------------------------------------------------------------------
(* Rounds.                                                                 *)

LEMMA MaxOfTwo ==
  ASSUME NEW x \in Nat, NEW y \in Nat
  PROVE  Max({x, y}) \in Nat /\ Max({x, y}) \in {x, y} /\ Max({x, y}) >= x /\ Max({x, y}) >= y
<1>1. \E m \in {x, y} : \A n \in {x, y} : m >= n
  OBVIOUS
<1>2. Max({x, y}) \in {x, y} /\ \A n \in {x, y} : Max({x, y}) >= n
  BY <1>1 DEF Max
<1> QED BY <1>2

RoundOK(s) == /\ s.id <= s.last /\ s.asked \subseteq 1..s.last
              /\ s.queued > 0 => s.wanted < s.queued
              /\ s.id = 0 => s.queued = 0

LEMMA NewRoundMeans ==
  ASSUME NEW s \in RoundSet, NEW g \in Nat, RoundOK(s)
  PROVE  /\ NewRound(s, g) \in RoundSet /\ RoundOK(NewRound(s, g))
         /\ NewRound(s, g).id = s.last + 1 /\ NewRound(s, g).last = s.last + 1
         /\ NewRound(s, g).wanted = g /\ NewRound(s, g).queued = 0
<1> DEFINE n == NewRound(s, g)
<1>1. /\ n.id = s.last + 1 /\ n.last = s.last + 1 /\ n.wanted = g /\ n.queued = 0
      /\ n.asked = s.asked \cup {s.last + 1}
  BY DEF NewRound, RoundSet
<1>2. s.last \in Nat /\ s.asked \in SUBSET Nat /\ s.asked \subseteq 1..s.last
  BY DEF RoundSet, RoundOK
<1>3. n \in RoundSet
  <2>1. s.last + 1 \in Nat /\ s.asked \cup {s.last + 1} \in SUBSET Nat
    BY <1>2
  <2> QED BY <2>1 DEF NewRound, RoundSet
<1> HIDE DEF n
<1>4. RoundOK(n)
  BY <1>1, <1>2 DEF RoundOK
<1> QED BY <1>1, <1>3, <1>4 DEF n

(* Who joins has a round that covers it, and so have those who joined.     *)
LEMMA JoinedMeans ==
  ASSUME NEW s \in RoundSet, NEW g \in Nat, RoundOK(s)
  PROVE  LET j == Joined(s, g)
         IN  /\ j \in RoundSet /\ RoundOK(j) /\ j.id # 0 /\ j.last >= s.last
             /\ g <= j.wanted \/ g <= j.queued
             /\ s.id # 0 => s.wanted <= j.wanted /\ s.queued <= j.queued
             /\ j.wanted \in {s.wanted, g} /\ j.queued \in {s.queued, g, 0}
             /\ (j.id = s.id /\ j.wanted = s.wanted) \/ j.id = s.last + 1
<1> DEFINE j == Joined(s, g)
<1>1. /\ s.id \in Nat /\ s.wanted \in Nat /\ s.queued \in Nat /\ s.last \in Nat
  BY DEF RoundSet
<1>2. CASE s.id = 0
  <2>1. j = NewRound(s, g)
    BY <1>2 DEF Joined
  <2>2. NewRound(s, g) \in RoundSet /\ RoundOK(NewRound(s, g)) /\ s.queued = 0
    BY <1>1, <1>2, NewRoundMeans DEF RoundOK
  <2>3. /\ NewRound(s, g).id = s.last + 1 /\ NewRound(s, g).last = s.last + 1
        /\ NewRound(s, g).wanted = g /\ NewRound(s, g).queued = 0
    BY NewRoundMeans
  <2> QED BY <1>1, <1>2, <2>1, <2>2, <2>3
<1>3. CASE s.id # 0 /\ s.wanted >= g
  <2>1. j = s
    BY <1>1, <1>3 DEF Joined
  <2> QED BY <1>1, <1>3, <2>1
<1>4. CASE s.id # 0 /\ s.wanted < g
  <2> DEFINE m == Max({s.queued, g})
  <2>1. j = [s EXCEPT !.queued = m]
    BY <1>1, <1>4 DEF Joined
  <2>2. m \in Nat /\ m \in {s.queued, g} /\ m >= s.queued /\ m >= g
    BY <1>1, MaxOfTwo
  <2> HIDE DEF m
  <2>3. /\ j \in RoundSet /\ j.id = s.id /\ j.wanted = s.wanted /\ j.queued = m
        /\ j.last = s.last /\ j.asked = s.asked
    BY <2>1, <2>2 DEF RoundSet
  <2> HIDE DEF j
  <2> QED BY <1>1, <1>4, <2>2, <2>3 DEF RoundOK, j
<1> QED BY <1>1, <1>2, <1>3, <1>4

-----------------------------------------------------------------------------
(* What releasing does, exchange by exchange.                              *)

Free(T, E) == {r \in Exchange : E[r].stage = "waiting" /\ ~Blocked(T, E, r)}
Sends(T, E) == {r \in Free(T, E) : E[r].by # Front}
NowAt(T, g, E) == IF Sends(T, E) # {} /\ localSeen \in 0..(LocalRows - 1) THEN g + 1 ELSE g
Behind(T, g, cur, E) == {r \in Sends(T, E) : cur[E[r].by] < NowAt(T, g, E)}

Carries(e, f) == /\ f.by = e.by /\ f.below = e.below /\ f.owed = e.owed /\ f.late = e.late
                 /\ f.work = e.work /\ f.missed = e.missed

LEMMA ReleasedMeans ==
  ASSUME NEW T \in [Exchange -> TicketStates], NEW g \in Nat, NEW cur \in [Worker -> Nat],
         NEW E \in [Exchange -> ExchangeSet], Released(T, g, cur, E)
  PROVE  /\ writesAt' = NowAt(T, g, E) /\ writesAt' \in {g, g + 1} /\ current' = cur
         /\ localSeen' = IF Sends(T, E) = {} THEN localSeen ELSE LocalRows
         /\ ticket' \in [Exchange -> TicketStates] /\ ex' \in [Exchange -> ExchangeSet]
         /\ \A r \in Exchange :
              /\ ticket'[r] = IF r \in Sends(T, E) THEN "out" ELSE T[r]
              /\ Carries(E[r], ex'[r])
              /\ r \notin Free(T, E) => ex'[r] = E[r]
              /\ r \in Free(T, E) \ Sends(T, E) =>
                   ex'[r].stage = "catching" /\ ex'[r].wanted = E[r].wanted
              /\ r \in Sends(T, E) => ex'[r].wanted = writesAt'
              /\ r \in Behind(T, g, cur, E) => ex'[r].stage = "syncing"
              /\ r \in Sends(T, E) \ Behind(T, g, cur, E) => ex'[r].stage = "sent"
         /\ sync' = [w \in Worker |-> IF \E r \in Behind(T, g, cur, E) : E[r].by = w
                                      THEN Joined(sync[w], writesAt') ELSE sync[w]]
<1> DEFINE free == Free(T, E)
           sends == Sends(T, E)
           now == NowAt(T, g, E)
           behind == Behind(T, g, cur, E)
<1>1. /\ writesAt' = now /\ current' = cur
      /\ localSeen' = IF sends = {} THEN localSeen ELSE LocalRows
      /\ ticket' = [r \in Exchange |-> IF r \in sends THEN "out" ELSE T[r]]
      /\ ex' = [r \in Exchange |->
           IF r \notin free THEN E[r]
           ELSE [E[r] EXCEPT !.wanted = IF r \in sends THEN now ELSE E[r].wanted,
                             !.stage = IF r \in behind THEN "syncing"
                                       ELSE IF r \in sends THEN "sent" ELSE "catching"]]
      /\ sync' = [w \in Worker |-> IF \E r \in behind : E[r].by = w
                                   THEN Joined(sync[w], now) ELSE sync[w]]
  BY DEF Released, Free, Sends, NowAt, Behind
<1>2. now \in {g, g + 1} /\ now \in Nat
  BY DEF NowAt
<1>3. behind \subseteq sends /\ sends \subseteq free
  BY DEF Behind, Sends
<1> HIDE DEF free, sends, now, behind
<1>4. ASSUME NEW r \in Exchange
      PROVE  /\ ex'[r] \in ExchangeSet /\ Carries(E[r], ex'[r])
             /\ r \notin free => ex'[r] = E[r]
             /\ r \in free \ sends => ex'[r].stage = "catching" /\ ex'[r].wanted = E[r].wanted
             /\ r \in sends => ex'[r].wanted = now
             /\ r \in behind => ex'[r].stage = "syncing"
             /\ r \in sends \ behind => ex'[r].stage = "sent"
  <2> DEFINE G(m, stage) == [E[r] EXCEPT !.wanted = m, !.stage = stage]
  <2>1. ASSUME NEW m \in Nat, NEW stage \in PoolStages
        PROVE  /\ G(m, stage) \in ExchangeSet /\ Carries(E[r], G(m, stage))
               /\ G(m, stage).wanted = m /\ G(m, stage).stage = stage
    <3>1. E[r] \in ExchangeSet
      OBVIOUS
    <3>2. G(m, stage) \in ExchangeSet
      BY <3>1 DEF ExchangeSet
    <3>3. Carries(E[r], G(m, stage))
      BY <3>1 DEF ExchangeSet, Carries
    <3>4. G(m, stage).wanted = m /\ G(m, stage).stage = stage
      BY <3>1 DEF ExchangeSet
    <3> QED BY <3>2, <3>3, <3>4
  <2>2. E[r].wanted \in Nat /\ {"syncing", "sent", "catching"} \subseteq PoolStages
    BY DEF ExchangeSet, PoolStages
  <2>3. r \notin free => ex'[r] = E[r] /\ Carries(E[r], ex'[r]) /\ ex'[r] \in ExchangeSet
    BY <1>1 DEF Carries
  <2>4. r \in free => ex'[r] = [E[r] EXCEPT !.wanted = IF r \in sends THEN now ELSE E[r].wanted,
                             !.stage = IF r \in behind THEN "syncing"
                                       ELSE IF r \in sends THEN "sent" ELSE "catching"]
    BY <1>1
  <2>5. CASE r \in behind
    <3>1. ex'[r] = G(now, "syncing")
      BY <1>3, <2>4, <2>5
    <3> HIDE DEF G
    <3> QED BY <1>2, <1>3, <2>1, <2>2, <2>5, <3>1
  <2>6. CASE r \in sends \ behind
    <3>1. ex'[r] = G(now, "sent")
      BY <1>3, <2>4, <2>6
    <3> HIDE DEF G
    <3> QED BY <1>2, <1>3, <2>1, <2>2, <2>6, <3>1
  <2>7. CASE r \in free \ sends
    <3>1. ex'[r] = G(E[r].wanted, "catching")
      BY <1>3, <2>4, <2>7
    <3> HIDE DEF G
    <3> QED BY <1>2, <1>3, <2>1, <2>2, <2>7, <3>1
  <2> QED BY <1>3, <2>3, <2>5, <2>6, <2>7
<1>5. ex' \in [Exchange -> ExchangeSet]
  BY <1>1, <1>4
<1>6. ticket' \in [Exchange -> TicketStates]
  BY <1>1 DEF TicketStates
<1> QED BY <1>1, <1>2, <1>4, <1>5, <1>6 DEF free, sends, now, behind

-----------------------------------------------------------------------------
(* Releasing keeps the invariant.                                          *)

Between(gen, T, g, cur, E) ==
  /\ T \in [Exchange -> TicketStates] /\ g \in Nat /\ cur \in [Worker -> Nat]
  /\ E \in [Exchange -> ExchangeSet]
  /\ Shape(E, T) /\ Flushes(E, forgone') /\ Channels(E, channel', forgone')
  /\ Tickets(E, T, up', channel') /\ Syncs(E) /\ Wants(E, cur, g)
  /\ Told(gen, g, cur, T, E, up', channel', forgone')
  /\ LocalRows = Cardinality(OfFront(E))
  /\ localSeen = -1 /\ localSeen' # -1 => OfFront(E) \subseteq forgone'

StepTypes ==
  /\ up' \in [Worker -> {"up", "dead", "reaped"}] /\ losses' \in Nat
  /\ channel' \in [Worker -> Seq(MessageSet)] /\ forgone' \in SUBSET Exchange

LEMMA ReleasedKept ==
  ASSUME PoolTypes, NEW T, NEW g, NEW cur, NEW E, NEW gen, Between(gen, T, g, cur, E),
         Released(T, g, cur, E), StepTypes, UNCHANGED <<holds, fact, flush, blind>>
  PROVE  \E later : PoolInv(later)'
<1> DEFINE free == Free(T, E)
           sends == Sends(T, E)
           now == writesAt'
           behind == Behind(T, g, cur, E)
<1>1. /\ T \in [Exchange -> TicketStates] /\ g \in Nat /\ cur \in [Worker -> Nat]
      /\ E \in [Exchange -> ExchangeSet]
      /\ Shape(E, T) /\ Flushes(E, forgone') /\ Channels(E, channel', forgone')
      /\ Tickets(E, T, up', channel') /\ Syncs(E) /\ Wants(E, cur, g)
      /\ LocalRows = Cardinality(OfFront(E))
      /\ localSeen = -1 /\ localSeen' # -1 => OfFront(E) \subseteq forgone'
  BY DEF Between
<1>2. /\ Generations(gen, g) /\ Announcements(gen, E, channel', forgone')
      /\ Looked(gen, E, forgone') /\ Settled(gen, E, T, up', forgone')
      /\ Knows(gen, cur, forgone') /\ Rounds(gen, g, channel', forgone')
      /\ Reads(gen, E, T, forgone') /\ Deaths(E, up', forgone')
  BY DEF Between, Told
<1>3. /\ now \in {g, g + 1} /\ current' = cur
      /\ now = IF sends # {} /\ localSeen \in 0..(LocalRows - 1) THEN g + 1 ELSE g
      /\ localSeen' = IF sends = {} THEN localSeen ELSE LocalRows
      /\ ticket' \in [Exchange -> TicketStates] /\ ex' \in [Exchange -> ExchangeSet]
      /\ sync' = [w \in Worker |-> IF \E r \in behind : E[r].by = w
                                   THEN Joined(sync[w], now) ELSE sync[w]]
  BY <1>1, ReleasedMeans DEF NowAt
<1>4. \A r \in Exchange :
        /\ ticket'[r] = IF r \in sends THEN "out" ELSE T[r]
        /\ Carries(E[r], ex'[r])
        /\ r \notin free => ex'[r] = E[r]
        /\ r \in free \ sends => ex'[r].stage = "catching" /\ ex'[r].wanted = E[r].wanted
        /\ r \in sends => ex'[r].wanted = now
        /\ r \in behind => ex'[r].stage = "syncing"
        /\ r \in sends \ behind => ex'[r].stage = "sent"
  BY <1>1, ReleasedMeans
<1>5. /\ behind \subseteq sends /\ sends \subseteq free /\ free \subseteq Exchange
      /\ \A r \in free : E[r].stage = "waiting" /\ E[r].work = "none" /\ T[r] = "none"
      /\ \A r \in free : E[r].by # Front <=> r \in sends
      /\ \A r \in sends : E[r].by \in Worker
      /\ \A r \in sends : cur[E[r].by] < now <=> r \in behind
  <2>1. now = NowAt(T, g, E)
    BY <1>1, ReleasedMeans
  <2> QED BY <1>1, <2>1 DEF Behind, Sends, Free, Shape, ExchangeSet
<1>6. /\ holds' = holds /\ fact' = fact /\ flush' = flush /\ blind' = blind
      /\ holds \in [Worker \cup {Front} -> SUBSET Exchange] /\ fact \in [Exchange -> Facts4]
      /\ flush \in [Worker -> FlushSet] /\ sync \in [Worker -> RoundSet] /\ localSeen \in Int
      /\ forgone' \in SUBSET Exchange /\ Front \notin Worker
  BY PoolConstants DEF PoolTypes, StepTypes, Front
<1> HIDE DEF free, sends, behind
<1>23. PICK later : later = [q \in Exchange |-> IF now # g /\ q \in OfFront(E) /\ gen[q] = 0
                                              THEN now ELSE gen[q]]
  OBVIOUS
<1>7. /\ gen \in [Exchange -> Nat] /\ later \in [Exchange -> Nat] /\ now \in Nat
      /\ \A q \in Exchange : /\ gen[q] <= g
                             /\ later[q] = gen[q] \/ (now = g + 1 /\ gen[q] = 0 /\ later[q] = now
                                                      /\ E[q].by = Front /\ fact[q] = "stored")
                             /\ now # g /\ q \in OfFront(E) => later[q] # 0
  BY <1>1, <1>2, <1>3, <1>23 DEF Generations, OfFront
<1>8. \A q \in Exchange, m \in Nat : m <= g => (later[q] \in 1..m <=> gen[q] \in 1..m)
  BY <1>1, <1>7
<1>9. Generations(later, writesAt)'
  BY <1>1, <1>2, <1>3, <1>6, <1>7 DEF Generations
<1>10. \A r \in Exchange : /\ ex'[r].by = E[r].by /\ ex'[r].below = E[r].below
                           /\ ex'[r].owed = E[r].owed /\ ex'[r].late = E[r].late
                           /\ ex'[r].work = E[r].work /\ ex'[r].missed = E[r].missed
  BY <1>4 DEF Carries
<1>11. Announcements(later, ex, channel, forgone)'
  <2> SUFFICES ASSUME NEW q \in Exchange, NEW w \in Worker, ex'[q].by = w, fact'[q] = "stored",
                      q \notin forgone', later[q] = 0
               PROVE  \/ \E i \in 1..Len(channel'[w]) :
                           /\ channel'[w][i].wrote
                           /\ \A j \in 1..Len(channel'[w]) : q \in channel'[w][j].covers => i <= j
                      \/ /\ flush'[w].untold
                         /\ \A j \in 1..Len(channel'[w]) : q \notin channel'[w][j].covers
    BY DEF Announcements
  <2>1. E[q].by = w /\ fact[q] = "stored" /\ gen[q] = 0
    BY <1>6, <1>7, <1>10
  <2>2. \/ \E i \in 1..Len(channel'[w]) :
             /\ channel'[w][i].wrote
             /\ \A j \in 1..Len(channel'[w]) : q \in channel'[w][j].covers => i <= j
        \/ /\ flush[w].untold
           /\ \A j \in 1..Len(channel'[w]) : q \notin channel'[w][j].covers
    <3>1. Announcements(gen, E, channel', forgone')
      BY <1>2
    <3> QED BY <2>1, <3>1, Zenon DEF Announcements
  <2> QED BY <1>6, <2>2
<1>12. Shape(ex, ticket)'
  <2>1. ASSUME NEW r \in Exchange, r \notin free
        PROVE  ex'[r] = E[r] /\ ticket'[r] = T[r]
    BY <1>4, <1>5, <2>1
  <2>2. ASSUME NEW r \in Exchange, r \in free
        PROVE  /\ ex'[r].stage \in {"catching", "syncing", "sent"} /\ ex'[r].work = "none"
               /\ ex'[r].stage = "catching" => ticket'[r] = "none" /\ ex'[r].by = Front
               /\ ex'[r].stage # "catching" => ticket'[r] = "out" /\ ex'[r].by \in Worker
               /\ fact[r] = "none" /\ ex'[r].missed = {}
    BY <1>1, <1>4, <1>5, <1>6, <1>10, <2>2 DEF Shape
  <2> QED BY <1>1, <1>6, <2>1, <2>2 DEF Shape
<1>13. \A w \in Worker :
         /\ sync'[w] = sync[w] \/ sync'[w] = Joined(sync[w], now)
         /\ sync[w] \in RoundSet /\ RoundOK(sync[w])
         /\ sync[w].wanted <= g /\ sync[w].queued <= g
  BY <1>2, <1>3, <1>6 DEF Rounds, RoundOK
<1>14. ASSUME NEW w \in Worker
       PROVE  /\ sync'[w] \in RoundSet /\ RoundOK(sync'[w]) /\ sync'[w].last >= sync[w].last
              /\ sync'[w].wanted <= now /\ sync'[w].queued <= now
              /\ sync[w].id # 0 => /\ sync'[w].id # 0 /\ sync[w].wanted <= sync'[w].wanted
                                   /\ sync[w].queued <= sync'[w].queued
              /\ \/ sync'[w].id = sync[w].id /\ sync'[w].wanted = sync[w].wanted
                 \/ sync'[w].id = sync[w].last + 1
  <2>1. CASE sync'[w] = sync[w]
    BY <1>1, <1>3, <1>7, <1>13, <2>1 DEF RoundSet
  <2>2. CASE sync'[w] = Joined(sync[w], now)
    <3> DEFINE j == Joined(sync[w], now)
    <3>1. /\ j \in RoundSet /\ RoundOK(j) /\ j.id # 0 /\ j.last >= sync[w].last
          /\ sync[w].id # 0 => sync[w].wanted <= j.wanted /\ sync[w].queued <= j.queued
          /\ j.wanted \in {sync[w].wanted, now} /\ j.queued \in {sync[w].queued, now, 0}
          /\ (j.id = sync[w].id /\ j.wanted = sync[w].wanted) \/ j.id = sync[w].last + 1
      BY <1>7, <1>13, JoinedMeans
    <3> HIDE DEF j
    <3>2. sync'[w] = j
      BY <2>2 DEF j
    <3>3. g <= now /\ 0 <= now /\ sync[w].wanted \in Nat /\ sync[w].queued \in Nat
      BY <1>1, <1>3, <1>6 DEF RoundSet
    <3>4. j.wanted <= now /\ j.queued <= now
      BY <1>1, <1>7, <1>13, <3>1, <3>3
    <3> QED BY <3>1, <3>2, <3>4
  <2> QED BY <1>13, <2>1, <2>2
<1>15. Flushes(ex, forgone)'
  <2> SUFFICES ASSUME NEW w \in Worker
               PROVE  /\ flush[w].state = "idle" => flush[w].covers = {}
                      /\ \A q \in flush[w].next \cup flush[w].covers :
                           ex'[q].by = w /\ ex'[q].work = "finished"
                      /\ flush[w].state = "flushing" => \A q \in flush[w].covers :
                           fact[q] \in {"none", "flying", "stored"} \/ q \in forgone'
    BY <1>6 DEF Flushes
  <2>1. flush[w].next \subseteq Exchange /\ flush[w].covers \subseteq Exchange
    BY <1>6 DEF FlushSet
  <2> QED BY <1>1, <1>10, <2>1 DEF Flushes
<1>16. Channels(ex, channel, forgone)'
  <2>1. ASSUME NEW w \in Worker, NEW n \in 1..sync[w].last PROVE n \in 1..sync'[w].last
    BY <1>6, <1>14 DEF RoundSet
  <2> SUFFICES ASSUME NEW w \in Worker, NEW i \in 1..Len(channel'[w])
               PROVE  /\ channel'[w][i].kind = "synced" =>
                           /\ channel'[w][i].covers = {} /\ ~channel'[w][i].wrote
                           /\ channel'[w][i].id \in 1..sync'[w].last
                      /\ \A q \in channel'[w][i].covers :
                           /\ ex'[q].by = w /\ ex'[q].work = "finished"
                           /\ fact[q] \in {"none", "stored"} \/ q \in forgone'
    BY <1>6 DEF Channels
  <2>2. channel'[w][i] \in MessageSet
    BY DEF StepTypes
  <2>3. channel'[w][i].covers \subseteq Exchange
    BY <2>2 DEF MessageSet
  <2>4. /\ channel'[w][i].kind = "synced" =>
             /\ channel'[w][i].covers = {} /\ ~channel'[w][i].wrote
             /\ channel'[w][i].id \in 1..sync[w].last
        /\ \A q \in channel'[w][i].covers :
             /\ E[q].by = w /\ E[q].work = "finished"
             /\ fact[q] \in {"none", "stored"} \/ q \in forgone'
    BY <1>1, ZenonT(30) DEF Channels
  <2>5. \A q \in channel'[w][i].covers : ex'[q].by = E[q].by /\ ex'[q].work = E[q].work
    BY <1>10, <2>3
  <2>6. channel'[w][i].kind = "synced" => channel'[w][i].id \in 1..sync'[w].last
    BY <2>1, <2>4
  <2> QED BY <2>4, <2>5, <2>6
<1>17. Tickets(ex, ticket, up, channel)'
  <2> SUFFICES ASSUME NEW r \in Exchange, ticket'[r] \in {"out", "finished"},
                      ex'[r].work # "none"
               PROVE  \/ up'[E[r].by] = "dead"
                      \/ /\ up'[E[r].by] = "up"
                         /\ \/ E[r].work = "handled"
                            \/ r \in flush[E[r].by].next \cup flush[E[r].by].covers
                            \/ \E i \in 1..Len(channel'[E[r].by]) :
                                 r \in channel'[E[r].by][i].covers
    BY <1>6, <1>10 DEF Tickets
  <2>1. E[r].work # "none"
    BY <1>10
  <2>2. r \notin sends
    BY <1>5, <2>1
  <2>3. T[r] \in {"out", "finished"}
    BY <1>4, <2>2
  <2> QED BY <1>1, <2>1, <2>3 DEF Tickets
<1>18. Syncs(ex)' /\ Wants(ex, current, writesAt)'
  <2>1. ASSUME NEW r \in Exchange PROVE ex'[r].wanted <= now
    <3>1. E[r].wanted \in Nat /\ E[r].wanted <= g
      BY <1>1 DEF Wants, ExchangeSet
    <3>2. g <= now
      BY <1>1, <1>3
    <3>3. CASE r \in sends
      BY <1>4, <1>7, <3>3
    <3>4. CASE r \notin sends
      <4>1. ex'[r].wanted = E[r].wanted
        BY <1>4, <3>4
      <4> QED BY <1>1, <1>7, <3>1, <3>2, <4>1
    <3> QED BY <3>3, <3>4
  <2>2. \A w \in Worker : cur[w] <= now
    BY <1>1, <1>3 DEF Wants
  <2>3. ASSUME NEW r \in Exchange, ex'[r].stage = "syncing"
        PROVE  /\ sync'[ex'[r].by].id # 0
               /\ ex'[r].wanted <= sync'[ex'[r].by].wanted
                  \/ ex'[r].wanted <= sync'[ex'[r].by].queued
    <3>1. CASE r \notin free
      <4>1. ex'[r] = E[r] /\ E[r].stage = "syncing" /\ E[r].by \in Worker /\ E[r].wanted \in Nat
        BY <1>1, <1>4, <2>3, <3>1 DEF Shape, ExchangeSet
      <4>2. /\ sync[E[r].by].id # 0
            /\ E[r].wanted <= sync[E[r].by].wanted \/ E[r].wanted <= sync[E[r].by].queued
        BY <1>1, <4>1 DEF Syncs
      <4>3. /\ sync[E[r].by].wanted \in Nat /\ sync[E[r].by].queued \in Nat
            /\ sync'[E[r].by].wanted \in Nat /\ sync'[E[r].by].queued \in Nat
        BY <1>6, <1>14, <4>1 DEF RoundSet
      <4> QED BY <1>14, <4>1, <4>2, <4>3
    <3>2. CASE r \in free
      <4>1. r \in behind
        BY <1>4, <2>3, <3>2
      <4>2. E[r].by \in Worker /\ ex'[r].wanted = now /\ sync'[E[r].by] = Joined(sync[E[r].by], now)
        BY <1>3, <1>4, <1>5, <4>1
      <4>3. LET j == Joined(sync[E[r].by], now)
            IN  j.id # 0 /\ (now <= j.wanted \/ now <= j.queued)
        BY <1>7, <1>13, <4>2, JoinedMeans
      <4> QED BY <1>10, <4>2, <4>3
    <3> QED BY <3>1, <3>2
  <2> QED BY <1>3, <2>1, <2>2, <2>3 DEF Wants, Syncs
<1>19. Knows(later, current, forgone)'
  <2> SUFFICES ASSUME NEW v \in Worker, v \notin blind, NEW q \in Exchange, later[q] \in 1..cur[v]
               PROVE  q \in holds[v] \cup forgone'
    BY <1>3, <1>6 DEF Knows
  <2>1. cur[v] \in Nat /\ cur[v] <= g
    BY <1>1 DEF Wants
  <2> QED BY <1>2, <1>8, <2>1 DEF Knows
<1>20. Rounds(later, writesAt, channel, forgone)'
  <2>1. ASSUME NEW v \in Worker, v \notin blind, NEW i \in 1..Len(channel'[v]),
               channel'[v][i].kind = "synced", channel'[v][i].id = sync'[v].id,
               NEW q \in Exchange, later[q] \in 1..sync'[v].wanted
        PROVE  q \in holds[v] \cup forgone'
    <3>1. channel'[v][i].id \in 1..sync[v].last /\ sync[v].last \in Nat
      BY <1>1, <1>6, <2>1 DEF Channels, RoundSet
    <3>2. sync'[v].id = sync[v].id /\ sync'[v].wanted = sync[v].wanted
      BY <1>14, <2>1, <3>1
    <3>3. sync[v].wanted \in Nat /\ sync[v].wanted <= g
      BY <1>6, <1>13 DEF RoundSet
    <3>4. gen[q] \in 1..sync[v].wanted
      BY <1>8, <2>1, <3>2, <3>3
    <3> QED BY <1>2, <2>1, <3>2, <3>4 DEF Rounds
  <2> QED BY <1>6, <1>14, <2>1 DEF Rounds, RoundOK
<1>21. Settled(later, ex, ticket, up, forgone)'
  BY <1>2, <1>4, <1>5, <1>6, <1>7, <1>10 DEF Settled
<1>22. Looked(later, ex, forgone)'
  <2>1. OfFront(ex)' = OfFront(E)
    BY <1>6, <1>10 DEF OfFront
  <2>2. \A r \in Exchange : ex'[r].stage # "new" <=> E[r].stage # "new"
    BY <1>4, <1>5
  <2>3. {r \in Exchange : ex'[r].stage # "new"} = {r \in Exchange : E[r].stage # "new"}
    BY <2>2
  <2>4. localSeen <= LocalRows /\ localSeen >= -1 /\ LocalRows \in Nat
    <3>1. IsFiniteSet(OfFront(E))
      <4>1. OfFront(E) \subseteq {r \in Exchange : E[r].stage # "new"}
        BY <1>1 DEF OfFront, Shape, NewExchange
      <4> QED BY <1>2, <4>1, FS_Subset DEF Looked
    <3> QED BY <1>1, <1>2, <3>1, FS_CardinalityType DEF Looked
  <2>5. CASE sends = {}
    BY <1>1, <1>2, <1>3, <1>7, <2>1, <2>3, <2>5 DEF Looked, OfFront
  <2>6. CASE sends # {}
    <3>1. localSeen' = LocalRows
      BY <1>3, <2>6
    <3>2. ASSUME NEW q \in OfFront(E) PROVE later[q] # 0 \/ q \in forgone'
      <4>1. CASE localSeen = -1
        BY <1>1, <2>4, <3>1, <4>1
      <4>2. CASE localSeen \in 0..(LocalRows - 1)
        BY <1>1, <1>3, <1>7, <2>6, <4>2 DEF OfFront
      <4>3. CASE localSeen = LocalRows
        BY <1>1, <1>2, <1>7, <4>3 DEF Looked, OfFront
      <4> QED BY <1>6, <2>4, <4>1, <4>2, <4>3
    <3>3. \A q \in OfFront(ex)' : later[q] # 0 \/ q \in forgone'
      BY <2>1, <3>2
    <3>4. localSeen' <= Cardinality(OfFront(ex)') /\ localSeen' >= -1
      BY <1>1, <2>1, <2>4, <3>1
    <3>5. IsFiniteSet({r \in Exchange : ex'[r].stage # "new"})
      BY <1>2, <2>3 DEF Looked
    <3> QED BY <3>3, <3>4, <3>5 DEF Looked
  <2> QED BY <2>5, <2>6
<1>24. Reads(later, ex, ticket, forgone)'
  <2> SUFFICES ASSUME NEW r \in Exchange
               PROVE  /\ \A q \in ex'[r].owed : ex'[q].stage = "answered"
                      /\ \/ ex'[r].late \/ ex'[r].by \in blind
                         \/ /\ ex'[r].missed \cap ex'[r].owed = {}
                            /\ ex'[r].work = "none" => Gets(later, r, ex, ticket, forgone)'
    BY <1>6 DEF Reads
  <2>1. E[r].owed \subseteq Exchange
    BY <1>1 DEF ExchangeSet
  <2>2. \A q \in E[r].owed : E[q].stage = "answered"
    BY <1>2 DEF Reads
  <2>3. \A q \in E[r].owed : q \notin free /\ ex'[q] = E[q] /\ ticket'[q] = T[q]
    BY <1>4, <1>5, <2>1, <2>2
  <2>4. \A q \in ex'[r].owed : ex'[q].stage = "answered"
    BY <1>10, <2>2, <2>3
  <2> SUFFICES ASSUME ~E[r].late, E[r].by \notin blind, E[r].missed \cap E[r].owed = {},
                      E[r].work = "none", Gets(gen, r, E, T, forgone')
               PROVE  Gets(later, r, ex, ticket, forgone)'
    BY <1>2, <1>10, <2>4 DEF Reads
  <2>5. ASSUME NEW q \in E[r].owed, r \notin free
        PROVE  /\ E[r].stage = "waiting" =>
                    \/ E[q].by = Front /\ fact[q] = "stored"
                    \/ E[q].by \in Worker /\ (ticket'[q] = "finished" => q \in E[r].below)
               /\ E[r].stage = "catching" => Safe(q, Front, forgone') \/ fact[q] = "stored"
               /\ E[r].stage = "syncing" =>
                    Safe(q, E[r].by, forgone') \/ later[q] \in 1..E[r].wanted
               /\ E[r].stage \in {"sent", "gone"} => Safe(q, E[r].by, forgone')
    <3>1. E[r].wanted \in Nat /\ E[r].wanted <= g /\ q \in Exchange
      BY <1>1, <2>1 DEF Wants, ExchangeSet
    <3>2. gen[q] \in 1..E[r].wanted => later[q] \in 1..E[r].wanted
      BY <1>8, <3>1
    <3> QED BY <1>6, <2>3, <3>2 DEF Gets, Safe
  <2>6. CASE r \notin free
    <3>1. ex'[r] = E[r]
      BY <1>4, <2>6
    <3> QED BY <1>6, <2>3, <2>5, <2>6, <3>1 DEF Gets, Safe
  <2>7. CASE r \in free
    <3>1. ASSUME NEW q \in E[r].owed
          PROVE  \/ Safe(q, E[r].by, forgone') \/ gen[q] \in 1..g
                 \/ E[q].by = Front /\ fact[q] = "stored"
      <4>1. q \in Exchange /\ E[q].stage = "answered" /\ E[q].work # "none" /\ q \in holds[E[q].by]
        BY <1>1, <2>1, <2>2 DEF Shape
      <4>2. CASE E[q].by \in Worker
        <5>1. T[q] \in {"finished", "clear"}
          BY <1>1, <4>1, <4>2 DEF Shape
        <5>2. CASE T[q] = "finished"
          <6>1. q \in E[r].below
            BY <1>5, <1>6, <2>7, <4>2, <5>2 DEF Gets
          <6>2. E[q].by = E[r].by
            BY <1>5, <2>7, <5>2, <6>1 DEF Free, Blocked, free
          <6> QED BY <4>1, <6>2 DEF Safe
        <5>3. CASE T[q] = "clear"
          <6>1. q \in forgone' \/ fact[q] = "none" \/ gen[q] # 0
            BY <1>2, <4>1, <4>2, <5>3 DEF Settled
          <6> QED BY <1>1, <1>7, <4>1, <6>1 DEF Safe
        <5> QED BY <5>1, <5>2, <5>3
      <4>3. CASE E[q].by \notin Worker
        BY <1>5, <2>7, <4>3 DEF Gets
      <4> QED BY <4>2, <4>3
    <3>2. CASE r \notin sends
      <4>1. ex'[r].stage = "catching" /\ E[r].by = Front
        BY <1>4, <1>5, <2>7, <3>2
      <4>2. \A q \in E[r].owed : Safe(q, Front, forgone') \/ fact[q] = "stored"
        BY <1>2, <2>1, <3>1, <4>1 DEF Generations
      <4> QED BY <1>6, <1>10, <4>1, <4>2 DEF Gets, Safe
    <3>3. CASE r \in sends
      <4>1. ASSUME NEW q \in E[r].owed
            PROVE  Safe(q, E[r].by, forgone') \/ later[q] \in 1..now
        <5>1. CASE Safe(q, E[r].by, forgone')
          BY <5>1
        <5>2. CASE gen[q] \in 1..g
          <6>1. later[q] \in 1..g
            BY <1>1, <1>8, <2>1, <5>2
          <6> QED BY <1>1, <1>3, <6>1
        <5>3. CASE E[q].by = Front /\ fact[q] = "stored"
          <6>1. localSeen' = LocalRows /\ q \in OfFront(E) /\ q \in Exchange
            BY <1>3, <2>1, <3>3, <5>3 DEF OfFront
          <6>2. q \in OfFront(ex)'
            BY <1>6, <1>10, <6>1 DEF OfFront
          <6>3. OfFront(ex)' = OfFront(E)
            BY <1>6, <1>10 DEF OfFront
          <6>4. later[q] # 0 \/ q \in forgone'
            BY <1>1, <1>22, <6>1, <6>2, <6>3 DEF Looked
          <6>5. later[q] # 0 => later[q] \in 1..now
            BY <1>9, <6>1 DEF Generations
          <6> QED BY <6>4, <6>5 DEF Safe
        <5> QED BY <3>1, <5>1, <5>2, <5>3
      <4>2. CASE r \in behind
        BY <1>4, <1>6, <1>10, <3>3, <4>1, <4>2 DEF Gets, Safe
      <4>3. CASE r \notin behind
        <5>1. ex'[r].stage = "sent" /\ E[r].by \in Worker /\ ~(cur[E[r].by] < now)
          BY <1>4, <1>5, <3>3, <4>3
        <5>2. cur[E[r].by] \in Nat /\ now <= cur[E[r].by]
          BY <1>1, <1>7, <5>1
        <5>3. ASSUME NEW q \in E[r].owed, later[q] \in 1..now
              PROVE  q \in holds[E[r].by] \cup forgone'
          <6>1. later[q] \in 1..cur[E[r].by]
            BY <1>7, <5>2, <5>3
          <6> QED BY <1>3, <1>6, <1>19, <2>1, <5>1, <6>1 DEF Knows
        <5>4. \A q \in E[r].owed : Safe(q, E[r].by, forgone')
          BY <4>1, <5>3 DEF Safe
        <5> QED BY <1>6, <1>10, <5>1, <5>4 DEF Gets, Safe
      <4> QED BY <4>2, <4>3
    <3> QED BY <3>2, <3>3
  <2> QED BY <2>6, <2>7
<1>25. PoolTypes'
  <2>1. sync' \in [Worker -> RoundSet]
    BY <1>3, <1>14
  <2>2. localSeen' \in Int /\ writesAt' \in Nat
    BY <1>1, <1>3, <1>6, <1>7, <1>22 DEF Looked
  <2> QED BY <1>1, <1>3, <1>6, <2>1, <2>2 DEF PoolTypes, StepTypes
<1>26. Deaths(ex, up, forgone)'
  BY <1>2, <1>10 DEF Deaths
<1> QED BY <1>9, <1>11, <1>12, <1>15, <1>16, <1>17, <1>18, <1>19, <1>20, <1>21, <1>22, <1>24, <1>25,
           <1>26 DEF PoolInv, Told

LEMMA InvariantParts ==
  ASSUME NEW gen, PoolInv(gen)
  PROVE  /\ PoolTypes /\ Shape(ex, ticket) /\ Flushes(ex, forgone)
         /\ Channels(ex, channel, forgone) /\ Tickets(ex, ticket, up, channel) /\ Syncs(ex)
         /\ Wants(ex, current, writesAt) /\ Generations(gen, writesAt)
         /\ Announcements(gen, ex, channel, forgone) /\ Looked(gen, ex, forgone)
         /\ Settled(gen, ex, ticket, up, forgone) /\ Deaths(ex, up, forgone)
         /\ Knows(gen, current, forgone) /\ Rounds(gen, writesAt, channel, forgone)
         /\ Reads(gen, ex, ticket, forgone)
BY DEF PoolInv, Told

LEMMA UnannouncedMeans ==
  ASSUME PoolTypes, NEW S \in SUBSET Exchange, Unannounced(S)
  PROVE  /\ forgone' \in SUBSET Exchange /\ forgone \subseteq forgone' /\ S \subseteq forgone'
         /\ localSeen = -1 /\ localSeen' # -1 => OfFront(ex) \subseteq forgone'
         /\ LocalRows = Cardinality(OfFront(ex))
<1>1. OfFront(ex) = {r \in Stored : By(r) = Front}
  BY DEF OfFront, Stored, By
<1>2. OfFront(ex) \in SUBSET Exchange
  BY DEF OfFront
<1>3. LocalRows = Cardinality(OfFront(ex))
  BY DEF LocalRows, OfFront, By
<1> QED BY <1>1, <1>2, <1>3 DEF Unannounced, PoolTypes

(* What is promised to nobody may only become more.                        *)
LEMMA MoreForgone ==
  ASSUME PoolTypes, NEW gen, NEW E \in [Exchange -> ExchangeSet], NEW F, NEW G, F \subseteq G
  PROVE  /\ Flushes(E, F) => Flushes(E, G)
         /\ Channels(E, channel, F) => Channels(E, channel, G)
         /\ Announcements(gen, E, channel, F) => Announcements(gen, E, channel, G)
         /\ Looked(gen, E, F) => Looked(gen, E, G)
         /\ \A T, U : Settled(gen, E, T, U, F) => Settled(gen, E, T, U, G)
         /\ \A U : Deaths(E, U, F) => Deaths(E, U, G)
         /\ \A cur : Knows(gen, cur, F) => Knows(gen, cur, G)
         /\ \A g : Rounds(gen, g, channel, F) => Rounds(gen, g, channel, G)
         /\ \A T : Reads(gen, E, T, F) => Reads(gen, E, T, G)
<1>1. Flushes(E, F) => Flushes(E, G)
  BY DEF Flushes
<1>2. Channels(E, channel, F) => Channels(E, channel, G)
  BY DEF Channels
<1>3. Announcements(gen, E, channel, F) => Announcements(gen, E, channel, G)
  BY DEF Announcements
<1>4. Looked(gen, E, F) => Looked(gen, E, G)
  BY DEF Looked
<1>5. \A T, U : Settled(gen, E, T, U, F) => Settled(gen, E, T, U, G)
  BY DEF Settled
<1>6. \A U : Deaths(E, U, F) => Deaths(E, U, G)
  BY DEF Deaths
<1>7. \A cur : Knows(gen, cur, F) => Knows(gen, cur, G)
  BY DEF Knows
<1>8. \A g : Rounds(gen, g, channel, F) => Rounds(gen, g, channel, G)
  BY DEF Rounds
<1>9. ASSUME NEW T, Reads(gen, E, T, F) PROVE Reads(gen, E, T, G)
  <2>1. \A q, p : Safe(q, p, F) => Safe(q, p, G)
    BY DEF Safe
  <2>2. \A r \in Exchange : Gets(gen, r, E, T, F) => Gets(gen, r, E, T, G)
    BY <2>1 DEF Gets
  <2> QED BY <1>9, <2>2 DEF Reads
<1> QED BY <1>1, <1>2, <1>3, <1>4, <1>5, <1>6, <1>7, <1>8, <1>9

-----------------------------------------------------------------------------
(* The steps that release.                                                 *)

LEMMA ReapKept ==
  ASSUME NEW gen, PoolInv(gen), NEW w \in Worker, Reap(w)
  PROVE  \E later : PoolInv(later)'
<1> DEFINE T == [r \in Exchange |-> IF By(r) = w /\ ticket[r] # "none" THEN "clear" ELSE ticket[r]]
<1>1. /\ up[w] = "dead" /\ up' = [up EXCEPT ![w] = "reaped"] /\ Unannounced({})
      /\ Released(T, writesAt, current, ex)
      /\ UNCHANGED <<holds, fact, flush, channel, blind, losses>>
  BY DEF Reap
<1>2. /\ PoolTypes /\ Shape(ex, ticket) /\ Flushes(ex, forgone)
      /\ Channels(ex, channel, forgone) /\ Tickets(ex, ticket, up, channel) /\ Syncs(ex)
      /\ Wants(ex, current, writesAt) /\ Generations(gen, writesAt)
      /\ Announcements(gen, ex, channel, forgone) /\ Looked(gen, ex, forgone)
      /\ Settled(gen, ex, ticket, up, forgone) /\ Deaths(ex, up, forgone)
      /\ Knows(gen, current, forgone) /\ Rounds(gen, writesAt, channel, forgone)
      /\ Reads(gen, ex, ticket, forgone)
  BY InvariantParts
<1>3. /\ forgone' \in SUBSET Exchange /\ forgone \subseteq forgone'
      /\ localSeen = -1 /\ localSeen' # -1 => OfFront(ex) \subseteq forgone'
      /\ LocalRows = Cardinality(OfFront(ex))
  BY <1>1, <1>2, UnannouncedMeans
<1>4. /\ ex \in [Exchange -> ExchangeSet] /\ current \in [Worker -> Nat] /\ writesAt \in Nat
      /\ ticket \in [Exchange -> TicketStates] /\ up \in [Worker -> {"up", "dead", "reaped"}]
  BY <1>2 DEF PoolTypes
<1>5. /\ T \in [Exchange -> TicketStates]
      /\ \A r \in Exchange :
           T[r] = ticket[r] \/ (T[r] = "clear" /\ ex[r].by = w /\ ticket[r] # "none")
      /\ \A r \in Exchange : ex[r].by = w => T[r] \in {"none", "clear"}
  BY <1>4 DEF TicketStates, By
<1> HIDE DEF T
<1>6. /\ up' \in [Worker -> {"up", "dead", "reaped"}]
      /\ \A v \in Worker : up'[v] = "up" <=> up[v] = "up"
  BY <1>1, <1>4
<1>7. Shape(ex, T)
  BY <1>2, <1>5 DEF Shape
<1>8. Tickets(ex, T, up', channel')
  BY <1>1, <1>2, <1>4, <1>5, <1>6 DEF Tickets, Shape
<1>9. Deaths(ex, up', forgone) /\ Settled(gen, ex, T, up', forgone)
  <2>1. Deaths(ex, up', forgone)
    BY <1>2, <1>6 DEF Deaths
  <2>2. up[w] # "up" /\ up'[w] # "up"
    BY <1>1, <1>6
  <2> QED BY <1>2, <1>5, <1>6, <2>1, <2>2 DEF Deaths, Settled
<1>10. Reads(gen, ex, T, forgone)
  <2>1. \A r \in Exchange : Gets(gen, r, ex, ticket, forgone) => Gets(gen, r, ex, T, forgone)
    BY <1>4, <1>5 DEF Gets, ExchangeSet
  <2> QED BY <1>2, <2>1 DEF Reads
<1>11. StepTypes
  BY <1>1, <1>2, <1>3, <1>6 DEF StepTypes, PoolTypes
<1>12. Told(gen, writesAt, current, T, ex, up', channel', forgone')
  BY <1>1, <1>2, <1>3, <1>4, <1>9, <1>10, MoreForgone DEF Told
<1>13. Between(gen, T, writesAt, current, ex)
  BY <1>1, <1>2, <1>3, <1>4, <1>5, <1>7, <1>8, <1>12, MoreForgone DEF Between
<1> QED BY <1>1, <1>2, <1>11, <1>13, ReleasedKept

LEMMA AbandonedKept ==
  ASSUME NEW gen, PoolInv(gen), NEW r \in Exchange, Abandoned(r)
  PROVE  \E later : PoolInv(later)'
<1> DEFINE T == [ticket EXCEPT ![r] = "clear"]
           E == [ex EXCEPT ![r].stage = "gone"]
<1>1. /\ ex[r].stage = "sent" /\ losses' \in Nat /\ Unannounced({})
      /\ Released(T, writesAt, current, E)
      /\ UNCHANGED <<up, holds, fact, flush, channel, blind>>
  BY InvariantParts DEF Abandoned, TicketLost, Loses, PoolTypes
<1>2. /\ PoolTypes /\ Shape(ex, ticket) /\ Flushes(ex, forgone)
      /\ Channels(ex, channel, forgone) /\ Tickets(ex, ticket, up, channel) /\ Syncs(ex)
      /\ Wants(ex, current, writesAt) /\ Generations(gen, writesAt)
      /\ Announcements(gen, ex, channel, forgone) /\ Looked(gen, ex, forgone)
      /\ Settled(gen, ex, ticket, up, forgone) /\ Deaths(ex, up, forgone)
      /\ Knows(gen, current, forgone) /\ Rounds(gen, writesAt, channel, forgone)
      /\ Reads(gen, ex, ticket, forgone)
  BY InvariantParts
<1>3. /\ forgone' \in SUBSET Exchange /\ forgone \subseteq forgone'
      /\ localSeen = -1 /\ localSeen' # -1 => OfFront(ex) \subseteq forgone'
      /\ LocalRows = Cardinality(OfFront(ex))
  BY <1>1, <1>2, UnannouncedMeans
<1>4. /\ ex \in [Exchange -> ExchangeSet] /\ current \in [Worker -> Nat] /\ writesAt \in Nat
      /\ ticket \in [Exchange -> TicketStates] /\ forgone \in SUBSET Exchange
  BY <1>2 DEF PoolTypes
<1>5. /\ T \in [Exchange -> TicketStates] /\ T[r] = "clear"
      /\ \A q \in Exchange : q # r => T[q] = ticket[q]
  BY <1>4 DEF TicketStates
<1>6. /\ E \in [Exchange -> ExchangeSet] /\ E[r].stage = "gone" /\ Carries(ex[r], E[r])
      /\ E[r].wanted = ex[r].wanted /\ \A q \in Exchange : q # r => E[q] = ex[q]
  BY <1>4 DEF ExchangeSet, PoolStages, Carries
<1> HIDE DEF T, E
<1>7. \A q \in Exchange : /\ E[q].by = ex[q].by /\ E[q].work = ex[q].work
                          /\ E[q].owed = ex[q].owed /\ E[q].late = ex[q].late
                          /\ E[q].missed = ex[q].missed /\ E[q].below = ex[q].below
                          /\ E[q].wanted = ex[q].wanted
  BY <1>6 DEF Carries
<1>8. Shape(E, T)
  <2>1. E[r].by \in Worker /\ (E[r].work = "none" => fact[r] = "none" /\ E[r].missed = {})
        /\ (E[r].work # "none" => r \in holds[E[r].by])
    BY <1>1, <1>2, <1>7 DEF Shape
  <2> QED BY <1>2, <1>5, <1>6, <2>1 DEF Shape
<1>9. Flushes(E, forgone)
  <2>1. \A w \in Worker : flush[w].next \subseteq Exchange /\ flush[w].covers \subseteq Exchange
    BY <1>2 DEF PoolTypes, FlushSet
  <2> QED BY <1>2, <1>7, <2>1 DEF Flushes
<1>10. Channels(E, channel, forgone)
  <2>1. ASSUME NEW w \in Worker, NEW i \in 1..Len(channel[w])
        PROVE  channel[w][i].covers \subseteq Exchange
    <3>1. channel[w] \in Seq(MessageSet)
      BY <1>2 DEF PoolTypes
    <3>2. channel[w][i] \in MessageSet
      BY <3>1
    <3> QED BY <3>2 DEF MessageSet
  <2> QED BY <1>2, <1>7, <2>1 DEF Channels
<1>11. Tickets(E, T, up, channel)
  BY <1>2, <1>5, <1>7 DEF Tickets
<1>12. Syncs(E) /\ Wants(E, current, writesAt)
  BY <1>2, <1>6, <1>7 DEF Syncs, Wants
<1>13. OfFront(E) = OfFront(ex)
  BY <1>7 DEF OfFront
<1>14. Announcements(gen, E, channel, forgone) /\ Deaths(E, up, forgone)
  BY <1>2, <1>7 DEF Announcements, Deaths
<1>15. Looked(gen, E, forgone)
  <2>1. {q \in Exchange : E[q].stage # "new"} = {q \in Exchange : ex[q].stage # "new"}
    BY <1>1, <1>6
  <2> QED BY <1>2, <1>13, <2>1 DEF Looked
<1>16. Settled(gen, E, T, up, forgone)
  BY <1>2, <1>5, <1>6, <1>7 DEF Settled
<1>17. Reads(gen, E, T, forgone)
  <2> SUFFICES ASSUME NEW q \in Exchange
               PROVE  /\ \A p \in E[q].owed : E[p].stage = "answered"
                      /\ \/ E[q].late \/ E[q].by \in blind
                         \/ /\ E[q].missed \cap E[q].owed = {}
                            /\ E[q].work = "none" => Gets(gen, q, E, T, forgone)
    BY DEF Reads
  <2>1. ex[q].owed \subseteq Exchange /\ \A p \in ex[q].owed : ex[p].stage = "answered"
    BY <1>2, <1>4 DEF Reads, ExchangeSet
  <2>2. \A p \in ex[q].owed : p # r /\ E[p] = ex[p] /\ T[p] = ticket[p]
    BY <1>1, <1>5, <1>6, <2>1
  <2>3. Gets(gen, q, ex, ticket, forgone) => Gets(gen, q, E, T, forgone)
    BY <1>1, <1>6, <1>7, <2>2 DEF Gets
  <2> QED BY <1>2, <1>7, <2>1, <2>2, <2>3 DEF Reads
<1>18. StepTypes
  BY <1>1, <1>2, <1>3 DEF StepTypes, PoolTypes
<1>19. Told(gen, writesAt, current, T, E, up', channel', forgone')
  BY <1>1, <1>2, <1>3, <1>6, <1>14, <1>15, <1>16, <1>17, MoreForgone DEF Told
<1>20. Flushes(E, forgone') /\ Channels(E, channel', forgone')
  BY <1>1, <1>2, <1>3, <1>6, <1>9, <1>10, MoreForgone
<1>21. Between(gen, T, writesAt, current, E)
  BY <1>1, <1>3, <1>4, <1>5, <1>6, <1>8, <1>11, <1>12, <1>13, <1>19, <1>20 DEF Between
<1> QED BY <1>1, <1>2, <1>18, <1>21, ReleasedKept

(* What a message and a flush cover are exchanges.                         *)
LEMMA CoversMeans ==
  ASSUME PoolTypes
  PROVE  /\ \A w \in Worker : flush[w] \in FlushSet /\ channel[w] \in Seq(MessageSet)
         /\ \A w \in Worker : flush[w].next \subseteq Exchange /\ flush[w].covers \subseteq Exchange
         /\ \A w \in Worker : \A i \in 1..Len(channel[w]) :
              channel[w][i] \in MessageSet /\ channel[w][i].covers \subseteq Exchange
<1>1. \A w \in Worker : flush[w] \in FlushSet /\ channel[w] \in Seq(MessageSet)
  BY DEF PoolTypes
<1>2. \A w \in Worker : flush[w].next \subseteq Exchange /\ flush[w].covers \subseteq Exchange
  BY <1>1 DEF FlushSet
<1>3. ASSUME NEW w \in Worker, NEW i \in 1..Len(channel[w])
      PROVE  channel[w][i] \in MessageSet /\ channel[w][i].covers \subseteq Exchange
  <2>1. channel[w][i] \in MessageSet
    BY <1>1
  <2> QED BY <2>1 DEF MessageSet
<1> QED BY <1>1, <1>2, <1>3

(* The first message of a worker is taken.                                 *)
LEMMA Received ==
  ASSUME PoolTypes, NEW w \in Worker, channel[w] # <<>>,
         channel' = [channel EXCEPT ![w] = Tail(channel[w])]
  PROVE  /\ channel' \in [Worker -> Seq(MessageSet)]
         /\ \A v \in Worker : v # w => channel'[v] = channel[v]
         /\ Len(channel[w]) \in Nat /\ Len(channel[w]) > 0
         /\ Len(channel'[w]) = Len(channel[w]) - 1
         /\ Head(channel[w]) = channel[w][1] /\ channel[w][1] \in MessageSet
         /\ \A i \in 1..Len(channel'[w]) : /\ channel'[w][i] = channel[w][i + 1]
                                           /\ i + 1 \in 1..Len(channel[w])
         /\ \A v \in Worker : \A i \in 1..Len(channel'[v]) :
              \E j \in 1..Len(channel[v]) : channel'[v][i] = channel[v][j]
<1>1. channel \in [Worker -> Seq(MessageSet)] /\ channel[w] \in Seq(MessageSet)
  BY DEF PoolTypes
<1>2. Tail(channel[w]) \in Seq(MessageSet) /\ Len(channel[w]) \in Nat /\ Len(channel[w]) > 0
  BY <1>1
<1>3. /\ channel'[w] = Tail(channel[w]) /\ \A v \in Worker : v # w => channel'[v] = channel[v]
      /\ channel' \in [Worker -> Seq(MessageSet)]
  BY <1>1, <1>2
<1>4. /\ Len(channel'[w]) = Len(channel[w]) - 1
      /\ Head(channel[w]) = channel[w][1] /\ channel[w][1] \in MessageSet
      /\ \A i \in 1..Len(channel'[w]) : /\ channel'[w][i] = channel[w][i + 1]
                                        /\ i + 1 \in 1..Len(channel[w])
  BY <1>1, <1>2, <1>3
<1>5. ASSUME NEW v \in Worker, NEW i \in 1..Len(channel'[v])
      PROVE  \E j \in 1..Len(channel[v]) : channel'[v][i] = channel[v][j]
  BY <1>3, <1>4
<1> QED BY <1>2, <1>3, <1>4, <1>5

LEMMA ReceiveCommittedKept ==
  ASSUME NEW gen, PoolInv(gen), NEW w \in Worker, ReceiveCommitted(w)
  PROVE  \E later : PoolInv(later)'
<1> DEFINE told == Head(channel[w])
           T == [r \in Exchange |-> IF r \in told.covers THEN "clear" ELSE ticket[r]]
           g == IF told.wrote THEN writesAt + 1 ELSE writesAt
           cur == CurrentAfter(w, told.wrote)
<1>1. /\ channel[w] # <<>> /\ channel' = [channel EXCEPT ![w] = Tail(channel[w])]
      /\ Unannounced({}) /\ Released(T, g, cur, ex)
      /\ UNCHANGED <<up, holds, fact, flush, blind, losses>>
  BY DEF ReceiveCommitted
<1>2. /\ PoolTypes /\ Shape(ex, ticket) /\ Flushes(ex, forgone)
      /\ Channels(ex, channel, forgone) /\ Tickets(ex, ticket, up, channel) /\ Syncs(ex)
      /\ Wants(ex, current, writesAt) /\ Generations(gen, writesAt)
      /\ Announcements(gen, ex, channel, forgone) /\ Looked(gen, ex, forgone)
      /\ Settled(gen, ex, ticket, up, forgone) /\ Deaths(ex, up, forgone)
      /\ Knows(gen, current, forgone) /\ Rounds(gen, writesAt, channel, forgone)
      /\ Reads(gen, ex, ticket, forgone)
  BY InvariantParts
<1>3. /\ forgone' \in SUBSET Exchange /\ forgone \subseteq forgone'
      /\ localSeen = -1 /\ localSeen' # -1 => OfFront(ex) \subseteq forgone'
      /\ LocalRows = Cardinality(OfFront(ex))
  BY <1>1, <1>2, UnannouncedMeans
<1>4. /\ ex \in [Exchange -> ExchangeSet] /\ current \in [Worker -> Nat] /\ writesAt \in Nat
      /\ ticket \in [Exchange -> TicketStates] /\ forgone \in SUBSET Exchange
      /\ Front \notin Worker
  BY <1>2, PoolConstants DEF PoolTypes, Front
<1>5. /\ channel' \in [Worker -> Seq(MessageSet)]
      /\ \A v \in Worker : v # w => channel'[v] = channel[v]
      /\ Len(channel[w]) \in Nat /\ Len(channel[w]) > 0
      /\ Len(channel'[w]) = Len(channel[w]) - 1
      /\ told = channel[w][1] /\ channel[w][1] \in MessageSet /\ 1 \in 1..Len(channel[w])
      /\ \A i \in 1..Len(channel'[w]) : /\ channel'[w][i] = channel[w][i + 1]
                                        /\ i + 1 \in 1..Len(channel[w])
      /\ \A v \in Worker : \A i \in 1..Len(channel'[v]) :
           \E j \in 1..Len(channel[v]) : channel'[v][i] = channel[v][j]
  <2>1. Head(channel[w]) = channel[w][1] /\ channel[w][1] \in MessageSet
    BY <1>1, <1>2, Received
  <2>2. Len(channel[w]) \in Nat /\ Len(channel[w]) > 0
    BY <1>1, <1>2, Received
  <2>3. 1 \in 1..Len(channel[w])
    BY <2>2
  <2> HIDE DEF T, g, cur
  <2>4. told = channel[w][1]
    BY <2>1
  <2> HIDE DEF told
  <2> QED BY <1>1, <1>2, <2>1, <2>2, <2>3, <2>4, Received
<1>6. /\ told.wrote \in BOOLEAN /\ told.covers \in SUBSET Exchange
      /\ \A q \in told.covers : /\ ex[q].by = w /\ ex[q].work = "finished"
                                /\ fact[q] \in {"none", "stored"} \/ q \in forgone
  <2>1. told.wrote \in BOOLEAN /\ told.covers \in SUBSET Exchange
    BY <1>5 DEF MessageSet
  <2> QED BY <1>2, <1>5, <2>1 DEF Channels
<1> HIDE DEF told
<1>7. /\ T \in [Exchange -> TicketStates]
      /\ \A r \in Exchange : /\ r \in told.covers => T[r] = "clear"
                             /\ r \notin told.covers => T[r] = ticket[r]
  BY <1>4 DEF TicketStates
<1>8. /\ g \in Nat /\ g \in {writesAt, writesAt + 1} /\ (told.wrote <=> g = writesAt + 1)
      /\ cur \in [Worker -> Nat]
      /\ \A v \in Worker : \/ cur[v] = current[v]
                           \/ v = w /\ current[w] >= writesAt /\ cur[w] = g /\ g = writesAt + 1
  BY <1>4, <1>6 DEF CurrentAfter
<1> HIDE DEF T, g, cur
<1>9. PICK new : new = [q \in Exchange |->
                          IF told.wrote /\ ex[q].by = w /\ fact[q] = "stored" /\ gen[q] = 0
                          THEN writesAt + 1 ELSE gen[q]]
  OBVIOUS
<1>10. /\ gen \in [Exchange -> Nat] /\ new \in [Exchange -> Nat]
       /\ \A q \in Exchange :
            /\ gen[q] <= writesAt
            /\ \/ new[q] = gen[q]
               \/ g = writesAt + 1 /\ gen[q] = 0 /\ new[q] = g /\ ex[q].by = w /\ fact[q] = "stored"
            /\ told.wrote /\ ex[q].by = w /\ fact[q] = "stored" => new[q] # 0
            /\ gen[q] # 0 => new[q] # 0
  BY <1>2, <1>4, <1>8, <1>9 DEF Generations
<1>11. \A q \in Exchange, m \in Nat : m <= writesAt => (new[q] \in 1..m <=> gen[q] \in 1..m)
  BY <1>4, <1>10
<1>12. Generations(new, g)
  BY <1>2, <1>4, <1>8, <1>10 DEF Generations
<1>13. Wants(ex, cur, g)
  BY <1>2, <1>4, <1>8 DEF Wants, ExchangeSet
<1>14. Shape(ex, T)
  <2>1. \A q \in told.covers : ex[q].by \in Worker /\ ex[q].stage \in {"sent", "answered", "gone"}
    <3>1. \A q \in Exchange : ex[q].stage \in PoolStages
      BY <1>4 DEF ExchangeSet
    <3> QED BY <1>2, <1>6, <3>1 DEF Shape, PoolStages
  <2> QED BY <1>2, <1>6, <1>7, <2>1 DEF Shape
<1>15. Channels(ex, channel', forgone)
  <2> SUFFICES ASSUME NEW v \in Worker, NEW i \in 1..Len(channel'[v])
               PROVE  /\ channel'[v][i].kind = "synced" =>
                           /\ channel'[v][i].covers = {} /\ ~channel'[v][i].wrote
                           /\ channel'[v][i].id \in 1..sync[v].last
                      /\ \A q \in channel'[v][i].covers :
                           /\ ex[q].by = v /\ ex[q].work = "finished"
                           /\ fact[q] \in {"none", "stored"} \/ q \in forgone
    BY DEF Channels
  <2>1. PICK j \in 1..Len(channel[v]) : channel'[v][i] = channel[v][j]
    BY <1>5
  <2> QED BY <1>2, <2>1 DEF Channels
<1>16. Tickets(ex, T, up', channel')
  <2> SUFFICES ASSUME NEW r \in Exchange, T[r] \in {"out", "finished"}, ex[r].work # "none"
               PROVE  \/ up[ex[r].by] = "dead"
                      \/ /\ up[ex[r].by] = "up"
                         /\ \/ ex[r].work = "handled"
                            \/ r \in flush[ex[r].by].next \cup flush[ex[r].by].covers
                            \/ \E i \in 1..Len(channel'[ex[r].by]) :
                                 r \in channel'[ex[r].by][i].covers
    BY <1>1 DEF Tickets
  <2>1. r \notin told.covers /\ ticket[r] = T[r] /\ ex[r].by \in Worker
    BY <1>2, <1>7 DEF Shape
  <2>2. ASSUME NEW i \in 1..Len(channel[ex[r].by]), r \in channel[ex[r].by][i].covers
        PROVE  \E j \in 1..Len(channel'[ex[r].by]) : r \in channel'[ex[r].by][j].covers
    <3>1. CASE ex[r].by # w
      BY <1>5, <2>1, <2>2, <3>1
    <3>2. CASE ex[r].by = w
      <4>1. i # 1
        BY <1>5, <2>1, <2>2, <3>2
      <4>2. i - 1 \in 1..Len(channel'[w]) /\ channel'[w][i - 1] = channel[w][i]
        BY <1>5, <2>2, <3>2, <4>1
      <4> QED BY <2>2, <3>2, <4>2
    <3> QED BY <3>1, <3>2
  <2> QED BY <1>2, <2>1, <2>2 DEF Tickets
<1>17. Announcements(new, ex, channel', forgone)
  <2> SUFFICES ASSUME NEW q \in Exchange, NEW v \in Worker, ex[q].by = v, fact[q] = "stored",
                      q \notin forgone, new[q] = 0
               PROVE  \/ \E i \in 1..Len(channel'[v]) :
                           /\ channel'[v][i].wrote
                           /\ \A j \in 1..Len(channel'[v]) : q \in channel'[v][j].covers => i <= j
                      \/ /\ flush[v].untold
                         /\ \A j \in 1..Len(channel'[v]) : q \notin channel'[v][j].covers
    BY DEF Announcements
  <2>1. gen[q] = 0
    BY <1>4, <1>8, <1>10
  <2>2. CASE flush[v].untold /\ \A j \in 1..Len(channel[v]) : q \notin channel[v][j].covers
    <3>1. ASSUME NEW j \in 1..Len(channel'[v]) PROVE q \notin channel'[v][j].covers
      <4>1. PICK k \in 1..Len(channel[v]) : channel'[v][j] = channel[v][k]
        BY <1>5
      <4> QED BY <2>2, <4>1
    <3> QED BY <2>2, <3>1
  <2>3. ASSUME NEW i \in 1..Len(channel[v]), channel[v][i].wrote,
               \A j \in 1..Len(channel[v]) : q \in channel[v][j].covers => i <= j
        PROVE  \E k \in 1..Len(channel'[v]) :
                           /\ channel'[v][k].wrote
                           /\ \A j \in 1..Len(channel'[v]) : q \in channel'[v][j].covers => k <= j
    <3>1. CASE v # w
      <4>1. channel'[v] = channel[v]
        BY <1>5, <3>1
      <4> QED BY <2>3, <4>1
    <3>2. CASE v = w
      <4>1. i # 1
        <5> SUFFICES ASSUME i = 1 PROVE FALSE
          OBVIOUS
        <5>1. told.wrote
          BY <1>5, <2>3, <3>2
        <5> QED BY <1>10, <2>1, <3>2, <5>1
      <4>2. i - 1 \in 1..Len(channel'[w]) /\ channel'[w][i - 1] = channel[w][i]
        BY <1>5, <2>3, <3>2, <4>1
      <4>3. \A j \in 1..Len(channel'[w]) : q \in channel'[w][j].covers => i - 1 <= j
        <5> SUFFICES ASSUME NEW j \in 1..Len(channel'[w]), q \in channel'[w][j].covers
                     PROVE  i - 1 <= j
          OBVIOUS
        <5>1. q \in channel[w][j + 1].covers /\ j + 1 \in 1..Len(channel[w])
          BY <1>5
        <5> QED BY <2>3, <3>2, <5>1
      <4> QED BY <2>3, <3>2, <4>2, <4>3
    <3> QED BY <3>1, <3>2
  <2> QED BY <1>2, <2>1, <2>2, <2>3 DEF Announcements
<1>18. Looked(new, ex, forgone)
  BY <1>2, <1>10 DEF Looked, OfFront
<1>19. Settled(new, ex, T, up', forgone)
  <2> SUFFICES ASSUME NEW q \in Exchange, ex[q].by \in Worker, T[q] = "clear",
                      ex[q].stage # "gone"
               PROVE  \/ ex[q].work = "none" /\ up[ex[q].by] # "up"
                      \/ q \in forgone
                      \/ ex[q].work # "none" /\ (fact[q] = "none" \/ new[q] # 0)
    BY <1>1 DEF Settled
  <2>1. CASE q \notin told.covers
    BY <1>2, <1>7, <1>10, <2>1 DEF Settled
  <2>2. CASE q \in told.covers
    <3>1. ex[q].by = w /\ ex[q].work = "finished" /\ q \in channel[w][1].covers
      BY <1>5, <1>6, <2>2
    <3>2. fact[q] = "stored" /\ q \notin forgone => new[q] # 0
      <4> SUFFICES ASSUME fact[q] = "stored", q \notin forgone, gen[q] = 0 PROVE told.wrote
        BY <1>10, <3>1
      <4>1. PICK i \in 1..Len(channel[w]) :
              /\ channel[w][i].wrote
              /\ \A j \in 1..Len(channel[w]) : q \in channel[w][j].covers => i <= j
        BY <1>2, <1>5, <3>1 DEF Announcements
      <4>2. i <= 1
        BY <1>5, <3>1, <4>1
      <4>3. i = 1
        BY <4>2
      <4> QED BY <1>5, <4>1, <4>3
    <3> QED BY <1>6, <2>2, <3>1, <3>2
  <2> QED BY <2>1, <2>2
<1>20. Knows(new, cur, forgone)
  <2> SUFFICES ASSUME NEW v \in Worker, v \notin blind, NEW q \in Exchange, new[q] \in 1..cur[v]
               PROVE  q \in holds[v] \cup forgone
    BY DEF Knows
  <2>1. current[v] \in Nat /\ current[v] <= writesAt
    BY <1>2, <1>4 DEF Wants
  <2>2. CASE new[q] = gen[q]
    <3>1. gen[q] \in 1..current[v]
      BY <1>4, <1>8, <1>10, <2>1, <2>2
    <3> QED BY <1>2, <3>1 DEF Knows
  <2>3. CASE new[q] # gen[q]
    <3>1. new[q] = writesAt + 1 /\ ex[q].by = w /\ fact[q] = "stored"
      BY <1>10, <2>3
    <3>2. v = w
      BY <1>4, <1>8, <2>1, <3>1
    <3>3. q \in holds[w]
      BY <1>2, <3>1 DEF Shape
    <3> QED BY <3>2, <3>3
  <2> QED BY <2>2, <2>3
<1>21. Rounds(new, g, channel', forgone)
  <2>1. ASSUME NEW v \in Worker, v \notin blind, NEW i \in 1..Len(channel'[v]),
               channel'[v][i].kind = "synced", channel'[v][i].id = sync[v].id,
               NEW q \in Exchange, new[q] \in 1..sync[v].wanted
        PROVE  q \in holds[v] \cup forgone
    <3>1. PICK j \in 1..Len(channel[v]) : channel'[v][i] = channel[v][j]
      BY <1>5
    <3>2. sync[v].wanted \in Nat /\ sync[v].wanted <= writesAt
      BY <1>2 DEF PoolTypes, RoundSet, Rounds
    <3>3. gen[q] \in 1..sync[v].wanted
      BY <1>11, <2>1, <3>2
    <3> QED BY <1>2, <2>1, <3>1, <3>3 DEF Rounds
  <2>2. ASSUME NEW v \in Worker PROVE sync[v].wanted <= g /\ sync[v].queued <= g
    <3>1. sync[v].wanted \in Nat /\ sync[v].queued \in Nat
      BY <1>2 DEF PoolTypes, RoundSet
    <3>2. sync[v].wanted <= writesAt /\ sync[v].queued <= writesAt
      BY <1>2 DEF Rounds
    <3>3. writesAt <= g
      BY <1>4, <1>8
    <3> QED BY <1>4, <1>8, <3>1, <3>2, <3>3
  <2> QED BY <1>2, <2>1, <2>2 DEF Rounds
<1>22. Reads(new, ex, T, forgone)
  <2>1. ASSUME NEW r \in Exchange, Gets(gen, r, ex, ticket, forgone)
        PROVE  Gets(new, r, ex, T, forgone)
    <3>1. ex[r].owed \subseteq Exchange /\ ex[r].wanted \in Nat /\ ex[r].wanted <= writesAt
      BY <1>2, <1>4 DEF Wants, ExchangeSet
    <3>2. \A q \in ex[r].owed : gen[q] \in 1..ex[r].wanted => new[q] \in 1..ex[r].wanted
      BY <1>11, <3>1
    <3>3. \A q \in ex[r].owed : T[q] = "finished" => ticket[q] = "finished"
      BY <1>7, <3>1
    <3> QED BY <2>1, <3>2, <3>3 DEF Gets
  <2> QED BY <1>2, <2>1 DEF Reads
<1>23. StepTypes
  BY <1>1, <1>2, <1>3, <1>5 DEF StepTypes, PoolTypes
<1>24. /\ Channels(ex, channel', forgone') /\ Announcements(new, ex, channel', forgone')
       /\ Rounds(new, g, channel', forgone')
  <2>1. Channels(ex, channel', forgone')
    BY <1>3, <1>15 DEF Channels
  <2>2. Announcements(new, ex, channel', forgone')
    BY <1>3, <1>17 DEF Announcements
  <2>3. Rounds(new, g, channel', forgone')
    BY <1>3, <1>21 DEF Rounds
  <2> QED BY <2>1, <2>2, <2>3
<1>25. Deaths(ex, up', forgone')
  BY <1>1, <1>2, <1>3 DEF Deaths
<1>26. Told(new, g, cur, T, ex, up', channel', forgone')
  BY <1>2, <1>3, <1>4, <1>12, <1>18, <1>19, <1>20, <1>22, <1>24, <1>25, MoreForgone DEF Told
<1>27. Flushes(ex, forgone')
  BY <1>2, <1>3, <1>4, MoreForgone
<1>28. Between(new, T, g, cur, ex)
  BY <1>2, <1>3, <1>4, <1>7, <1>8, <1>13, <1>14, <1>16, <1>24, <1>26, <1>27 DEF Between
<1>29. Released(T, g, cur, ex)
  BY <1>1 DEF T, g, cur
<1> QED BY <1>1, <1>2, <1>23, <1>28, <1>29, ReleasedKept

LEMMA GivesUpWaitingKept ==
  ASSUME NEW gen, PoolInv(gen), NEW r \in Exchange, GivesUpWaiting(r)
  PROVE  \E later : PoolInv(later)'
<1>1. ex[r].stage = "waiting" /\ losses' \in Nat
  BY InvariantParts DEF GivesUpWaiting, Loses, PoolTypes
<1>2. /\ PoolTypes /\ Shape(ex, ticket) /\ Flushes(ex, forgone)
      /\ Channels(ex, channel, forgone) /\ Tickets(ex, ticket, up, channel) /\ Syncs(ex)
      /\ Wants(ex, current, writesAt) /\ Generations(gen, writesAt)
      /\ Announcements(gen, ex, channel, forgone) /\ Looked(gen, ex, forgone)
      /\ Settled(gen, ex, ticket, up, forgone) /\ Deaths(ex, up, forgone)
      /\ Knows(gen, current, forgone) /\ Rounds(gen, writesAt, channel, forgone)
      /\ Reads(gen, ex, ticket, forgone)
  BY InvariantParts
<1> DEFINE Given(old) == [q \in Exchange |-> IF q \in old THEN "clear" ELSE ticket[q]]
           E == [ex EXCEPT ![r].below = {}, ![r].late = TRUE]
<1>3. PICK old \in SUBSET {q \in ex[r].below : ticket[q] = "finished"} :
        Released(Given(old), writesAt, current, E) /\ Unannounced(old)
  BY DEF GivesUpWaiting
<1> DEFINE T == Given(old)
<1>4. /\ ex \in [Exchange -> ExchangeSet] /\ current \in [Worker -> Nat] /\ writesAt \in Nat
      /\ ticket \in [Exchange -> TicketStates] /\ forgone \in SUBSET Exchange
  BY <1>2 DEF PoolTypes
<1>5. old \in SUBSET Exchange /\ \A q \in old : ticket[q] = "finished"
  BY <1>4 DEF ExchangeSet
<1>6. /\ forgone' \in SUBSET Exchange /\ forgone \subseteq forgone' /\ old \subseteq forgone'
      /\ localSeen = -1 /\ localSeen' # -1 => OfFront(ex) \subseteq forgone'
      /\ LocalRows = Cardinality(OfFront(ex))
  BY <1>2, <1>3, <1>5, UnannouncedMeans
<1>7. /\ T \in [Exchange -> TicketStates]
      /\ \A q \in Exchange : \/ q \in old /\ T[q] = "clear"
                             \/ q \notin old /\ T[q] = ticket[q]
  BY <1>4 DEF TicketStates
<1>8. /\ E \in [Exchange -> ExchangeSet] /\ E[r].late
      /\ \A q \in Exchange : q # r => E[q] = ex[q]
      /\ \A q \in Exchange : /\ E[q].stage = ex[q].stage /\ E[q].by = ex[q].by
                             /\ E[q].work = ex[q].work /\ E[q].owed = ex[q].owed
                             /\ E[q].missed = ex[q].missed /\ E[q].wanted = ex[q].wanted
  <2> DEFINE e == [[ex[r] EXCEPT !.below = {}] EXCEPT !.late = TRUE]
  <2>1. /\ e \in ExchangeSet /\ e.late /\ e.stage = ex[r].stage /\ e.by = ex[r].by
        /\ e.work = ex[r].work /\ e.owed = ex[r].owed /\ e.missed = ex[r].missed
        /\ e.wanted = ex[r].wanted
    <3> DEFINE d == [ex[r] EXCEPT !.below = {}]
    <3>1. ex[r] \in ExchangeSet /\ d \in ExchangeSet
      BY <1>4 DEF ExchangeSet
    <3>2. /\ d.stage = ex[r].stage /\ d.by = ex[r].by /\ d.work = ex[r].work
          /\ d.owed = ex[r].owed /\ d.missed = ex[r].missed /\ d.wanted = ex[r].wanted
      BY <3>1 DEF ExchangeSet
    <3>3. e = [d EXCEPT !.late = TRUE]
      OBVIOUS
    <3> HIDE DEF d, e
    <3>4. e \in ExchangeSet
      BY <3>1, <3>3 DEF ExchangeSet
    <3>5. /\ e.late /\ e.stage = d.stage /\ e.by = d.by /\ e.work = d.work
          /\ e.owed = d.owed /\ e.missed = d.missed /\ e.wanted = d.wanted
      BY <3>1, <3>3 DEF ExchangeSet
    <3> QED BY <3>2, <3>4, <3>5
  <2>2. E = [ex EXCEPT ![r] = e]
    BY <1>4
  <2> HIDE DEF e, E
  <2> QED BY <1>4, <2>1, <2>2
<1>9. UNCHANGED <<up, holds, fact, flush, channel, blind>>
  BY DEF GivesUpWaiting
<1>10. Released(T, writesAt, current, E)
  BY <1>3
<1> HIDE DEF T, E, Given
<1>11. Shape(E, T)
  <2>1. ASSUME NEW q \in Exchange, q # r
        PROVE  E[q] = ex[q] /\ (T[q] = ticket[q] \/ (T[q] = "clear" /\ ticket[q] = "finished"))
    BY <1>5, <1>7, <1>8, <2>1
  <2>2. T[r] = "none" /\ E[r].work = "none" /\ E[r].stage = "waiting" /\ fact[r] = "none"
        /\ E[r].missed = {}
    <3>1. ticket[r] = "none" /\ ex[r].work = "none" /\ fact[r] = "none" /\ ex[r].missed = {}
      BY <1>1, <1>2 DEF Shape
    <3> QED BY <1>1, <1>5, <1>7, <1>8, <3>1
  <2> QED BY <1>2, <2>1, <2>2 DEF Shape
<1>12. Flushes(E, forgone)
  BY <1>2, <1>8, CoversMeans DEF Flushes
<1>13. Channels(E, channel, forgone)
  <2>1. \A w \in Worker : \A i \in 1..Len(channel[w]) : channel[w][i].covers \subseteq Exchange
    BY <1>2, CoversMeans
  <2> QED BY <1>2, <1>8, <2>1 DEF Channels
<1>14. Tickets(E, T, up, channel)
  BY <1>2, <1>7, <1>8 DEF Tickets
<1>15. Syncs(E) /\ Wants(E, current, writesAt)
  BY <1>2, <1>8 DEF Syncs, Wants
<1>16. OfFront(E) = OfFront(ex)
  BY <1>8 DEF OfFront
<1>17. Announcements(gen, E, channel, forgone) /\ Deaths(E, up, forgone)
  BY <1>2, <1>8 DEF Announcements, Deaths
<1>18. Looked(gen, E, forgone)
  <2>1. {q \in Exchange : E[q].stage # "new"} = {q \in Exchange : ex[q].stage # "new"}
    BY <1>8
  <2> QED BY <1>2, <1>16, <2>1 DEF Looked
<1>19. Settled(gen, E, T, up, forgone')
  BY <1>2, <1>6, <1>7, <1>8 DEF Settled
<1>20. Reads(gen, E, T, forgone)
  <2> SUFFICES ASSUME NEW q \in Exchange
               PROVE  /\ \A p \in E[q].owed : E[p].stage = "answered"
                      /\ \/ E[q].late \/ E[q].by \in blind
                         \/ /\ E[q].missed \cap E[q].owed = {}
                            /\ E[q].work = "none" => Gets(gen, q, E, T, forgone)
    BY DEF Reads
  <2>1. ex[q].owed \subseteq Exchange /\ \A p \in ex[q].owed : ex[p].stage = "answered"
    BY <1>2, <1>4 DEF Reads, ExchangeSet
  <2>2. \A p \in ex[q].owed : /\ E[p] = ex[p]
                              /\ T[p] = "finished" => ticket[p] = "finished"
    BY <1>1, <1>7, <1>8, <2>1
  <2>3. q # r /\ Gets(gen, q, ex, ticket, forgone) => Gets(gen, q, E, T, forgone)
    BY <1>8, <2>2 DEF Gets
  <2> QED BY <1>2, <1>8, <2>1, <2>2, <2>3 DEF Reads
<1>21. StepTypes
  BY <1>1, <1>2, <1>6, <1>9 DEF StepTypes, PoolTypes
<1>22. Told(gen, writesAt, current, T, E, up', channel', forgone')
  BY <1>2, <1>6, <1>8, <1>9, <1>17, <1>18, <1>19, <1>20, MoreForgone DEF Told
<1>23. Flushes(E, forgone') /\ Channels(E, channel', forgone')
  BY <1>2, <1>6, <1>8, <1>9, <1>12, <1>13, MoreForgone
<1>24. Between(gen, T, writesAt, current, E)
  BY <1>4, <1>6, <1>7, <1>8, <1>9, <1>11, <1>14, <1>15, <1>16, <1>22, <1>23 DEF Between
<1> QED BY <1>2, <1>9, <1>10, <1>21, <1>24, ReleasedKept

Arrived(e, p, B, A, O) ==
  [[[[[e EXCEPT !.stage = "waiting"] EXCEPT !.by = p] EXCEPT !.below = B] EXCEPT !.after = A]
     EXCEPT !.owed = O]

LEMMA ArrivedMeans ==
  ASSUME NEW e \in ExchangeSet, NEW p \in Worker \cup {Front}, NEW B \in SUBSET Exchange,
         NEW A \in SUBSET Exchange, NEW O \in SUBSET Exchange,
         NEW f, f = Arrived(e, p, B, A, O)
  PROVE  /\ f \in ExchangeSet /\ f.stage = "waiting" /\ f.by = p /\ f.below = B /\ f.owed = O
         /\ f.wanted = e.wanted /\ f.late = e.late /\ f.work = e.work /\ f.missed = e.missed
<1> DEFINE a == [e EXCEPT !.stage = "waiting"]
           b == [a EXCEPT !.by = p]
           c == [b EXCEPT !.below = B]
           d == [c EXCEPT !.after = A]
<1>1. /\ a \in ExchangeSet /\ a.stage = "waiting"
      /\ a.wanted = e.wanted /\ a.late = e.late /\ a.work = e.work /\ a.missed = e.missed
  <2>1. "waiting" \in PoolStages
    BY DEF PoolStages
  <2> QED BY <2>1 DEF ExchangeSet
<1>2. f = [d EXCEPT !.owed = O]
  BY DEF Arrived
<1> HIDE DEF a
<1>3. /\ b \in ExchangeSet /\ b.by = p /\ b.stage = a.stage
      /\ b.wanted = a.wanted /\ b.late = a.late /\ b.work = a.work /\ b.missed = a.missed
  BY <1>1 DEF ExchangeSet
<1> HIDE DEF b
<1>4. /\ c \in ExchangeSet /\ c.below = B /\ c.by = b.by /\ c.stage = b.stage
      /\ c.wanted = b.wanted /\ c.late = b.late /\ c.work = b.work /\ c.missed = b.missed
  BY <1>3 DEF ExchangeSet
<1> HIDE DEF c
<1>5. /\ d \in ExchangeSet /\ d.below = c.below /\ d.by = c.by /\ d.stage = c.stage
      /\ d.wanted = c.wanted /\ d.late = c.late /\ d.work = c.work /\ d.missed = c.missed
  BY <1>4 DEF ExchangeSet
<1> HIDE DEF d
<1>6. /\ f \in ExchangeSet /\ f.owed = O /\ f.below = d.below /\ f.by = d.by
      /\ f.stage = d.stage /\ f.wanted = d.wanted /\ f.late = d.late /\ f.work = d.work
      /\ f.missed = d.missed
  BY <1>2, <1>5 DEF ExchangeSet
<1> QED BY <1>1, <1>3, <1>4, <1>5, <1>6

LEMMA ExchangeComesKept ==
  ASSUME NEW gen, PoolInv(gen), NEW r \in Exchange, NEW p \in Worker \cup {Front},
         ExchangeComes(r, p)
  PROVE  \E later : PoolInv(later)'
<1> DEFINE B == {q \in Exchange : ticket[q] \in {"out", "finished"}}
           A == {q \in Exchange : ex[q].stage = "answered"}
           O == {q \in A : By(q) # Front \/ fact[q] = "stored"}
           E == [ex EXCEPT ![r].stage = "waiting", ![r].by = p, ![r].below = B,
                           ![r].after = A, ![r].owed = O]
<1>1. /\ ex[r].stage = "new" /\ Unannounced({})
      /\ UNCHANGED <<up, holds, fact, flush, channel, blind, losses>>
      /\ Released(ticket, writesAt, current, E)
  BY DEF ExchangeComes
<1>2. /\ PoolTypes /\ Shape(ex, ticket) /\ Flushes(ex, forgone)
      /\ Channels(ex, channel, forgone) /\ Tickets(ex, ticket, up, channel) /\ Syncs(ex)
      /\ Wants(ex, current, writesAt) /\ Generations(gen, writesAt)
      /\ Announcements(gen, ex, channel, forgone) /\ Looked(gen, ex, forgone)
      /\ Settled(gen, ex, ticket, up, forgone) /\ Deaths(ex, up, forgone)
      /\ Knows(gen, current, forgone) /\ Rounds(gen, writesAt, channel, forgone)
      /\ Reads(gen, ex, ticket, forgone)
  BY InvariantParts
<1>3. /\ forgone' \in SUBSET Exchange /\ forgone \subseteq forgone'
      /\ localSeen = -1 /\ localSeen' # -1 => OfFront(ex) \subseteq forgone'
      /\ LocalRows = Cardinality(OfFront(ex))
  BY <1>1, <1>2, UnannouncedMeans
<1>4. /\ ex \in [Exchange -> ExchangeSet] /\ current \in [Worker -> Nat] /\ writesAt \in Nat
      /\ ticket \in [Exchange -> TicketStates] /\ forgone \in SUBSET Exchange
  BY <1>2 DEF PoolTypes
<1>5. B \in SUBSET Exchange /\ A \in SUBSET Exchange /\ O \in SUBSET Exchange
  OBVIOUS
<1>6. ex[r] = NewExchange /\ ex[r].wanted = 0 /\ ex[r].late = FALSE /\ ex[r].work = "none"
      /\ ex[r].missed = {} /\ ticket[r] = "none" /\ fact[r] = "none"
  <2>1. ex[r] = NewExchange /\ ticket[r] = "none"
    BY <1>1, <1>2 DEF Shape
  <2>2. /\ ex[r].wanted = 0 /\ ex[r].late = FALSE /\ ex[r].work = "none" /\ ex[r].missed = {}
    BY <2>1 DEF NewExchange
  <2> QED BY <1>2, <2>1, <2>2 DEF Shape
<1>7. /\ E \in [Exchange -> ExchangeSet]
      /\ \A q \in Exchange : q # r => E[q] = ex[q]
      /\ E[r].stage = "waiting" /\ E[r].by = p /\ E[r].below = B /\ E[r].owed = O
      /\ E[r].wanted = 0 /\ E[r].late = FALSE /\ E[r].work = "none" /\ E[r].missed = {}
  <2>1. PICK f : f = Arrived(ex[r], p, B, A, O)
    OBVIOUS
  <2>2. E = [ex EXCEPT ![r] = f]
    BY <1>4, <2>1 DEF Arrived
  <2> HIDE DEF E, B, A, O
  <2>3. /\ f \in ExchangeSet /\ f.stage = "waiting" /\ f.by = p /\ f.below = B /\ f.owed = O
        /\ f.wanted = 0 /\ f.late = FALSE /\ f.work = "none" /\ f.missed = {}
    <3>1. ex[r] \in ExchangeSet
      BY <1>4
    <3>2. /\ f \in ExchangeSet /\ f.stage = "waiting" /\ f.by = p /\ f.below = B /\ f.owed = O
          /\ f.wanted = ex[r].wanted /\ f.late = ex[r].late /\ f.work = ex[r].work
          /\ f.missed = ex[r].missed
      BY <1>5, <2>1, <3>1, ArrivedMeans
    <3> QED BY <1>6, <3>2
  <2> QED BY <1>4, <2>2, <2>3
<1> HIDE DEF E
<1>8. Shape(E, ticket)
  BY <1>2, <1>6, <1>7 DEF Shape
<1>9. Flushes(E, forgone)
  <2>1. \A w \in Worker : \A q \in flush[w].next \cup flush[w].covers : E[q] = ex[q]
    BY <1>2, <1>6, <1>7, CoversMeans DEF Flushes
  <2> QED BY <1>2, <2>1 DEF Flushes
<1>10. Channels(E, channel, forgone)
  <2>1. \A w \in Worker : \A i \in 1..Len(channel[w]) : channel[w][i].covers \subseteq Exchange
    BY <1>2, CoversMeans
  <2>2. \A w \in Worker : \A i \in 1..Len(channel[w]) : \A q \in channel[w][i].covers : E[q] = ex[q]
    BY <1>2, <1>6, <1>7, <2>1 DEF Channels
  <2> QED BY <1>2, <2>2 DEF Channels
<1>11. Tickets(E, ticket, up, channel)
  BY <1>2, <1>6, <1>7 DEF Tickets
<1>12. Syncs(E) /\ Wants(E, current, writesAt)
  BY <1>2, <1>4, <1>7 DEF Syncs, Wants
<1>13. OfFront(E) = OfFront(ex)
  BY <1>6, <1>7 DEF OfFront
<1>14. Announcements(gen, E, channel, forgone) /\ Deaths(E, up, forgone)
  BY <1>2, <1>6, <1>7 DEF Announcements, Deaths
<1>15. Looked(gen, E, forgone)
  <2>1. {q \in Exchange : E[q].stage # "new"} = {q \in Exchange : ex[q].stage # "new"} \cup {r}
    BY <1>1, <1>7
  <2>2. IsFiniteSet({q \in Exchange : ex[q].stage # "new"} \cup {r})
    BY <1>2, FS_AddElement DEF Looked
  <2> QED BY <1>2, <1>13, <2>1, <2>2 DEF Looked
<1>16. Settled(gen, E, ticket, up, forgone)
  BY <1>2, <1>6, <1>7 DEF Settled
<1>17. Reads(gen, E, ticket, forgone)
  <2> SUFFICES ASSUME NEW q \in Exchange
               PROVE  /\ \A s \in E[q].owed : E[s].stage = "answered"
                      /\ \/ E[q].late \/ E[q].by \in blind
                         \/ /\ E[q].missed \cap E[q].owed = {}
                            /\ E[q].work = "none" => Gets(gen, q, E, ticket, forgone)
    BY DEF Reads
  <2>1. CASE q # r
    <3>1. ex[q].owed \subseteq Exchange /\ \A s \in ex[q].owed : ex[s].stage = "answered"
      BY <1>2, <1>4 DEF Reads, ExchangeSet
    <3>2. E[q] = ex[q] /\ \A s \in ex[q].owed : E[s] = ex[s]
      BY <1>1, <1>7, <2>1, <3>1
    <3>3. Gets(gen, q, ex, ticket, forgone) => Gets(gen, q, E, ticket, forgone)
      BY <3>2 DEF Gets
    <3> QED BY <1>2, <3>1, <3>2, <3>3 DEF Reads
  <2>2. CASE q = r
    <3>1. \A s \in O : s \in Exchange /\ s # r /\ E[s] = ex[s] /\ ex[s].stage = "answered"
      BY <1>1, <1>7
    <3>2. ASSUME NEW s \in O
          PROVE  \/ ex[s].by = Front /\ fact[s] = "stored"
                 \/ ex[s].by \in Worker /\ (ticket[s] = "finished" => s \in B)
      <4>1. ex[s].by \in Worker \cup {Front}
        BY <1>4 DEF ExchangeSet
      <4> QED BY <4>1 DEF By
    <3>3. Gets(gen, r, E, ticket, forgone)
      BY <1>7, <3>1, <3>2 DEF Gets
    <3> QED BY <1>7, <2>2, <3>1, <3>3
  <2> QED BY <2>1, <2>2
<1>18. StepTypes
  BY <1>1, <1>2, <1>3 DEF StepTypes, PoolTypes
<1>19. Told(gen, writesAt, current, ticket, E, up', channel', forgone')
  BY <1>1, <1>2, <1>3, <1>7, <1>14, <1>15, <1>16, <1>17, MoreForgone DEF Told
<1>20. Flushes(E, forgone') /\ Channels(E, channel', forgone')
  BY <1>1, <1>2, <1>3, <1>7, <1>9, <1>10, MoreForgone
<1>21. Between(gen, ticket, writesAt, current, E)
  BY <1>1, <1>3, <1>4, <1>7, <1>8, <1>11, <1>12, <1>13, <1>19, <1>20 DEF Between
<1> QED BY <1>1, <1>2, <1>18, <1>21, ReleasedKept

-----------------------------------------------------------------------------
(* The steps of the front that release nobody.                             *)

Sent(e, b) == [e EXCEPT !.stage = "sent", !.late = b]

LEMMA SentMeans ==
  ASSUME NEW e \in ExchangeSet, NEW b \in BOOLEAN
  PROVE  /\ Sent(e, b) \in ExchangeSet /\ Sent(e, b).stage = "sent" /\ (Sent(e, b).late <=> b)
         /\ Sent(e, b).by = e.by /\ Sent(e, b).below = e.below /\ Sent(e, b).owed = e.owed
         /\ Sent(e, b).wanted = e.wanted /\ Sent(e, b).work = e.work
         /\ Sent(e, b).missed = e.missed
<1> DEFINE d == [e EXCEPT !.stage = "sent"]
           f == Sent(e, b)
<1>1. /\ d \in ExchangeSet /\ d.stage = "sent"
      /\ d.by = e.by /\ d.below = e.below /\ d.owed = e.owed
      /\ d.wanted = e.wanted /\ d.work = e.work /\ d.missed = e.missed
  <2>1. "sent" \in PoolStages
    BY DEF PoolStages
  <2> QED BY <2>1 DEF ExchangeSet
<1>2. f = [d EXCEPT !.late = b]
  BY DEF Sent
<1> HIDE DEF d, f
<1>3. f \in ExchangeSet /\ f.late = b
  BY <1>1, <1>2 DEF ExchangeSet
<1>4. /\ f.stage = d.stage /\ f.by = d.by /\ f.below = d.below /\ f.owed = d.owed
      /\ f.wanted = d.wanted /\ f.work = d.work /\ f.missed = d.missed
  BY <1>1, <1>2 DEF ExchangeSet
<1> QED BY <1>1, <1>3, <1>4 DEF f

(* Only where exchanges are changes, and whether they were given up.       *)
SameWork(E) == \A q \in Exchange :
  /\ E[q].by = ex[q].by /\ E[q].below = ex[q].below /\ E[q].owed = ex[q].owed
  /\ E[q].wanted = ex[q].wanted /\ E[q].work = ex[q].work /\ E[q].missed = ex[q].missed
  /\ E[q].stage # "new" <=> ex[q].stage # "new"

LEMMA SameWorkKept ==
  ASSUME NEW gen, PoolInv(gen), NEW E \in [Exchange -> ExchangeSet], SameWork(E)
  PROVE  /\ Flushes(E, forgone) /\ Channels(E, channel, forgone)
         /\ Wants(E, current, writesAt) /\ Announcements(gen, E, channel, forgone)
         /\ Looked(gen, E, forgone) /\ Deaths(E, up, forgone)
<1>1. /\ PoolTypes /\ Flushes(ex, forgone)
      /\ Channels(ex, channel, forgone) /\ Wants(ex, current, writesAt)
      /\ Announcements(gen, ex, channel, forgone) /\ Looked(gen, ex, forgone)
      /\ Deaths(ex, up, forgone)
  BY InvariantParts
<1>2. Flushes(E, forgone)
  BY <1>1, CoversMeans DEF Flushes, SameWork
<1>3. Channels(E, channel, forgone)
  <2>1. \A w \in Worker : \A i \in 1..Len(channel[w]) : channel[w][i].covers \subseteq Exchange
    BY <1>1, CoversMeans
  <2> QED BY <1>1, <2>1 DEF Channels, SameWork
<1>4. Looked(gen, E, forgone)
  <2>1. {q \in Exchange : E[q].stage # "new"} = {q \in Exchange : ex[q].stage # "new"}
    BY DEF SameWork
  <2>2. OfFront(E) = OfFront(ex)
    BY DEF OfFront, SameWork
  <2> QED BY <1>1, <2>1, <2>2 DEF Looked
<1> QED BY <1>1, <1>2, <1>3, <1>4 DEF Wants, Announcements, Deaths, SameWork

LEMMA GivesUpSyncingKept ==
  ASSUME NEW gen, PoolInv(gen), NEW r \in Exchange, GivesUpSyncing(r)
  PROVE  PoolInv(gen)'
<1>1. /\ ex[r].stage = "syncing" /\ losses' \in Nat
      /\ UNCHANGED <<writesAt, current, ticket, localSeen, sync, up, holds, fact, flush,
                     channel, forgone, blind>>
  BY InvariantParts DEF GivesUpSyncing, Loses, PoolTypes
<1>2. /\ PoolTypes /\ Shape(ex, ticket) /\ Flushes(ex, forgone)
      /\ Channels(ex, channel, forgone) /\ Tickets(ex, ticket, up, channel) /\ Syncs(ex)
      /\ Generations(gen, writesAt)
      /\ Settled(gen, ex, ticket, up, forgone)
      /\ Knows(gen, current, forgone) /\ Rounds(gen, writesAt, channel, forgone)
      /\ Reads(gen, ex, ticket, forgone)
  BY InvariantParts
<1>3. ex \in [Exchange -> ExchangeSet]
  BY <1>2 DEF PoolTypes
<1>4. /\ ex' \in [Exchange -> ExchangeSet] /\ SameWork(ex') /\ ex'[r].stage = "sent" /\ ex'[r].late
      /\ \A q \in Exchange : q # r => ex'[q] = ex[q]
  <2>1. ex' = [ex EXCEPT ![r] = Sent(ex[r], TRUE)]
    BY <1>3 DEF GivesUpSyncing, Sent
  <2>2. \A q \in Exchange : ex[q] \in ExchangeSet
    BY <1>3
  <2>3. /\ ex'[r] = Sent(ex[r], TRUE) /\ \A q \in Exchange : q # r => ex'[q] = ex[q]
        /\ ex' \in [Exchange -> ExchangeSet]
    BY <1>3, <2>1, <2>2, SentMeans
  <2>4. /\ ex'[r].stage = "sent" /\ ex'[r].late
        /\ ex'[r].by = ex[r].by /\ ex'[r].below = ex[r].below /\ ex'[r].owed = ex[r].owed
        /\ ex'[r].wanted = ex[r].wanted /\ ex'[r].work = ex[r].work
        /\ ex'[r].missed = ex[r].missed
    <3> DEFINE f == Sent(ex[r], TRUE)
    <3>1. /\ f.stage = "sent" /\ (f.late <=> TRUE)
          /\ f.by = ex[r].by /\ f.below = ex[r].below /\ f.owed = ex[r].owed
          /\ f.wanted = ex[r].wanted /\ f.work = ex[r].work /\ f.missed = ex[r].missed
      BY <2>2, SentMeans, Zenon
    <3>2. ex'[r] = f
      BY <2>3
    <3> HIDE DEF f
    <3> QED BY <3>1, <3>2
  <2>5. SameWork(ex')
    BY <1>1, <2>3, <2>4 DEF SameWork
  <2> QED BY <2>3, <2>4, <2>5
<1>5. /\ Flushes(ex', forgone) /\ Channels(ex', channel, forgone)
      /\ Wants(ex', current, writesAt) /\ Announcements(gen, ex', channel, forgone)
      /\ Looked(gen, ex', forgone) /\ Deaths(ex', up, forgone)
  BY <1>4, SameWorkKept
<1>6. Shape(ex', ticket)
  BY <1>1, <1>2, <1>4 DEF Shape, SameWork
<1>7. Tickets(ex', ticket, up, channel) /\ Syncs(ex')
  BY <1>2, <1>4 DEF Tickets, Syncs, SameWork
<1>8. Settled(gen, ex', ticket, up, forgone)
  BY <1>1, <1>2, <1>4 DEF Settled, SameWork
<1>9. Reads(gen, ex', ticket, forgone)
  <2> SUFFICES ASSUME NEW q \in Exchange
               PROVE  /\ \A s \in ex'[q].owed : ex'[s].stage = "answered"
                      /\ \/ ex'[q].late \/ ex'[q].by \in blind
                         \/ /\ ex'[q].missed \cap ex'[q].owed = {}
                            /\ ex'[q].work = "none" => Gets(gen, q, ex', ticket, forgone)
    BY DEF Reads
  <2>1. ex[q].owed \subseteq Exchange /\ \A s \in ex[q].owed : ex[s].stage = "answered"
    BY <1>2, <1>3 DEF Reads, ExchangeSet
  <2>2. \A s \in ex[q].owed : ex'[s] = ex[s]
    BY <1>1, <1>4, <2>1
  <2>3. q # r /\ Gets(gen, q, ex, ticket, forgone) => Gets(gen, q, ex', ticket, forgone)
    BY <1>4, <2>2 DEF Gets
  <2> QED BY <1>2, <1>4, <2>1, <2>2, <2>3 DEF Reads, SameWork
<1>10. PoolTypes'
  BY <1>1, <1>2, <1>4 DEF PoolTypes
<1>11. /\ Shape(ex, ticket)' /\ Flushes(ex, forgone)' /\ Channels(ex, channel, forgone)'
       /\ Tickets(ex, ticket, up, channel)' /\ Syncs(ex)'
  BY <1>1, <1>5, <1>6, <1>7 DEF Shape, Flushes, Channels, Tickets, Syncs
<1>12. /\ Wants(ex, current, writesAt)' /\ Generations(gen, writesAt)'
       /\ Announcements(gen, ex, channel, forgone)' /\ Looked(gen, ex, forgone)'
       /\ Settled(gen, ex, ticket, up, forgone)' /\ Deaths(ex, up, forgone)'
  BY <1>1, <1>2, <1>5, <1>8
     DEF Wants, Generations, Announcements, Looked, OfFront, Settled, Deaths
<1>13. /\ Knows(gen, current, forgone)' /\ Rounds(gen, writesAt, channel, forgone)'
       /\ Reads(gen, ex, ticket, forgone)'
  BY <1>1, <1>2, <1>9 DEF Knows, Rounds, Reads, Gets, Safe
<1> QED BY <1>10, <1>11, <1>12, <1>13 DEF PoolInv, Told

LEMMA AnswerEndsKept ==
  ASSUME NEW gen, PoolInv(gen), NEW r \in Exchange, AnswerEnds(r)
  PROVE  PoolInv(gen)'
<1>1. /\ ex[r].stage = "sent" /\ ex[r].work # "none" /\ losses' \in Nat
      /\ ticket' = [ticket EXCEPT ![r] = IF ticket[r] = "out" THEN "finished" ELSE ticket[r]]
      /\ UNCHANGED <<writesAt, current, localSeen, sync, up, holds, fact, flush, channel,
                     forgone, blind>>
  BY InvariantParts DEF AnswerEnds, Loses, PoolTypes
<1>2. /\ PoolTypes /\ Shape(ex, ticket) /\ Flushes(ex, forgone)
      /\ Channels(ex, channel, forgone) /\ Tickets(ex, ticket, up, channel) /\ Syncs(ex)
      /\ Generations(gen, writesAt)
      /\ Settled(gen, ex, ticket, up, forgone)
      /\ Knows(gen, current, forgone) /\ Rounds(gen, writesAt, channel, forgone)
      /\ Reads(gen, ex, ticket, forgone) /\ Deaths(ex, up, forgone)
  BY InvariantParts
<1>3. /\ ex \in [Exchange -> ExchangeSet] /\ ticket \in [Exchange -> TicketStates]
      /\ up \in [Worker -> {"up", "dead", "reaped"}]
  BY <1>2 DEF PoolTypes
<1>4. /\ ex' \in [Exchange -> ExchangeSet] /\ ex'[r].stage \in {"answered", "gone"}
      /\ ex'[r].late = ex[r].late /\ SameWork(ex')
      /\ \A q \in Exchange : q # r => ex'[q] = ex[q]
  <2>1. PICK stage \in {"answered", "gone"} : ex' = [ex EXCEPT ![r].stage = stage]
    BY DEF AnswerEnds
  <2>2. stage \in PoolStages
    BY DEF PoolStages
  <2>3. ex' \in [Exchange -> ExchangeSet] /\ \A q \in Exchange : q # r => ex'[q] = ex[q]
    <3>1. ex[r] \in ExchangeSet
      BY <1>3
    <3>2. [ex[r] EXCEPT !.stage = stage] \in ExchangeSet
      BY <2>2, <3>1 DEF ExchangeSet
    <3>3. ex' = [ex EXCEPT ![r] = [ex[r] EXCEPT !.stage = stage]]
      BY <2>1
    <3> HIDE DEF ExchangeSet
    <3> QED BY <1>3, <3>2, <3>3
  <2>4. /\ ex'[r].stage = stage /\ ex'[r].late = ex[r].late
        /\ ex'[r].by = ex[r].by /\ ex'[r].below = ex[r].below /\ ex'[r].owed = ex[r].owed
    BY <1>3, <2>1 DEF ExchangeSet
  <2>5. /\ ex'[r].wanted = ex[r].wanted /\ ex'[r].work = ex[r].work
        /\ ex'[r].missed = ex[r].missed
    BY <1>3, <2>1 DEF ExchangeSet
  <2>6. SameWork(ex')
    BY <1>1, <2>3, <2>4, <2>5 DEF SameWork
  <2> QED BY <2>3, <2>4, <2>6
<1>5. /\ Flushes(ex', forgone) /\ Channels(ex', channel, forgone)
      /\ Wants(ex', current, writesAt) /\ Announcements(gen, ex', channel, forgone)
      /\ Looked(gen, ex', forgone) /\ Deaths(ex', up, forgone)
  BY <1>4, SameWorkKept
<1>6. /\ ticket' \in [Exchange -> TicketStates] /\ ticket'[r] \in {"finished", "clear"}
      /\ ticket'[r] = "clear" => ticket[r] = "clear"
      /\ ticket[r] \in {"out", "clear"} /\ ex[r].by \in Worker
      /\ \A q \in Exchange : q # r => ticket'[q] = ticket[q]
  <2>1. ticket[r] \in {"out", "clear"} /\ ex[r].by \in Worker
    BY <1>1, <1>2 DEF Shape
  <2> QED BY <1>1, <1>3, <2>1 DEF TicketStates
<1>7. Shape(ex', ticket')
  <2>1. /\ ex'[r].stage \in {"answered", "gone"} /\ ticket'[r] \in {"finished", "clear"}
        /\ ex'[r].by \in Worker /\ ex'[r].work # "none" /\ r \in holds[ex'[r].by]
    BY <1>1, <1>2, <1>4, <1>6 DEF Shape, SameWork
  <2>2. \A q \in Exchange : q # r => ex'[q] = ex[q] /\ ticket'[q] = ticket[q]
    BY <1>4, <1>6
  <2> QED BY <1>2, <2>1, <2>2 DEF Shape
<1>8. Tickets(ex', ticket', up, channel)
  <2>1. Tickets(ex', ticket, up, channel)
    BY <1>2, <1>4 DEF Tickets, SameWork
  <2>2. ticket[r] = "out" \/ ticket'[r] = "clear"
    BY <1>1, <1>3, <1>6
  <2>3. \A q \in Exchange : ticket'[q] \in {"out", "finished"} => ticket[q] \in {"out", "finished"}
    BY <1>6, <2>2
  <2> QED BY <2>1, <2>3 DEF Tickets
<1>9. Syncs(ex')
  BY <1>2, <1>4 DEF Syncs, SameWork
<1>10. Settled(gen, ex', ticket', up, forgone)
  BY <1>1, <1>2, <1>4, <1>6 DEF Settled, SameWork
<1>11. Reads(gen, ex', ticket', forgone)
  <2> SUFFICES ASSUME NEW q \in Exchange
               PROVE  /\ \A s \in ex'[q].owed : ex'[s].stage = "answered"
                      /\ \/ ex'[q].late \/ ex'[q].by \in blind
                         \/ /\ ex'[q].missed \cap ex'[q].owed = {}
                            /\ ex'[q].work = "none" => Gets(gen, q, ex', ticket', forgone)
    BY DEF Reads
  <2>1. ex[q].owed \subseteq Exchange /\ \A s \in ex[q].owed : ex[s].stage = "answered"
    BY <1>2, <1>3 DEF Reads, ExchangeSet
  <2>2. \A s \in ex[q].owed : ex'[s] = ex[s] /\ ticket'[s] = ticket[s]
    BY <1>1, <1>4, <1>6, <2>1
  <2>3. q # r /\ Gets(gen, q, ex, ticket, forgone) => Gets(gen, q, ex', ticket', forgone)
    BY <1>4, <2>2 DEF Gets
  <2>4. /\ ex'[q].late = ex[q].late /\ ex'[q].by = ex[q].by /\ ex'[q].missed = ex[q].missed
        /\ ex'[q].owed = ex[q].owed /\ ex'[q].work = ex[q].work
    BY <1>4 DEF SameWork
  <2>5. q = r => ex'[q].work # "none"
    BY <1>1, <2>4
  <2> QED BY <1>2, <2>1, <2>2, <2>3, <2>4, <2>5 DEF Reads
<1>12. PoolTypes'
  BY <1>1, <1>2, <1>4, <1>6 DEF PoolTypes
<1>13. /\ Shape(ex, ticket)' /\ Flushes(ex, forgone)' /\ Channels(ex, channel, forgone)'
       /\ Tickets(ex, ticket, up, channel)' /\ Syncs(ex)'
  BY <1>1, <1>5, <1>7, <1>8, <1>9 DEF Shape, Flushes, Channels, Tickets, Syncs
<1>14. /\ Wants(ex, current, writesAt)' /\ Generations(gen, writesAt)'
       /\ Announcements(gen, ex, channel, forgone)' /\ Looked(gen, ex, forgone)'
       /\ Settled(gen, ex, ticket, up, forgone)' /\ Deaths(ex, up, forgone)'
  BY <1>1, <1>2, <1>5, <1>10
     DEF Wants, Generations, Announcements, Looked, OfFront, Settled, Deaths
<1>15. /\ Knows(gen, current, forgone)' /\ Rounds(gen, writesAt, channel, forgone)'
       /\ Reads(gen, ex, ticket, forgone)'
  BY <1>1, <1>2, <1>11 DEF Knows, Rounds, Reads, Gets, Safe
<1> QED BY <1>12, <1>13, <1>14, <1>15 DEF PoolInv, Told

Over(s) == [s EXCEPT !.id = 0, !.wanted = 0, !.queued = 0]

LEMMA OverMeans ==
  ASSUME NEW s \in RoundSet, RoundOK(s)
  PROVE  /\ Over(s) \in RoundSet /\ RoundOK(Over(s))
         /\ Over(s).id = 0 /\ Over(s).wanted = 0 /\ Over(s).queued = 0
         /\ Over(s).last = s.last /\ Over(s).asked = s.asked
<1> DEFINE a == [s EXCEPT !.id = 0]
           b == [a EXCEPT !.wanted = 0]
           c == Over(s)
<1>1. a \in RoundSet /\ a.id = 0 /\ a.last = s.last /\ a.asked = s.asked
  BY DEF RoundSet
<1>2. c = [b EXCEPT !.queued = 0]
  BY DEF Over
<1> HIDE DEF a
<1>3. b \in RoundSet /\ b.id = a.id /\ b.wanted = 0 /\ b.last = a.last /\ b.asked = a.asked
  BY <1>1 DEF RoundSet
<1> HIDE DEF b, c
<1>4. /\ c \in RoundSet /\ c.id = b.id /\ c.wanted = b.wanted /\ c.queued = 0
      /\ c.last = b.last /\ c.asked = b.asked
  BY <1>2, <1>3 DEF RoundSet
<1>5. s.last \in Nat /\ s.asked \subseteq 1..s.last
  BY DEF RoundSet, RoundOK
<1>6. c.id = 0 /\ c.wanted = 0 /\ c.queued = 0 /\ c.last = s.last /\ c.asked = s.asked
  BY <1>1, <1>3, <1>4
<1>7. RoundOK(c)
  BY <1>5, <1>6 DEF RoundOK
<1> QED BY <1>4, <1>6, <1>7 DEF c

LEMMA SettlesMeans ==
  ASSUME NEW gen, PoolInv(gen), NEW w \in Worker, NEW ok \in BOOLEAN, Settles(w, ok)
  PROVE  /\ current' \in [Worker -> Nat] /\ sync' \in [Worker -> RoundSet]
         /\ ex' \in [Exchange -> ExchangeSet] /\ SameWork(ex')
         /\ \A v \in Worker : v # w => current'[v] = current[v] /\ sync'[v] = sync[v]
         /\ current'[w] >= current[w] /\ (ok => current'[w] >= sync[w].wanted)
         /\ current'[w] = current[w] \/ (ok /\ current'[w] = sync[w].wanted)
         /\ RoundOK(sync'[w]) /\ sync'[w].last >= sync[w].last
         /\ \/ sync'[w].id = sync[w].last + 1 /\ sync'[w].wanted = sync[w].queued
            \/ sync'[w].id = 0 /\ sync'[w].wanted = 0 /\ sync[w].queued <= current'[w]
         /\ sync'[w].queued = 0
         /\ \A r \in Exchange :
              \/ ex'[r] = ex[r] /\ ~(ex[r].stage = "syncing" /\ ex[r].by = w)
              \/ /\ ex'[r] = ex[r] /\ sync'[w].id # 0 /\ ~(ex[r].wanted <= sync[w].wanted)
                 /\ ex[r].stage = "syncing" /\ ex[r].by = w
              \/ /\ ex[r].stage = "syncing" /\ ex[r].by = w /\ ex'[r].stage = "sent"
                 /\ ex'[r].late <=> (ex[r].late \/ ~ok)
                 /\ ex[r].wanted <= sync[w].wanted \/ sync[w].queued <= current'[w]
<1> DEFINE s == sync[w]
           cur == IF ok THEN Max({current[w], s.wanted}) ELSE current[w]
           next == s.queued > cur
           on == {r \in Exchange : ex[r].stage = "syncing" /\ By(r) = w
                                   /\ (next => ex[r].wanted <= s.wanted)}
<1>1. /\ current' = [current EXCEPT ![w] = cur]
      /\ sync' = [sync EXCEPT ![w] = IF next THEN NewRound(s, s.queued) ELSE Over(s)]
      /\ ex' = [r \in Exchange |->
                  IF r \in on THEN Sent(ex[r], ex[r].late \/ ~ok) ELSE ex[r]]
  BY DEF Settles, Over, Sent
<1>2. /\ current \in [Worker -> Nat] /\ sync \in [Worker -> RoundSet]
      /\ ex \in [Exchange -> ExchangeSet] /\ RoundOK(s)
  BY InvariantParts DEF PoolTypes, Rounds, RoundOK
<1>3. s \in RoundSet /\ s.wanted \in Nat /\ s.queued \in Nat /\ s.last \in Nat /\ current[w] \in Nat
  BY <1>2 DEF RoundSet
<1>4. /\ cur \in Nat /\ cur >= current[w] /\ (ok => cur >= s.wanted)
      /\ cur = current[w] \/ (ok /\ cur = s.wanted)
  BY <1>3, MaxOfTwo
<1> HIDE DEF cur
<1>5. /\ current' \in [Worker -> Nat] /\ current'[w] = cur
      /\ \A v \in Worker : v # w => current'[v] = current[v]
  BY <1>1, <1>2, <1>4
<1>6. next => s.queued > 0
  BY <1>3, <1>4
<1>7. /\ next <=> s.queued > cur
      /\ \A r \in Exchange : r \in on <=> /\ ex[r].stage = "syncing" /\ ex[r].by = w
                                          /\ next => ex[r].wanted <= s.wanted
  BY DEF By
<1> HIDE DEF next, on
<1>8. /\ NewRound(s, s.queued) \in RoundSet /\ RoundOK(NewRound(s, s.queued))
      /\ NewRound(s, s.queued).id = s.last + 1 /\ NewRound(s, s.queued).last = s.last + 1
      /\ NewRound(s, s.queued).wanted = s.queued /\ NewRound(s, s.queued).queued = 0
  BY <1>2, <1>3, NewRoundMeans
<1>9. /\ Over(s) \in RoundSet /\ RoundOK(Over(s)) /\ Over(s).id = 0 /\ Over(s).wanted = 0
      /\ Over(s).queued = 0 /\ Over(s).last = s.last
  BY <1>2, <1>3, OverMeans
<1> HIDE DEF s
<1>10. /\ sync' \in [Worker -> RoundSet]
       /\ sync'[w] = IF next THEN NewRound(s, s.queued) ELSE Over(s)
       /\ \A v \in Worker : v # w => sync'[v] = sync[v]
  BY <1>1, <1>2, <1>8, <1>9
<1>11. /\ RoundOK(sync'[w]) /\ sync'[w].last >= s.last /\ sync'[w].queued = 0
       /\ next => sync'[w].id = s.last + 1 /\ sync'[w].wanted = s.queued
       /\ ~next => sync'[w].id = 0 /\ sync'[w].wanted = 0 /\ s.queued <= cur
  <2>1. CASE next
    <3>1. sync'[w] = NewRound(s, s.queued)
      BY <1>10, <2>1
    <3> QED BY <1>3, <1>8, <2>1, <3>1
  <2>2. CASE ~next
    <3>1. sync'[w] = Over(s)
      BY <1>10, <2>2
    <3> QED BY <1>3, <1>4, <1>7, <1>9, <2>2, <3>1
  <2> QED BY <2>1, <2>2
<1>12. ASSUME NEW r \in Exchange
       PROVE  /\ ex'[r] \in ExchangeSet
              /\ r \notin on => ex'[r] = ex[r]
              /\ r \in on => ex'[r].stage = "sent" /\ (ex'[r].late <=> (ex[r].late \/ ~ok))
              /\ ex'[r].by = ex[r].by /\ ex'[r].below = ex[r].below
              /\ ex'[r].owed = ex[r].owed /\ ex'[r].wanted = ex[r].wanted
              /\ ex'[r].work = ex[r].work /\ ex'[r].missed = ex[r].missed
  <2>1. ex[r] \in ExchangeSet /\ (ex[r].late \/ ~ok) \in BOOLEAN
    BY <1>2 DEF ExchangeSet
  <2>2. PICK b \in BOOLEAN : b <=> (ex[r].late \/ ~ok)
    BY <2>1
  <2>3. b = (ex[r].late \/ ~ok)
    BY <2>1, <2>2
  <2> DEFINE f == Sent(ex[r], b)
  <2>4. /\ f \in ExchangeSet /\ f.stage = "sent" /\ (f.late <=> b)
        /\ f.by = ex[r].by /\ f.below = ex[r].below /\ f.owed = ex[r].owed
        /\ f.wanted = ex[r].wanted /\ f.work = ex[r].work /\ f.missed = ex[r].missed
    BY <2>1, SentMeans, Zenon
  <2>5. ex'[r] = IF r \in on THEN f ELSE ex[r]
    BY <1>1, <2>3
  <2> HIDE DEF f
  <2> QED BY <2>1, <2>2, <2>4, <2>5
<1>13. ex' \in [Exchange -> ExchangeSet]
  BY <1>1, <1>12
<1>14. SameWork(ex')
  <2>1. \A r \in Exchange : r \in on => ex'[r].stage = "sent" /\ ex[r].stage = "syncing"
    BY <1>7, <1>12
  <2>2. \A r \in Exchange : ex'[r].stage # "new" <=> ex[r].stage # "new"
    BY <1>12, <2>1
  <2> QED BY <1>12, <2>2 DEF SameWork
<1>15. \A r \in Exchange :
              \/ ex'[r] = ex[r] /\ ~(ex[r].stage = "syncing" /\ ex[r].by = w)
              \/ /\ ex'[r] = ex[r] /\ next /\ ~(ex[r].wanted <= s.wanted)
                 /\ ex[r].stage = "syncing" /\ ex[r].by = w
              \/ /\ ex[r].stage = "syncing" /\ ex[r].by = w /\ ex'[r].stage = "sent"
                 /\ ex'[r].late <=> (ex[r].late \/ ~ok)
                 /\ ex[r].wanted <= s.wanted \/ ~next
  BY <1>7, <1>12
<1>16. (next => sync'[w].id # 0) /\ (~next => s.queued <= current'[w])
  BY <1>3, <1>5, <1>11
<1> QED BY <1>4, <1>5, <1>10, <1>11, <1>13, <1>14, <1>15, <1>16 DEF s

(* How a round settles keeps the invariant, if a worker that answered it   *)
(* and was not blind has what it was asked for.                            *)
LEMMA SettlesKept ==
  ASSUME NEW gen, PoolInv(gen), NEW w \in Worker, NEW ok \in BOOLEAN, Settles(w, ok),
         sync[w].id # 0,
         ok /\ w \notin blind =>
           \A q \in Exchange : gen[q] \in 1..sync[w].wanted => q \in holds[w] \cup forgone
  PROVE  /\ current' \in [Worker -> Nat] /\ sync' \in [Worker -> RoundSet]
         /\ ex' \in [Exchange -> ExchangeSet] /\ SameWork(ex')
         /\ \A v \in Worker : sync'[v].last >= sync[v].last
         /\ Shape(ex', ticket) /\ Tickets(ex', ticket, up, channel)
         /\ Wants(ex', current', writesAt)
         /\ Syncs(ex)' /\ Settled(gen, ex', ticket, up, forgone) /\ Knows(gen, current', forgone)
         /\ Reads(gen, ex', ticket, forgone)
         /\ \A v \in Worker : /\ RoundOK(sync'[v])
                              /\ sync'[v].wanted <= writesAt /\ sync'[v].queued <= writesAt
                              /\ \/ sync'[v] = sync[v]
                                 \/ sync'[v].id \notin 1..sync[v].last
<1>1. /\ PoolTypes /\ Shape(ex, ticket) /\ Tickets(ex, ticket, up, channel) /\ Syncs(ex)
      /\ Wants(ex, current, writesAt) /\ Generations(gen, writesAt)
      /\ Settled(gen, ex, ticket, up, forgone)
      /\ Knows(gen, current, forgone) /\ Rounds(gen, writesAt, channel, forgone)
      /\ Reads(gen, ex, ticket, forgone)
  BY InvariantParts
<1>2. /\ ex \in [Exchange -> ExchangeSet] /\ sync \in [Worker -> RoundSet]
      /\ current \in [Worker -> Nat] /\ writesAt \in Nat /\ gen \in [Exchange -> Nat]
  BY <1>1 DEF PoolTypes, Generations
<1>3. /\ sync[w].wanted \in Nat /\ sync[w].queued \in Nat /\ sync[w].last \in Nat
      /\ sync[w].wanted <= writesAt /\ sync[w].queued <= writesAt /\ sync[w].id <= sync[w].last
      /\ \A v \in Worker : RoundOK(sync[v]) /\ sync[v].wanted <= writesAt
                           /\ sync[v].queued <= writesAt /\ sync[v].last \in Nat
  BY <1>1, <1>2 DEF RoundSet, Rounds, RoundOK
<1>4. /\ current' \in [Worker -> Nat] /\ sync' \in [Worker -> RoundSet]
      /\ ex' \in [Exchange -> ExchangeSet] /\ SameWork(ex')
      /\ \A v \in Worker : v # w => current'[v] = current[v] /\ sync'[v] = sync[v]
      /\ current'[w] >= current[w] /\ (ok => current'[w] >= sync[w].wanted)
      /\ current'[w] = current[w] \/ (ok /\ current'[w] = sync[w].wanted)
      /\ RoundOK(sync'[w]) /\ sync'[w].last >= sync[w].last
      /\ \/ sync'[w].id = sync[w].last + 1 /\ sync'[w].wanted = sync[w].queued
         \/ sync'[w].id = 0 /\ sync'[w].wanted = 0 /\ sync[w].queued <= current'[w]
      /\ sync'[w].queued = 0
  BY SettlesMeans
<1>5. \A r \in Exchange :
         \/ ex'[r] = ex[r] /\ ~(ex[r].stage = "syncing" /\ ex[r].by = w)
         \/ /\ ex'[r] = ex[r] /\ sync'[w].id # 0 /\ ~(ex[r].wanted <= sync[w].wanted)
            /\ ex[r].stage = "syncing" /\ ex[r].by = w
         \/ /\ ex[r].stage = "syncing" /\ ex[r].by = w /\ ex'[r].stage = "sent"
            /\ ex'[r].late <=> (ex[r].late \/ ~ok)
            /\ ex[r].wanted <= sync[w].wanted \/ sync[w].queued <= current'[w]
  BY SettlesMeans
<1>6. \A q \in Exchange : /\ ex'[q].by = ex[q].by /\ ex'[q].work = ex[q].work
                          /\ ex'[q].owed = ex[q].owed /\ ex'[q].missed = ex[q].missed
                          /\ ex'[q].below = ex[q].below /\ ex'[q].wanted = ex[q].wanted
                          /\ ex'[q].wanted \in Nat
  BY <1>4 DEF SameWork, ExchangeSet
<1>7. \A q \in Exchange : ex'[q] = ex[q] \/ (ex[q].stage = "syncing" /\ ex'[q].stage = "sent")
  BY <1>5
<1>8. Shape(ex', ticket)
  <2>1. ASSUME NEW q \in Exchange, ex[q].stage = "syncing", ex'[q].stage = "sent"
        PROVE  /\ ticket[q] \in {"out", "clear"} /\ ex'[q].work = "none" /\ ex'[q].by \in Worker
               /\ fact[q] = "none" /\ ex'[q].missed = {}
    BY <1>1, <1>6, <2>1 DEF Shape
  <2> QED BY <1>1, <1>7, <2>1 DEF Shape
<1>9. Tickets(ex', ticket, up, channel)
  BY <1>1, <1>6 DEF Tickets
<1>10. Wants(ex', current', writesAt)
  BY <1>1, <1>2, <1>3, <1>4, <1>6 DEF Wants
<1>11. Syncs(ex)'
  <2> SUFFICES ASSUME NEW r \in Exchange, ex'[r].stage = "syncing"
               PROVE  /\ sync'[ex[r].by].id # 0
                      /\ \/ ex[r].wanted <= sync'[ex[r].by].wanted
                         \/ ex[r].wanted <= sync'[ex[r].by].queued
    BY <1>6 DEF Syncs
  <2>1. ex[r].stage = "syncing" /\ ex[r].by \in Worker /\ ex'[r] = ex[r]
    BY <1>1, <1>5 DEF Shape
  <2>2. /\ sync[ex[r].by].id # 0
        /\ ex[r].wanted <= sync[ex[r].by].wanted \/ ex[r].wanted <= sync[ex[r].by].queued
    BY <1>1, <2>1 DEF Syncs
  <2>3. CASE ex[r].by # w
    BY <1>4, <2>1, <2>2, <2>3
  <2>4. CASE ex[r].by = w
    <3>1. sync'[w].id # 0 /\ ~(ex[r].wanted <= sync[w].wanted)
      BY <1>5, <2>1, <2>4
    <3> QED BY <1>4, <2>2, <2>4, <3>1
  <2> QED BY <2>3, <2>4
<1>12. Settled(gen, ex', ticket, up, forgone)
  BY <1>1, <1>6, <1>7 DEF Settled
<1>13. Knows(gen, current', forgone)
  <2> SUFFICES ASSUME NEW v \in Worker, v \notin blind, NEW q \in Exchange,
                      gen[q] \in 1..current'[v]
               PROVE  q \in holds[v] \cup forgone
    BY DEF Knows
  <2>1. CASE current'[v] = current[v]
    BY <1>1, <2>1 DEF Knows
  <2>2. CASE current'[v] # current[v]
    BY <1>4, <2>2
  <2> QED BY <2>1, <2>2
<1>14. Reads(gen, ex', ticket, forgone)
  <2> SUFFICES ASSUME NEW q \in Exchange
               PROVE  /\ \A p \in ex'[q].owed : ex'[p].stage = "answered"
                      /\ \/ ex'[q].late \/ ex'[q].by \in blind
                         \/ /\ ex'[q].missed \cap ex'[q].owed = {}
                            /\ ex'[q].work = "none" => Gets(gen, q, ex', ticket, forgone)
    BY DEF Reads
  <2>1. ex[q].owed \subseteq Exchange /\ \A p \in ex[q].owed : ex[p].stage = "answered"
    BY <1>1, <1>2 DEF Reads, ExchangeSet
  <2>2. \A p \in ex[q].owed : ex'[p] = ex[p]
    BY <1>7, <2>1
  <2>3. CASE ex'[q] = ex[q]
    <3>1. Gets(gen, q, ex, ticket, forgone) => Gets(gen, q, ex', ticket, forgone)
      BY <2>2, <2>3 DEF Gets
    <3> QED BY <1>1, <2>1, <2>2, <2>3, <3>1 DEF Reads
  <2>4. CASE ex'[q] # ex[q]
    <3>1. /\ ex[q].stage = "syncing" /\ ex[q].by = w /\ ex'[q].stage = "sent"
          /\ ex'[q].late <=> (ex[q].late \/ ~ok)
          /\ ex[q].wanted <= sync[w].wanted \/ sync[w].queued <= current'[w]
      BY <1>5, <2>4
    <3> SUFFICES ASSUME ~ex'[q].late, w \notin blind
                 PROVE  /\ ex'[q].missed \cap ex'[q].owed = {}
                        /\ Gets(gen, q, ex', ticket, forgone)
      BY <1>6, <2>1, <2>2, <3>1
    <3>2. /\ ~ex[q].late /\ ok /\ ex[q].missed \cap ex[q].owed = {}
          /\ ex[q].work = "none" => Gets(gen, q, ex, ticket, forgone)
      BY <1>1, <3>1 DEF Reads
    <3>3. ex[q].work = "none"
      BY <1>1, <3>1 DEF Shape
    <3>4. ex[q].wanted <= sync[w].wanted \/ ex[q].wanted <= sync[w].queued
      BY <1>1, <3>1 DEF Syncs
    <3>5. ex[q].wanted <= sync[w].wanted \/ ex[q].wanted <= current'[w]
      <4>1. current'[w] \in Nat /\ ex[q].wanted \in Nat
        BY <1>4, <1>6
      <4> QED BY <1>3, <3>1, <3>4, <4>1
    <3>6. ASSUME NEW p \in ex[q].owed PROVE Safe(p, w, forgone)
      <4>1. Safe(p, w, forgone) \/ gen[p] \in 1..ex[q].wanted
        BY <3>1, <3>2, <3>3 DEF Gets
      <4>2. gen[p] \in 1..ex[q].wanted => gen[p] \in 1..sync[w].wanted \/ gen[p] \in 1..current'[w]
        BY <1>2, <1>3, <1>4, <1>6, <2>1, <3>5
      <4>3. gen[p] \in 1..sync[w].wanted => p \in holds[w] \cup forgone
        BY <2>1, <3>2
      <4>4. gen[p] \in 1..current'[w] => p \in holds[w] \cup forgone
        BY <1>13, <2>1 DEF Knows
      <4> QED BY <4>1, <4>2, <4>3, <4>4 DEF Safe
    <3> QED BY <1>6, <3>1, <3>2, <3>6 DEF Gets
  <2> QED BY <2>3, <2>4
<1>15. ASSUME NEW v \in Worker
       PROVE  /\ RoundOK(sync'[v]) /\ sync'[v].last >= sync[v].last
              /\ sync'[v].wanted <= writesAt /\ sync'[v].queued <= writesAt
              /\ sync'[v] = sync[v] \/ sync'[v].id \notin 1..sync[v].last
  <2>1. CASE v # w
    BY <1>3, <1>4, <2>1
  <2>2. CASE v = w
    BY <1>2, <1>3, <1>4, <2>2
  <2> QED BY <2>1, <2>2
<1> QED BY <1>4, <1>8, <1>9, <1>10, <1>11, <1>12, <1>13, <1>14, <1>15

(* What is left in the channels of what was.                               *)
Left(gen) ==
  /\ channel' \in [Worker -> Seq(MessageSet)] /\ Channels(ex, channel', forgone)
  /\ Tickets(ex, ticket, up, channel') /\ Announcements(gen, ex, channel', forgone)
  /\ \A v \in Worker : \A i \in 1..Len(channel'[v]) :
       \E j \in 1..Len(channel[v]) : channel'[v][i] = channel[v][j]

LEMMA LeftAlone ==
  ASSUME NEW gen, PoolInv(gen), UNCHANGED channel
  PROVE  Left(gen)
<1>1. /\ PoolTypes /\ Channels(ex, channel, forgone) /\ Tickets(ex, ticket, up, channel)
      /\ Announcements(gen, ex, channel, forgone)
  BY InvariantParts
<1>2. Channels(ex, channel', forgone) /\ Tickets(ex, ticket, up, channel')
      /\ Announcements(gen, ex, channel', forgone)
  BY <1>1
<1>3. channel' \in [Worker -> Seq(MessageSet)]
  BY <1>1 DEF PoolTypes
<1> QED BY <1>2, <1>3 DEF Left

LEMMA SyncedTaken ==
  ASSUME NEW gen, PoolInv(gen), NEW w \in Worker, channel[w] # <<>>,
         Head(channel[w]).kind = "synced",
         channel' = [channel EXCEPT ![w] = Tail(channel[w])]
  PROVE  Left(gen)
<1>1. /\ PoolTypes /\ Channels(ex, channel, forgone) /\ Tickets(ex, ticket, up, channel)
      /\ Announcements(gen, ex, channel, forgone) /\ Shape(ex, ticket)
  BY InvariantParts
<1>2. /\ channel' \in [Worker -> Seq(MessageSet)]
      /\ \A v \in Worker : v # w => channel'[v] = channel[v]
      /\ Len(channel[w]) \in Nat /\ Len(channel[w]) > 0
      /\ Len(channel'[w]) = Len(channel[w]) - 1
      /\ Head(channel[w]) = channel[w][1]
      /\ \A i \in 1..Len(channel'[w]) : /\ channel'[w][i] = channel[w][i + 1]
                                        /\ i + 1 \in 1..Len(channel[w])
      /\ \A v \in Worker : \A i \in 1..Len(channel'[v]) :
           \E j \in 1..Len(channel[v]) : channel'[v][i] = channel[v][j]
  BY <1>1, Received
<1>3. 1 \in 1..Len(channel[w])
  BY <1>2
<1>4. channel[w][1].kind = "synced" /\ channel[w][1].covers = {} /\ ~channel[w][1].wrote
  BY <1>1, <1>2, <1>3 DEF Channels
<1>5. Channels(ex, channel', forgone)
  <2> SUFFICES ASSUME NEW v \in Worker, NEW i \in 1..Len(channel'[v])
               PROVE  /\ channel'[v][i].kind = "synced" =>
                           /\ channel'[v][i].covers = {} /\ ~channel'[v][i].wrote
                           /\ channel'[v][i].id \in 1..sync[v].last
                      /\ \A q \in channel'[v][i].covers :
                           /\ ex[q].by = v /\ ex[q].work = "finished"
                           /\ fact[q] \in {"none", "stored"} \/ q \in forgone
    BY DEF Channels
  <2>1. PICK j \in 1..Len(channel[v]) : channel'[v][i] = channel[v][j]
    BY <1>2
  <2> QED BY <1>1, <2>1 DEF Channels
<1>6. Tickets(ex, ticket, up, channel')
  <2> SUFFICES ASSUME NEW r \in Exchange, ticket[r] \in {"out", "finished"}, ex[r].work # "none",
                      NEW i \in 1..Len(channel[ex[r].by]), r \in channel[ex[r].by][i].covers
               PROVE  \E j \in 1..Len(channel'[ex[r].by]) : r \in channel'[ex[r].by][j].covers
    BY <1>1 DEF Tickets
  <2>1. ex[r].by \in Worker
    BY <1>1 DEF Shape
  <2>2. CASE ex[r].by # w
    BY <1>2, <2>1, <2>2
  <2>3. CASE ex[r].by = w
    <3>1. i # 1
      BY <1>4, <2>3
    <3>2. i - 1 \in 1..Len(channel'[w]) /\ channel'[w][i - 1] = channel[w][i]
      BY <1>2, <2>3, <3>1
    <3> QED BY <2>3, <3>2
  <2> QED BY <2>2, <2>3
<1>7. Announcements(gen, ex, channel', forgone)
  <2> SUFFICES ASSUME NEW q \in Exchange, NEW v \in Worker, ex[q].by = v, fact[q] = "stored",
                      q \notin forgone, gen[q] = 0
               PROVE  \/ \E i \in 1..Len(channel'[v]) :
                           /\ channel'[v][i].wrote
                           /\ \A j \in 1..Len(channel'[v]) : q \in channel'[v][j].covers => i <= j
                      \/ /\ flush[v].untold
                         /\ \A j \in 1..Len(channel'[v]) : q \notin channel'[v][j].covers
    BY DEF Announcements
  <2>1. CASE flush[v].untold /\ \A j \in 1..Len(channel[v]) : q \notin channel[v][j].covers
    <3>1. ASSUME NEW j \in 1..Len(channel'[v]) PROVE q \notin channel'[v][j].covers
      <4>1. PICK k \in 1..Len(channel[v]) : channel'[v][j] = channel[v][k]
        BY <1>2
      <4> QED BY <2>1, <4>1
    <3> QED BY <2>1, <3>1
  <2>2. ASSUME NEW i \in 1..Len(channel[v]), channel[v][i].wrote,
               \A j \in 1..Len(channel[v]) : q \in channel[v][j].covers => i <= j
        PROVE  \E k \in 1..Len(channel'[v]) :
                           /\ channel'[v][k].wrote
                           /\ \A j \in 1..Len(channel'[v]) : q \in channel'[v][j].covers => k <= j
    <3>1. CASE v # w
      BY <1>2, <2>2, <3>1
    <3>2. CASE v = w
      <4>1. i # 1
        BY <1>4, <2>2, <3>2
      <4>2. i - 1 \in 1..Len(channel'[w]) /\ channel'[w][i - 1] = channel[w][i]
        BY <1>2, <2>2, <3>2, <4>1
      <4>3. \A j \in 1..Len(channel'[w]) : q \in channel'[w][j].covers => i - 1 <= j
        <5> SUFFICES ASSUME NEW j \in 1..Len(channel'[w]), q \in channel'[w][j].covers
                     PROVE  i - 1 <= j
          OBVIOUS
        <5>1. q \in channel[w][j + 1].covers /\ j + 1 \in 1..Len(channel[w])
          BY <1>2
        <5> QED BY <2>2, <3>2, <5>1
      <4> QED BY <2>2, <3>2, <4>2, <4>3
    <3> QED BY <3>1, <3>2
  <2> QED BY <1>1, <2>1, <2>2 DEF Announcements
<1> QED BY <1>2, <1>5, <1>6, <1>7 DEF Left

LEMMA SettlingKept ==
  ASSUME NEW gen, PoolInv(gen), NEW w \in Worker, NEW ok \in BOOLEAN, Settles(w, ok),
         sync[w].id # 0,
         ok /\ w \notin blind =>
           \A q \in Exchange : gen[q] \in 1..sync[w].wanted => q \in holds[w] \cup forgone,
         Left(gen), losses' \in Nat,
         UNCHANGED <<writesAt, ticket, localSeen, up, holds, fact, flush, forgone, blind>>
  PROVE  PoolInv(gen)'
<1>1. /\ PoolTypes /\ Generations(gen, writesAt) /\ Flushes(ex, forgone)
      /\ Looked(gen, ex, forgone) /\ Deaths(ex, up, forgone)
      /\ Rounds(gen, writesAt, channel, forgone)
  BY InvariantParts
<1>2. /\ current' \in [Worker -> Nat] /\ sync' \in [Worker -> RoundSet]
      /\ ex' \in [Exchange -> ExchangeSet] /\ SameWork(ex')
      /\ \A v \in Worker : sync'[v].last >= sync[v].last
      /\ Shape(ex', ticket) /\ Wants(ex', current', writesAt)
      /\ Syncs(ex)' /\ Settled(gen, ex', ticket, up, forgone) /\ Knows(gen, current', forgone)
      /\ Reads(gen, ex', ticket, forgone)
      /\ \A v \in Worker : /\ RoundOK(sync'[v])
                           /\ sync'[v].wanted <= writesAt /\ sync'[v].queued <= writesAt
                           /\ \/ sync'[v] = sync[v]
                              \/ sync'[v].id \notin 1..sync[v].last
  BY SettlesKept
<1>3. Flushes(ex', forgone) /\ Looked(gen, ex', forgone) /\ Deaths(ex', up, forgone)
  BY <1>2, SameWorkKept
<1>4. UNCHANGED <<writesAt, ticket, localSeen, up, holds, fact, flush, forgone, blind>>
  OBVIOUS
<1>5. /\ channel' \in [Worker -> Seq(MessageSet)] /\ Channels(ex, channel', forgone)
      /\ Tickets(ex, ticket, up, channel') /\ Announcements(gen, ex, channel', forgone)
      /\ \A v \in Worker : \A i \in 1..Len(channel'[v]) :
           \E j \in 1..Len(channel[v]) : channel'[v][i] = channel[v][j]
  BY DEF Left
<1>6. Channels(ex, channel, forgone)'
  <2> SUFFICES ASSUME NEW v \in Worker, NEW i \in 1..Len(channel'[v])
               PROVE  /\ channel'[v][i].kind = "synced" =>
                           /\ channel'[v][i].covers = {} /\ ~channel'[v][i].wrote
                           /\ channel'[v][i].id \in 1..sync'[v].last
                      /\ \A q \in channel'[v][i].covers :
                           /\ ex'[q].by = v /\ ex'[q].work = "finished"
                           /\ fact[q] \in {"none", "stored"} \/ q \in forgone
    BY <1>4 DEF Channels
  <2>1. channel'[v][i] \in MessageSet
    BY <1>5
  <2>2. channel'[v][i].covers \subseteq Exchange
    BY <2>1 DEF MessageSet
  <2>3. sync[v].last \in Nat /\ sync'[v].last \in Nat /\ sync'[v].last >= sync[v].last
    BY <1>1, <1>2 DEF PoolTypes, RoundSet
  <2>4. channel'[v][i].id \in 1..sync[v].last => channel'[v][i].id \in 1..sync'[v].last
    BY <2>3
  <2>5. /\ channel'[v][i].kind = "synced" =>
             /\ channel'[v][i].covers = {} /\ ~channel'[v][i].wrote
             /\ channel'[v][i].id \in 1..sync[v].last
        /\ \A q \in channel'[v][i].covers :
             /\ ex[q].by = v /\ ex[q].work = "finished"
             /\ fact[q] \in {"none", "stored"} \/ q \in forgone
    BY <1>5, Zenon DEF Channels
  <2>6. \A q \in channel'[v][i].covers : ex'[q].by = ex[q].by /\ ex'[q].work = ex[q].work
    BY <1>2, <2>2 DEF SameWork
  <2> QED BY <2>4, <2>5, <2>6
<1>7. Tickets(ex, ticket, up, channel)' /\ Announcements(gen, ex, channel, forgone)'
  <2>1. \A q \in Exchange : ex'[q].by = ex[q].by /\ ex'[q].work = ex[q].work
    BY <1>2 DEF SameWork
  <2>2. Announcements(gen, ex', channel', forgone)
    BY <1>5, <2>1 DEF Announcements
  <2>3. Tickets(ex', ticket, up, channel')
    <3> SUFFICES ASSUME NEW r \in Exchange, ticket[r] \in {"out", "finished"}, ex[r].work # "none"
                 PROVE  \/ up[ex[r].by] = "dead"
                        \/ /\ up[ex[r].by] = "up"
                           /\ \/ ex[r].work = "handled"
                              \/ r \in flush[ex[r].by].next \cup flush[ex[r].by].covers
                              \/ \E i \in 1..Len(channel'[ex[r].by]) :
                                   r \in channel'[ex[r].by][i].covers
      BY <2>1 DEF Tickets
    <3> QED BY <1>5, Zenon DEF Tickets
  <2> QED BY <1>4, <2>2, <2>3 DEF Tickets, Announcements
<1>8. Rounds(gen, writesAt, channel, forgone)'
  <2>1. ASSUME NEW v \in Worker, v \notin blind, NEW i \in 1..Len(channel'[v]),
               channel'[v][i].kind = "synced", channel'[v][i].id = sync'[v].id,
               NEW q \in Exchange, gen[q] \in 1..sync'[v].wanted
        PROVE  q \in holds[v] \cup forgone
    <3>1. channel'[v][i].id \in 1..sync[v].last
      BY <1>5, <2>1 DEF Channels
    <3>2. sync'[v] = sync[v]
      BY <1>2, <2>1, <3>1
    <3>3. PICK j \in 1..Len(channel[v]) : channel'[v][i] = channel[v][j]
      BY <1>5
    <3> QED BY <1>1, <2>1, <3>2, <3>3 DEF Rounds
  <2> QED BY <1>2, <1>4, <2>1 DEF Rounds, RoundOK
<1>9. PoolTypes'
  BY <1>1, <1>2, <1>4, <1>5 DEF PoolTypes
<1>10. /\ Shape(ex, ticket)' /\ Flushes(ex, forgone)' /\ Wants(ex, current, writesAt)'
       /\ Generations(gen, writesAt)' /\ Looked(gen, ex, forgone)'
       /\ Settled(gen, ex, ticket, up, forgone)' /\ Deaths(ex, up, forgone)'
  BY <1>1, <1>2, <1>3, <1>4
     DEF Shape, Flushes, Wants, Generations, Looked, OfFront, Settled, Deaths
<1>11. Knows(gen, current, forgone)' /\ Reads(gen, ex, ticket, forgone)'
  BY <1>2, <1>4 DEF Knows, Reads, Gets, Safe
<1> QED BY <1>2, <1>6, <1>7, <1>8, <1>9, <1>10, <1>11 DEF PoolInv, Told

LEMMA RoundTimesOutKept ==
  ASSUME NEW gen, PoolInv(gen), NEW w \in Worker, RoundTimesOut(w)
  PROVE  PoolInv(gen)'
<1>1. /\ sync[w].id # 0 /\ Settles(w, FALSE) /\ losses' \in Nat
      /\ UNCHANGED <<writesAt, ticket, localSeen, up, holds, fact, flush, channel, forgone, blind>>
  <2>1. losses \in Nat
    BY InvariantParts DEF PoolTypes
  <2>2. losses' = losses \/ losses' = losses + 1
    BY DEF RoundTimesOut, Loses
  <2>3. losses' \in Nat
    BY <2>1, <2>2
  <2> QED BY <2>3 DEF RoundTimesOut
<1>2. Left(gen)
  BY <1>1, LeftAlone
<1> QED BY <1>1, <1>2, SettlingKept

LEMMA ReceiveSyncKept ==
  ASSUME NEW gen, PoolInv(gen), NEW w \in Worker, ReceiveSync(w)
  PROVE  PoolInv(gen)'
<1>1. /\ channel[w] # <<>> /\ Head(channel[w]).kind = "synced"
      /\ channel' = [channel EXCEPT ![w] = Tail(channel[w])]
      /\ UNCHANGED <<writesAt, ticket, localSeen, up, holds, fact, flush, forgone, blind, losses>>
  BY DEF ReceiveSync
<1>2. /\ PoolTypes /\ Channels(ex, channel, forgone) /\ Rounds(gen, writesAt, channel, forgone)
      /\ Shape(ex, ticket) /\ Flushes(ex, forgone) /\ Syncs(ex)
      /\ Wants(ex, current, writesAt) /\ Generations(gen, writesAt)
      /\ Looked(gen, ex, forgone) /\ Settled(gen, ex, ticket, up, forgone)
      /\ Deaths(ex, up, forgone) /\ Knows(gen, current, forgone)
      /\ Reads(gen, ex, ticket, forgone)
  BY InvariantParts
<1>3. Left(gen)
  BY <1>1, SyncedTaken
<1>4. CASE Head(channel[w]).id = sync[w].id
  <2>1. Settles(w, TRUE)
    BY <1>4 DEF ReceiveSync
  <2>2. Head(channel[w]) = channel[w][1] /\ 1 \in 1..Len(channel[w])
    <3>1. Head(channel[w]) = channel[w][1] /\ Len(channel[w]) \in Nat /\ Len(channel[w]) > 0
      BY <1>1, <1>2, Received
    <3> QED BY <3>1
  <2>3. channel[w][1].kind = "synced" /\ channel[w][1].id = sync[w].id
    BY <1>1, <1>4, <2>2
  <2>4. sync[w].id # 0
    BY <1>2, <2>2, <2>3 DEF Channels
  <2>5. w \notin blind =>
           \A q \in Exchange : gen[q] \in 1..sync[w].wanted => q \in holds[w] \cup forgone
    BY <1>2, <2>2, <2>3 DEF Rounds
  <2>6. losses' \in Nat
    BY <1>1, <1>2 DEF PoolTypes
  <2> QED BY <1>1, <1>3, <2>1, <2>4, <2>5, <2>6, SettlingKept
<1>5. CASE Head(channel[w]).id # sync[w].id
  <2>1. UNCHANGED <<current, sync, ex>>
    BY <1>5 DEF ReceiveSync
  <2>2. /\ channel' \in [Worker -> Seq(MessageSet)] /\ Channels(ex, channel', forgone)
        /\ Tickets(ex, ticket, up, channel') /\ Announcements(gen, ex, channel', forgone)
        /\ \A v \in Worker : \A i \in 1..Len(channel'[v]) :
             \E j \in 1..Len(channel[v]) : channel'[v][i] = channel[v][j]
    BY <1>3 DEF Left
  <2>3. Rounds(gen, writesAt, channel, forgone)'
    <3>1. ASSUME NEW v \in Worker, v \notin blind, NEW i \in 1..Len(channel'[v]),
                 channel'[v][i].kind = "synced", channel'[v][i].id = sync[v].id,
                 NEW q \in Exchange, gen[q] \in 1..sync[v].wanted
          PROVE  q \in holds[v] \cup forgone
      <4>1. PICK j \in 1..Len(channel[v]) : channel'[v][i] = channel[v][j]
        BY <2>2
      <4> QED BY <1>2, <3>1, <4>1 DEF Rounds
    <3> QED BY <1>1, <1>2, <2>1, <3>1 DEF Rounds
  <2>4. PoolTypes'
    BY <1>1, <1>2, <2>1, <2>2 DEF PoolTypes
  <2>5. /\ Shape(ex, ticket)' /\ Flushes(ex, forgone)' /\ Wants(ex, current, writesAt)'
        /\ Generations(gen, writesAt)' /\ Looked(gen, ex, forgone)'
        /\ Settled(gen, ex, ticket, up, forgone)' /\ Deaths(ex, up, forgone)'
    BY <1>1, <1>2, <2>1
       DEF Shape, Flushes, Wants, Generations, Looked, OfFront, Settled, Deaths
  <2>6. Knows(gen, current, forgone)' /\ Reads(gen, ex, ticket, forgone)' /\ Syncs(ex)'
    BY <1>1, <1>2, <2>1
       DEF Knows, Reads, Gets, Safe, Syncs
  <2>7. Channels(ex, channel, forgone)'
    <3>1. fact' = fact /\ forgone' = forgone /\ ex' = ex /\ sync' = sync
      BY <1>1, <2>1
    <3> QED BY <2>2, <3>1 DEF Channels
  <2>8. Tickets(ex, ticket, up, channel)' /\ Announcements(gen, ex, channel, forgone)'
    BY <1>1, <2>1, <2>2 DEF Tickets, Announcements
  <2> QED BY <2>3, <2>4, <2>5, <2>6, <2>7, <2>8 DEF PoolInv, Told
<1> QED BY <1>4, <1>5

-----------------------------------------------------------------------------
(* The handlers' steps.                                                    *)

(* A record of an exchange whose handler has run.                          *)
Done(e, stage, work, missed) ==
  [[[e EXCEPT !.stage = stage] EXCEPT !.work = work] EXCEPT !.missed = missed]

LEMMA DoneMeans ==
  ASSUME NEW e \in ExchangeSet, NEW stage \in PoolStages, NEW missed \in SUBSET Exchange,
         NEW work \in {"none", "handled", "finished"}
  PROVE  LET f == Done(e, stage, work, missed)
         IN  /\ f \in ExchangeSet /\ f.stage = stage /\ f.work = work /\ f.missed = missed
             /\ f.by = e.by /\ f.below = e.below /\ f.owed = e.owed
             /\ f.wanted = e.wanted /\ f.late = e.late
<1> DEFINE a == [e EXCEPT !.stage = stage]
           b == [a EXCEPT !.work = work]
           f == Done(e, stage, work, missed)
<1>1. /\ a \in ExchangeSet /\ a.stage = stage /\ a.by = e.by /\ a.below = e.below
      /\ a.owed = e.owed /\ a.wanted = e.wanted /\ a.late = e.late
  BY DEF ExchangeSet
<1>2. f = [b EXCEPT !.missed = missed]
  BY DEF Done
<1> HIDE DEF a
<1>3. /\ b \in ExchangeSet /\ b.stage = a.stage /\ b.by = a.by /\ b.below = a.below
      /\ b.owed = a.owed /\ b.wanted = a.wanted /\ b.late = a.late /\ b.work = work
  BY <1>1 DEF ExchangeSet
<1> HIDE DEF b, f
<1>4. /\ f \in ExchangeSet /\ f.stage = b.stage /\ f.by = b.by /\ f.below = b.below
      /\ f.owed = b.owed /\ f.wanted = b.wanted /\ f.late = b.late /\ f.work = b.work
      /\ f.missed = missed
  BY <1>2, <1>3 DEF ExchangeSet
<1> QED BY <1>1, <1>3, <1>4 DEF f

(* A handler of r has run at its process, and has perhaps written.         *)
LEMMA HandlerRan ==
  ASSUME NEW gen, PoolInv(gen), NEW r \in Exchange, NEW has \in SUBSET Exchange,
         NEW stage \in PoolStages, NEW work \in {"handled", "finished"},
         ex[r].stage # "new", stage # "new", ex[r].work = "none",
         \/ /\ ex[r].by = Front /\ ex[r].stage = "catching" /\ stage = "answered"
            /\ work = "finished"
         \/ /\ ex[r].by \in Worker /\ stage = ex[r].stage /\ stage \in {"sent", "gone"}
            /\ up[ex[r].by] = "up" /\ work = "handled",
         ex' = [ex EXCEPT ![r] = Done(ex[r], stage, work, Missing(r, has))],
         NEW more \in SUBSET Exchange, r \in more, has \cup {r} \subseteq holds[ex[r].by] \cup more,
         holds' = [holds EXCEPT ![ex[r].by] = holds[ex[r].by] \cup more],
         \A q \in ex[r].owed : Gets(gen, r, ex, ticket, forgone) =>
           q \in has \cup forgone \/ fact[q] = "none",
         \E f \in {"none", "noted"} : fact' = [fact EXCEPT ![r] = f],
         UNCHANGED <<writesAt, current, ticket, localSeen, sync, up, flush, channel, forgone,
                     blind, losses>>
  PROVE  PoolInv(gen)'
<1>1. /\ PoolTypes /\ Shape(ex, ticket) /\ Flushes(ex, forgone)
      /\ Channels(ex, channel, forgone) /\ Tickets(ex, ticket, up, channel) /\ Syncs(ex)
      /\ Wants(ex, current, writesAt) /\ Generations(gen, writesAt)
      /\ Announcements(gen, ex, channel, forgone) /\ Looked(gen, ex, forgone)
      /\ Settled(gen, ex, ticket, up, forgone) /\ Deaths(ex, up, forgone)
      /\ Knows(gen, current, forgone) /\ Rounds(gen, writesAt, channel, forgone)
      /\ Reads(gen, ex, ticket, forgone)
  BY InvariantParts
<1>2. UNCHANGED <<writesAt, current, ticket, localSeen, sync, up, flush, channel, forgone,
                  blind, losses>>
  OBVIOUS
<1>3. /\ ex \in [Exchange -> ExchangeSet] /\ fact \in [Exchange -> Facts4]
      /\ holds \in [Worker \cup {Front} -> SUBSET Exchange] /\ Front \notin Worker
      /\ forgone \in SUBSET Exchange
  BY <1>1, PoolConstants DEF PoolTypes, Front
<1>4. fact[r] = "none" /\ ex[r].missed = {} /\ ex[r].by \in Worker \cup {Front}
  BY <1>1, <1>3 DEF Shape, ExchangeSet
<1>5. /\ fact' \in [Exchange -> Facts4] /\ fact'[r] \in {"none", "noted"}
      /\ \A q \in Exchange : q # r => fact'[q] = fact[q]
      /\ \A q \in Exchange : fact'[q] = "stored" <=> fact[q] = "stored"
  BY <1>3, <1>4 DEF Facts4
<1>6. /\ holds' \in [Worker \cup {Front} -> SUBSET Exchange] /\ r \in holds'[ex[r].by]
      /\ \A p \in Worker \cup {Front} : holds[p] \subseteq holds'[p]
  BY <1>3, <1>4
<1>7. Missing(r, has) \in SUBSET Exchange /\ ex[r] \in ExchangeSet
  BY <1>3 DEF Missing, ExchangeSet
<1>8. /\ ex' \in [Exchange -> ExchangeSet] /\ \A q \in Exchange : q # r => ex'[q] = ex[q]
      /\ ex'[r].stage = stage /\ ex'[r].work = work /\ ex'[r].missed = Missing(r, has)
      /\ ex'[r].by = ex[r].by /\ ex'[r].below = ex[r].below /\ ex'[r].owed = ex[r].owed
      /\ ex'[r].wanted = ex[r].wanted /\ ex'[r].late = ex[r].late
  <2> DEFINE f == Done(ex[r], stage, work, Missing(r, has))
  <2>1. /\ f \in ExchangeSet /\ f.stage = stage /\ f.work = work /\ f.missed = Missing(r, has)
        /\ f.by = ex[r].by /\ f.below = ex[r].below /\ f.owed = ex[r].owed
        /\ f.wanted = ex[r].wanted /\ f.late = ex[r].late
    BY <1>7, DoneMeans
  <2>2. ex' = [ex EXCEPT ![r] = f]
    OBVIOUS
  <2> HIDE DEF f
  <2> QED BY <1>3, <2>1, <2>2
<1>9. Shape(ex, ticket)'
  <2>1. ASSUME NEW q \in Exchange, q # r
        PROVE  /\ ex'[q] = ex[q] /\ ticket'[q] = ticket[q] /\ fact'[q] = fact[q]
               /\ q \in holds[ex[q].by] => q \in holds'[ex[q].by]
    BY <1>2, <1>3, <1>5, <1>6, <1>8, <2>1 DEF ExchangeSet
  <2>2. /\ ticket[r] # "none" => ex[r].by \in Worker
        /\ stage \in {"sent", "gone", "answered"}
        /\ stage = "sent" => ticket[r] \in {"out", "clear"} /\ ex[r].by \in Worker
        /\ stage = "gone" => ticket[r] \in {"finished", "clear"} /\ ex[r].by \in Worker
        /\ stage = "answered" => ex[r].by = Front
    BY <1>1, <1>3 DEF Shape
  <2> HIDE DEF Shape
  <2>3. /\ ex'[r].stage \in {"sent", "gone", "answered"}
        /\ ex'[r].stage = "sent" => ticket'[r] \in {"out", "clear"} /\ ex'[r].by \in Worker
        /\ ex'[r].stage = "gone" => ticket'[r] \in {"finished", "clear"} /\ ex'[r].by \in Worker
        /\ ex'[r].stage = "answered" => ex'[r].by \notin Worker
        /\ ex'[r].work # "none" /\ r \in holds'[ex'[r].by]
        /\ ticket'[r] # "none" => ex'[r].by \in Worker
        /\ ex'[r].work = "handled" => ex'[r].by \in Worker
    BY <1>2, <1>3, <1>6, <1>8, <2>2
  <2> QED BY <1>1, <2>1, <2>3 DEF Shape
<1>10. Flushes(ex, forgone)' /\ Channels(ex, channel, forgone)'
  <2>1. \A w \in Worker : \A q \in flush[w].next \cup flush[w].covers :
          ex'[q] = ex[q] /\ fact'[q] = fact[q]
    BY <1>1, <1>5, <1>8, CoversMeans DEF Flushes
  <2>2. \A w \in Worker : \A i \in 1..Len(channel[w]) : channel[w][i].covers \subseteq Exchange
    BY <1>1, CoversMeans
  <2>3. \A w \in Worker : \A i \in 1..Len(channel[w]) : \A q \in channel[w][i].covers :
          ex'[q] = ex[q] /\ fact'[q] = fact[q]
    BY <1>1, <1>5, <1>8, <2>2 DEF Channels
  <2>4. Flushes(ex, forgone)'
    BY <1>1, <1>2, <2>1 DEF Flushes
  <2>5. Channels(ex, channel, forgone)'
    BY <1>1, <1>2, <2>3 DEF Channels
  <2> QED BY <2>4, <2>5
<1>11. Tickets(ex, ticket, up, channel)'
  <2>1. Tickets(ex', ticket, up, channel)
    <3>1. \A q \in Exchange : q # r => ex'[q] = ex[q]
      BY <1>8
    <3>2. ticket[r] \in {"out", "finished"} => up[ex'[r].by] = "up" /\ ex'[r].work = "handled"
      BY <1>1, <1>3, <1>8 DEF Shape
    <3> QED BY <1>1, <3>1, <3>2 DEF Tickets
  <2> QED BY <1>2, <2>1 DEF Tickets
<1>12. Syncs(ex)' /\ Wants(ex, current, writesAt)'
  BY <1>1, <1>2, <1>8 DEF Syncs, Wants
<1>13. Generations(gen, writesAt)' /\ Announcements(gen, ex, channel, forgone)'
  <2>1. \A q \in Exchange : ex'[q].by = ex[q].by
    BY <1>8
  <2>2. Generations(gen, writesAt)'
    BY <1>1, <1>2, <1>5 DEF Generations
  <2>3. \A q \in Exchange : fact'[q] = "stored" => fact[q] = "stored"
    BY <1>5
  <2>4. channel' = channel /\ flush' = flush /\ forgone' = forgone
    BY <1>2
  <2>5. Announcements(gen, ex, channel, forgone)'
    BY <1>1, <2>1, <2>3, <2>4 DEF Announcements
  <2> QED BY <2>2, <2>5
<1>14. Looked(gen, ex, forgone)'
  <2>1. {q \in Exchange : ex'[q].stage # "new"} = {q \in Exchange : ex[q].stage # "new"}
    BY <1>8
  <2>2. OfFront(ex)' = OfFront(ex)
    BY <1>5, <1>8 DEF OfFront
  <2> QED BY <1>1, <1>2, <2>1, <2>2 DEF Looked
<1>15. Settled(gen, ex, ticket, up, forgone)'
  <2> SUFFICES ASSUME NEW q \in Exchange, ex'[q].by \in Worker, ticket[q] = "clear",
                      ex'[q].stage # "gone"
               PROVE  \/ ex'[q].work = "none" /\ up[ex'[q].by] # "up"
                      \/ q \in forgone
                      \/ ex'[q].work # "none" /\ (fact'[q] = "none" \/ gen[q] # 0)
    BY <1>2 DEF Settled
  <2>1. CASE q # r
    BY <1>1, <1>5, <1>8, <2>1 DEF Settled
  <2>2. CASE q = r
    BY <1>1, <1>3, <1>8, <2>2 DEF Settled
  <2> QED BY <2>1, <2>2
<1>16. Deaths(ex, up, forgone)'
  BY <1>1, <1>2, <1>3, <1>8 DEF Deaths
<1>17. Knows(gen, current, forgone)' /\ Rounds(gen, writesAt, channel, forgone)'
  BY <1>1, <1>2, <1>6 DEF Knows, Rounds
<1>18. Reads(gen, ex, ticket, forgone)'
  <2> SUFFICES ASSUME NEW s \in Exchange
               PROVE  /\ \A q \in ex'[s].owed : ex'[q].stage = "answered"
                      /\ \/ ex'[s].late \/ ex'[s].by \in blind
                         \/ /\ ex'[s].missed \cap ex'[s].owed = {}
                            /\ ex'[s].work = "none" => Gets(gen, s, ex, ticket, forgone)'
    BY <1>2 DEF Reads
  <2>1. ex[s].owed \subseteq Exchange /\ \A q \in ex[s].owed : ex[q].stage = "answered"
    BY <1>1, <1>3 DEF Reads, ExchangeSet
  <2>2. \A q \in ex[s].owed : q # r
    BY <1>1, <2>1 DEF Shape
  <2>3. \A q \in ex[s].owed : ex'[q] = ex[q] /\ fact'[q] = fact[q]
    BY <1>5, <1>8, <2>1, <2>2
  <2>4. CASE s # r
    <3>1. ex'[s] = ex[s] /\ ex[s].by \in Worker \cup {Front}
      BY <1>3, <1>8, <2>4 DEF ExchangeSet
    <3>2. \A q \in ex[s].owed, p \in Worker \cup {Front} :
            Safe(q, p, forgone) => q \in forgone' \cup holds'[p] \/ fact'[q] = "none"
      BY <1>2, <1>6, <2>3 DEF Safe
    <3>3. Gets(gen, s, ex, ticket, forgone) => Gets(gen, s, ex, ticket, forgone)'
      BY <1>2, <2>3, <3>1, <3>2 DEF Gets, Safe
    <3> QED BY <1>1, <2>1, <2>3, <3>1, <3>3 DEF Reads
  <2>5. CASE s = r
    <3>1. Gets(gen, r, ex, ticket, forgone) => Missing(r, has) \cap ex[r].owed = {}
      BY <2>5 DEF Missing
    <3>2. ex'[r].work # "none"
      BY <1>8
    <3> QED BY <1>1, <1>8, <2>1, <2>3, <2>5, <3>1, <3>2 DEF Reads
  <2> QED BY <2>4, <2>5
<1>19. PoolTypes'
  BY <1>1, <1>2, <1>5, <1>6, <1>8 DEF PoolTypes
<1> QED BY <1>9, <1>10, <1>11, <1>12, <1>13, <1>14, <1>15, <1>16, <1>17, <1>18, <1>19
        DEF PoolInv, Told

LEMMA KeptHereKept ==
  ASSUME NEW gen, PoolInv(gen), NEW r \in Exchange, KeptHere(r)
  PROVE  PoolInv(gen)'
<1> DEFINE has == holds[Front] \cup Stored
           more == Stored \cup {r}
<1>1. /\ PoolTypes /\ Shape(ex, ticket)
  BY InvariantParts
<1>2. /\ ex[r].stage = "catching"
      /\ UNCHANGED <<writesAt, current, ticket, localSeen, sync, up, flush, channel, forgone,
                     blind, losses>>
  BY DEF KeptHere
<1>3. ex[r].work = "none" /\ ex[r].by = Front /\ fact[r] = "none"
  BY <1>1, <1>2 DEF Shape
<1>4. /\ ex \in [Exchange -> ExchangeSet] /\ fact \in [Exchange -> Facts4]
      /\ holds \in [Worker \cup {Front} -> SUBSET Exchange]
  BY <1>1 DEF PoolTypes
<1>5. has \in SUBSET Exchange /\ more \in SUBSET Exchange /\ r \in more
  BY <1>4 DEF Stored
<1>6. holds' = [holds EXCEPT ![ex[r].by] = holds[ex[r].by] \cup more]
  BY <1>3 DEF KeptHere
<1>7. ex' = [ex EXCEPT ![r] = Done(ex[r], "answered", "finished", Missing(r, has))]
  BY <1>4 DEF KeptHere, Done
<1>8. \E f \in {"none", "noted"} : fact' = [fact EXCEPT ![r] = f]
  <2>1. PICK writes \in BOOLEAN : fact' = [fact EXCEPT ![r] = IF writes THEN "noted" ELSE fact[r]]
    BY DEF KeptHere
  <2> QED BY <1>3, <2>1
<1>9. has \cup {r} \subseteq holds[ex[r].by] \cup more
  BY <1>3
<1>10. \A q \in ex[r].owed : Gets(gen, r, ex, ticket, forgone) =>
           q \in has \cup forgone \/ fact[q] = "none"
  <2>1. ex[r].owed \subseteq Exchange
    BY <1>4 DEF ExchangeSet
  <2> QED BY <1>2, <2>1 DEF Gets, Safe, Stored
<1>11. {"answered"} \subseteq PoolStages
  BY DEF PoolStages
<1> HIDE DEF has, more
<1> QED BY <1>2, <1>3, <1>5, <1>6, <1>7, <1>8, <1>9, <1>10, <1>11, HandlerRan

LEMMA HandlesKept ==
  ASSUME NEW gen, PoolInv(gen), NEW r \in Exchange, Handles(r)
  PROVE  PoolInv(gen)'
<1> DEFINE has == holds[ex[r].by]
<1>1. /\ PoolTypes /\ Shape(ex, ticket)
  BY InvariantParts
<1>2. /\ ex[r].stage \in {"sent", "gone"} /\ ex[r].work = "none" /\ up[ex[r].by] = "up"
      /\ UNCHANGED <<writesAt, current, ticket, localSeen, sync, up, flush, channel, forgone,
                     blind, losses>>
  BY DEF Handles, By
<1>3. ex[r].by \in Worker /\ fact[r] = "none"
  BY <1>1, <1>2 DEF Shape
<1>4. /\ ex \in [Exchange -> ExchangeSet] /\ fact \in [Exchange -> Facts4]
      /\ holds \in [Worker \cup {Front} -> SUBSET Exchange]
  BY <1>1 DEF PoolTypes
<1>5. has \in SUBSET Exchange /\ {r} \in SUBSET Exchange /\ r \in {r}
  BY <1>3, <1>4
<1>6. holds' = [holds EXCEPT ![ex[r].by] = holds[ex[r].by] \cup {r}]
  BY DEF Handles, By
<1>7. ex' = [ex EXCEPT ![r] = Done(ex[r], ex[r].stage, "handled", Missing(r, has))]
  <2>1. ex[r] \in ExchangeSet
    BY <1>4
  <2>2. [ex[r] EXCEPT !.stage = ex[r].stage] = ex[r]
    BY <2>1 DEF ExchangeSet
  <2>3. ex' = [ex EXCEPT ![r] =
                 [[ex[r] EXCEPT !.work = "handled"] EXCEPT !.missed = Missing(r, has)]]
    BY <1>4 DEF Handles, By
  <2> QED BY <2>2, <2>3 DEF Done
<1>8. \E f \in {"none", "noted"} : fact' = [fact EXCEPT ![r] = f]
  <2>1. PICK writes \in BOOLEAN : fact' = [fact EXCEPT ![r] = IF writes THEN "noted" ELSE fact[r]]
    BY DEF Handles
  <2> QED BY <1>3, <2>1
<1>9. has \cup {r} \subseteq holds[ex[r].by] \cup {r}
  OBVIOUS
<1>10. \A q \in ex[r].owed : Gets(gen, r, ex, ticket, forgone) =>
           q \in has \cup forgone \/ fact[q] = "none"
  <2>1. ex[r].owed \subseteq Exchange
    BY <1>4 DEF ExchangeSet
  <2> QED BY <1>2, <2>1 DEF Gets, Safe
<1>11. ex[r].stage \in PoolStages /\ ex[r].stage # "new"
  BY <1>2 DEF PoolStages
<1> HIDE DEF has
<1> QED BY <1>2, <1>3, <1>5, <1>6, <1>7, <1>8, <1>9, <1>10, <1>11, HandlerRan

(* What the front noted is stored: rows nobody has announced, all of them  *)
(* more than it has looked at.                                             *)
LEMMA FrontFlushesKept ==
  ASSUME NEW gen, PoolInv(gen), FrontFlushes
  PROVE  PoolInv(gen)'
<1>1. /\ PoolTypes /\ Shape(ex, ticket) /\ Flushes(ex, forgone)
      /\ Channels(ex, channel, forgone) /\ Tickets(ex, ticket, up, channel) /\ Syncs(ex)
      /\ Wants(ex, current, writesAt) /\ Generations(gen, writesAt)
      /\ Announcements(gen, ex, channel, forgone) /\ Looked(gen, ex, forgone)
      /\ Settled(gen, ex, ticket, up, forgone) /\ Deaths(ex, up, forgone)
      /\ Knows(gen, current, forgone) /\ Rounds(gen, writesAt, channel, forgone)
      /\ Reads(gen, ex, ticket, forgone)
  BY InvariantParts
<1>2. /\ UNCHANGED <<writesAt, current, ticket, localSeen, ex, sync, up, holds, flush, channel,
                     forgone, blind, losses>>
      /\ OfWorker(Front, "noted") # {}
      /\ fact' = [r \in Exchange |-> IF By(r) = Front /\ fact[r] = "noted"
                                     THEN "stored" ELSE fact[r]]
  BY DEF FrontFlushes
<1>3. /\ fact \in [Exchange -> Facts4] /\ ex \in [Exchange -> ExchangeSet] /\ Front \notin Worker
      /\ localSeen \in Int
  BY <1>1, PoolConstants DEF PoolTypes, Front
<1>4. /\ fact' \in [Exchange -> Facts4]
      /\ \A q \in Exchange : \/ fact'[q] = fact[q]
                             \/ ex[q].by = Front /\ fact[q] = "noted" /\ fact'[q] = "stored"
      /\ \A q \in Exchange : fact'[q] = "none" <=> fact[q] = "none"
      /\ \A q \in Exchange : fact[q] = "stored" => fact'[q] = "stored"
      /\ \A q \in Exchange : ex[q].by # Front => fact'[q] = fact[q]
  BY <1>2, <1>3 DEF By, Facts4
<1>5. Shape(ex, ticket)'
  BY <1>1, <1>2, <1>4 DEF Shape
<1>6. Flushes(ex, forgone)' /\ Channels(ex, channel, forgone)'
  <2>1. \A w \in Worker : \A q \in flush[w].next \cup flush[w].covers : fact'[q] = fact[q]
    BY <1>1, <1>3, <1>4, CoversMeans DEF Flushes
  <2>2. \A w \in Worker : \A i \in 1..Len(channel[w]) : channel[w][i].covers \subseteq Exchange
    BY <1>1, CoversMeans
  <2>3. \A w \in Worker : \A i \in 1..Len(channel[w]) : \A q \in channel[w][i].covers :
          fact'[q] = fact[q]
    BY <1>1, <1>3, <1>4, <2>2 DEF Channels
  <2>4. Flushes(ex, forgone)'
    BY <1>1, <1>2, <2>1 DEF Flushes
  <2>5. Channels(ex, channel, forgone)'
    BY <1>1, <1>2, <2>3 DEF Channels
  <2> QED BY <2>4, <2>5
<1>7. Tickets(ex, ticket, up, channel)' /\ Syncs(ex)' /\ Wants(ex, current, writesAt)'
  <2>1. Tickets(ex, ticket, up, channel)'
    BY <1>1, <1>2 DEF Tickets
  <2> QED BY <1>1, <1>2, <2>1 DEF Syncs, Wants
<1>8. Generations(gen, writesAt)' /\ Announcements(gen, ex, channel, forgone)'
  BY <1>1, <1>2, <1>3, <1>4 DEF Generations, Announcements
<1>9. Looked(gen, ex, forgone)'
  <2> DEFINE old == OfFront(ex)
             now == {q \in Exchange : ex[q].by = Front /\ fact'[q] = "stored"}
  <2>1. PICK s \in Exchange : ex[s].by = Front /\ fact[s] = "noted"
    BY <1>2 DEF OfWorker, By
  <2>2. old \subseteq now /\ s \in now /\ s \notin old
    BY <1>2, <1>3, <1>4, <2>1 DEF OfFront, By
  <2>3. now \subseteq {q \in Exchange : ex[q].stage # "new"}
    BY <1>1, <1>4 DEF Shape, NewExchange
  <2>4. IsFiniteSet({q \in Exchange : ex[q].stage # "new"})
    BY <1>1 DEF Looked
  <2>5. IsFiniteSet(now) /\ IsFiniteSet(old)
    BY <2>2, <2>3, <2>4, FS_Subset
  <2>6. old \cup {s} \subseteq now /\ Cardinality(old \cup {s}) = Cardinality(old) + 1
    BY <2>2, <2>5, FS_AddElement
  <2>7. Cardinality(old) + 1 <= Cardinality(now) /\ Cardinality(old) \in Nat
        /\ Cardinality(now) \in Nat
    BY <2>5, <2>6, FS_Subset, FS_CardinalityType
  <2>8. localSeen <= Cardinality(old) /\ localSeen >= -1
    BY <1>1 DEF Looked
  <2>9. localSeen < Cardinality(now)
    BY <1>3, <2>7, <2>8
  <2>10. OfFront(ex)' = now
    BY <1>2 DEF OfFront
  <2> HIDE DEF now, old
  <2>11. localSeen <= Cardinality(now) /\ localSeen # Cardinality(now)
    BY <1>3, <2>7, <2>9
  <2> QED BY <1>2, <2>4, <2>8, <2>10, <2>11 DEF Looked
<1>10. Settled(gen, ex, ticket, up, forgone)' /\ Deaths(ex, up, forgone)'
  BY <1>1, <1>2, <1>3, <1>4 DEF Settled, Deaths
<1>11. Knows(gen, current, forgone)' /\ Rounds(gen, writesAt, channel, forgone)'
  BY <1>1, <1>2 DEF Knows, Rounds
<1>12. Reads(gen, ex, ticket, forgone)'
  <2>1. \A r \in Exchange : ex[r].owed \subseteq Exchange
    BY <1>3 DEF ExchangeSet
  <2>2. ASSUME NEW r \in Exchange, Gets(gen, r, ex, ticket, forgone)
        PROVE  Gets(gen, r, ex, ticket, forgone)'
    BY <1>2, <1>4, <2>1, <2>2 DEF Gets, Safe
  <2> QED BY <1>1, <1>2, <2>2 DEF Reads
<1>13. PoolTypes'
  BY <1>1, <1>2, <1>4 DEF PoolTypes
<1> QED BY <1>5, <1>6, <1>7, <1>8, <1>9, <1>10, <1>11, <1>12, <1>13 DEF PoolInv, Told

-----------------------------------------------------------------------------
(* The workers' flushes and announcements.                                 *)

LEMMA AnnouncingMeans ==
  ASSUME NEW f \in FlushSet, f.state = "idle" => f.covers = {}
  PROVE  LET g == Announcing(f)
         IN  /\ g \in FlushSet /\ g.next \cup g.covers = f.next \cup f.covers
             /\ g.state = "idle" => g.covers = {}
             /\ g.running = f.running /\ g.untold = f.untold
             /\ g.state = "flushing" => f.state = "flushing" /\ g.covers = f.covers
<1> DEFINE g == Announcing(f)
<1>1. CASE f.state = "idle" /\ f.next # {}
  <2> DEFINE a == [f EXCEPT !.state = "queued"]
             b == [a EXCEPT !.covers = f.next]
             c == [b EXCEPT !.next = {}]
  <2>1. g = c
    BY <1>1 DEF Announcing
  <2>2. f.next \in SUBSET Exchange
    BY DEF FlushSet
  <2>3. /\ a \in FlushSet /\ a.state = "queued" /\ a.running = f.running /\ a.untold = f.untold
    BY DEF FlushSet
  <2> HIDE DEF a
  <2>4. /\ b \in FlushSet /\ b.state = a.state /\ b.running = a.running /\ b.untold = a.untold
        /\ b.covers = f.next
    BY <2>2, <2>3 DEF FlushSet
  <2> HIDE DEF b
  <2>5. /\ c \in FlushSet /\ c.state = b.state /\ c.running = b.running /\ c.untold = b.untold
        /\ c.covers = b.covers /\ c.next = {}
    BY <2>4 DEF FlushSet
  <2> HIDE DEF c, g
  <2> QED BY <1>1, <2>1, <2>3, <2>4, <2>5 DEF g
<1>2. CASE ~(f.state = "idle" /\ f.next # {})
  <2>1. g = f
    BY <1>2 DEF Announcing
  <2> QED BY <2>1
<1> QED BY <1>1, <1>2

LEMMA FinishesKept ==
  ASSUME NEW gen, PoolInv(gen), NEW r \in Exchange, Finishes(r)
  PROVE  PoolInv(gen)'
<1> DEFINE w == ex[r].by
           e == [flush[w] EXCEPT !.next = flush[w].next \cup {r}]
<1>1. /\ PoolTypes /\ Shape(ex, ticket) /\ Flushes(ex, forgone)
      /\ Channels(ex, channel, forgone) /\ Tickets(ex, ticket, up, channel) /\ Syncs(ex)
      /\ Wants(ex, current, writesAt) /\ Generations(gen, writesAt)
      /\ Announcements(gen, ex, channel, forgone) /\ Looked(gen, ex, forgone)
      /\ Settled(gen, ex, ticket, up, forgone) /\ Deaths(ex, up, forgone)
      /\ Knows(gen, current, forgone) /\ Rounds(gen, writesAt, channel, forgone)
      /\ Reads(gen, ex, ticket, forgone)
  BY InvariantParts
<1>2. /\ UNCHANGED <<writesAt, current, ticket, localSeen, sync, up, holds, fact, channel,
                     forgone, blind, losses>>
      /\ ex[r].work = "handled" /\ up[w] = "up"
      /\ ex' = [ex EXCEPT ![r].work = "finished"]
      /\ flush' = [flush EXCEPT ![w] = Announcing(e)]
  BY DEF Finishes, By
<1>3. /\ ex \in [Exchange -> ExchangeSet] /\ flush \in [Worker -> FlushSet] /\ w \in Worker
  BY <1>1, <1>2 DEF PoolTypes, Shape
<1>4. /\ e \in FlushSet /\ e.next = flush[w].next \cup {r} /\ e.covers = flush[w].covers
      /\ e.state = flush[w].state /\ e.untold = flush[w].untold
  <2>1. flush[w] \in FlushSet /\ flush[w].next \cup {r} \in SUBSET Exchange
    BY <1>3 DEF FlushSet
  <2> QED BY <2>1 DEF FlushSet
<1> HIDE DEF e
<1>5. e.state = "idle" => e.covers = {}
  BY <1>1, <1>3, <1>4 DEF Flushes
<1>6. /\ Announcing(e) \in FlushSet
      /\ Announcing(e).next \cup Announcing(e).covers = e.next \cup e.covers
      /\ Announcing(e).state = "idle" => Announcing(e).covers = {}
      /\ Announcing(e).untold = e.untold
      /\ Announcing(e).state = "flushing" => e.state = "flushing" /\ Announcing(e).covers = e.covers
  BY <1>4, <1>5, AnnouncingMeans
<1> HIDE DEF w
<1>7. /\ flush' \in [Worker -> FlushSet]
      /\ \A v \in Worker : v # w => flush'[v] = flush[v]
      /\ flush'[w].next \cup flush'[w].covers = flush[w].next \cup flush[w].covers \cup {r}
      /\ flush'[w].state = "idle" => flush'[w].covers = {}
      /\ flush'[w].untold = flush[w].untold
      /\ flush'[w].state = "flushing" => flush[w].state = "flushing"
                                         /\ flush'[w].covers = flush[w].covers
  <2>1. flush'[w] = Announcing(e) /\ \A v \in Worker : v # w => flush'[v] = flush[v]
    BY <1>2, <1>3
  <2>2. flush' \in [Worker -> FlushSet]
    BY <1>2, <1>3, <1>6
  <2> QED BY <1>4, <1>6, <2>1, <2>2
<1>8. /\ ex' \in [Exchange -> ExchangeSet] /\ ex'[r].work = "finished"
      /\ \A q \in Exchange : q # r => ex'[q] = ex[q]
      /\ \A q \in Exchange : /\ ex'[q].by = ex[q].by /\ ex'[q].stage = ex[q].stage
                             /\ ex'[q].below = ex[q].below /\ ex'[q].owed = ex[q].owed
                             /\ ex'[q].wanted = ex[q].wanted /\ ex'[q].late = ex[q].late
                             /\ ex'[q].missed = ex[q].missed
                             /\ ex'[q].work = "none" <=> ex[q].work = "none"
                             /\ ex[q].work = "finished" => ex'[q].work = "finished"
  BY <1>2, <1>3 DEF ExchangeSet
<1>9. w = ex[r].by
  BY DEF w
<1>10. Shape(ex, ticket)'
  <2>1. ASSUME NEW q \in Exchange, q # r
        PROVE  ex'[q] = ex[q] /\ ticket'[q] = ticket[q] /\ fact'[q] = fact[q] /\ holds' = holds
    BY <1>2, <1>8, <2>1
  <2>2. /\ ex[r].stage \notin {"new", "waiting", "catching", "syncing"}
        /\ ex[r].work # "none"
    BY <1>1, <1>2 DEF Shape, NewExchange
  <2>3. /\ ex'[r].stage \notin {"new", "waiting", "catching", "syncing"}
        /\ ex'[r].work = "finished" /\ ex'[r].by = ex[r].by /\ ex'[r].stage = ex[r].stage
        /\ ticket'[r] = ticket[r] /\ holds' = holds
    BY <1>2, <1>8, <2>2
  <2> QED BY <1>1, <2>1, <2>2, <2>3 DEF Shape
<1>11. Flushes(ex, forgone)'
  <2> SUFFICES ASSUME NEW v \in Worker
               PROVE  /\ flush'[v].state = "idle" => flush'[v].covers = {}
                      /\ \A q \in flush'[v].next \cup flush'[v].covers :
                           ex'[q].by = v /\ ex'[q].work = "finished"
                      /\ flush'[v].state = "flushing" => \A q \in flush'[v].covers :
                           fact[q] \in {"none", "flying", "stored"} \/ q \in forgone
    BY <1>2 DEF Flushes
  <2>1. \A q \in flush[v].next \cup flush[v].covers :
          q \in Exchange /\ ex'[q].by = v /\ ex'[q].work = "finished"
    BY <1>1, <1>8, CoversMeans DEF Flushes
  <2>2. CASE v # w
    BY <1>1, <1>7, <2>1, <2>2 DEF Flushes
  <2>3. CASE v = w
    BY <1>1, <1>7, <1>8, <1>9, <2>1, <2>3 DEF Flushes
  <2> QED BY <2>2, <2>3
<1>12. Channels(ex, channel, forgone)'
  <2>1. \A v \in Worker : \A i \in 1..Len(channel[v]) : channel[v][i].covers \subseteq Exchange
    BY <1>1, CoversMeans
  <2>2. \A v \in Worker : \A i \in 1..Len(channel[v]) : \A q \in channel[v][i].covers :
          ex'[q].by = ex[q].by /\ (ex[q].work = "finished" => ex'[q].work = "finished")
    BY <1>8, <2>1
  <2> QED BY <1>1, <1>2, <2>2 DEF Channels
<1>13. Tickets(ex, ticket, up, channel)'
  <2> SUFFICES ASSUME NEW q \in Exchange, ticket[q] \in {"out", "finished"}, ex[q].work # "none"
               PROVE  \/ up[ex[q].by] = "dead"
                      \/ /\ up[ex[q].by] = "up"
                         /\ \/ ex'[q].work = "handled"
                            \/ q \in flush'[ex[q].by].next \cup flush'[ex[q].by].covers
                            \/ \E i \in 1..Len(channel[ex[q].by]) :
                                 q \in channel[ex[q].by][i].covers
    BY <1>2, <1>8 DEF Tickets
  <2>1. CASE q = r
    BY <1>2, <1>7, <1>9, <2>1
  <2>2. CASE q # r
    <3>1. ex'[q] = ex[q] /\ ex[q].by \in Worker
      BY <1>1, <1>8, <2>2 DEF Shape
    <3>2. flush[ex[q].by].next \cup flush[ex[q].by].covers
            \subseteq flush'[ex[q].by].next \cup flush'[ex[q].by].covers
      BY <1>7, <3>1
    <3>3. \/ up[ex[q].by] = "dead"
          \/ /\ up[ex[q].by] = "up"
             /\ \/ ex[q].work = "handled"
                \/ q \in flush[ex[q].by].next \cup flush[ex[q].by].covers
                \/ \E i \in 1..Len(channel[ex[q].by]) : q \in channel[ex[q].by][i].covers
      BY <1>1, Zenon DEF Tickets
    <3> QED BY <3>1, <3>2, <3>3
  <2> QED BY <2>1, <2>2
<1>14. Syncs(ex)' /\ Wants(ex, current, writesAt)' /\ Generations(gen, writesAt)'
  BY <1>1, <1>2, <1>8 DEF Syncs, Wants, Generations
<1>15. Announcements(gen, ex, channel, forgone)'
  <2>1. \A v \in Worker : flush'[v].untold = flush[v].untold
    BY <1>7
  <2> QED BY <1>1, <1>2, <1>8, <2>1 DEF Announcements
<1>16. Looked(gen, ex, forgone)'
  <2>1. {q \in Exchange : ex'[q].stage # "new"} = {q \in Exchange : ex[q].stage # "new"}
    BY <1>8
  <2>2. OfFront(ex)' = OfFront(ex)
    BY <1>2, <1>8 DEF OfFront
  <2> QED BY <1>1, <1>2, <2>1, <2>2 DEF Looked
<1>17. Settled(gen, ex, ticket, up, forgone)' /\ Deaths(ex, up, forgone)'
  BY <1>1, <1>2, <1>8 DEF Settled, Deaths
<1>18. Knows(gen, current, forgone)' /\ Rounds(gen, writesAt, channel, forgone)'
  BY <1>1, <1>2 DEF Knows, Rounds
<1>19. Reads(gen, ex, ticket, forgone)'
  <2>1. \A s \in Exchange : ex[s].owed \subseteq Exchange
    BY <1>3 DEF ExchangeSet
  <2>2. ASSUME NEW s \in Exchange, Gets(gen, s, ex, ticket, forgone)
        PROVE  Gets(gen, s, ex, ticket, forgone)'
    BY <1>2, <1>8, <2>1, <2>2 DEF Gets, Safe
  <2>3. ASSUME NEW s \in Exchange
        PROVE  /\ \A q \in ex[s].owed : ex'[q].stage = "answered"
               /\ \/ ex[s].late \/ ex[s].by \in blind
                  \/ /\ ex[s].missed \cap ex[s].owed = {}
                     /\ ex[s].work = "none" => Gets(gen, s, ex, ticket, forgone)'
    <3>1. \A q \in ex[s].owed : ex[q].stage = "answered"
      BY <1>1 DEF Reads
    <3> QED BY <1>1, <1>8, <2>1, <2>2, <3>1 DEF Reads
  <2>4. \A s \in Exchange :
          /\ ex'[s].owed = ex[s].owed /\ ex'[s].late = ex[s].late /\ ex'[s].by = ex[s].by
          /\ ex'[s].missed = ex[s].missed /\ (ex'[s].work = "none" <=> ex[s].work = "none")
    BY <1>8
  <2>5. blind' = blind
    BY <1>2
  <2> HIDE DEF Gets
  <2> QED BY <2>3, <2>4, <2>5 DEF Reads
<1>20. PoolTypes'
  BY <1>1, <1>2, <1>7, <1>8 DEF PoolTypes
<1> QED BY <1>10, <1>11, <1>12, <1>13, <1>14, <1>15, <1>16, <1>17, <1>18, <1>19, <1>20
        DEF PoolInv, Told

LEMMA FlushStartsKept ==
  ASSUME NEW gen, PoolInv(gen), NEW w \in Worker, FlushStarts(w)
  PROVE  PoolInv(gen)'
<1>1. /\ PoolTypes /\ Shape(ex, ticket) /\ Flushes(ex, forgone)
      /\ Channels(ex, channel, forgone) /\ Tickets(ex, ticket, up, channel) /\ Syncs(ex)
      /\ Wants(ex, current, writesAt) /\ Generations(gen, writesAt)
      /\ Announcements(gen, ex, channel, forgone) /\ Looked(gen, ex, forgone)
      /\ Settled(gen, ex, ticket, up, forgone) /\ Deaths(ex, up, forgone)
      /\ Knows(gen, current, forgone) /\ Rounds(gen, writesAt, channel, forgone)
      /\ Reads(gen, ex, ticket, forgone)
  BY InvariantParts
<1>2. /\ UNCHANGED <<writesAt, current, ticket, localSeen, ex, sync, up, holds, channel, forgone,
                     blind, losses>>
      /\ fact' = [r \in Exchange |-> IF r \in OfWorker(w, "noted") THEN "flying" ELSE fact[r]]
  BY DEF FlushStarts
<1>3. /\ fact \in [Exchange -> Facts4] /\ ex \in [Exchange -> ExchangeSet]
      /\ flush \in [Worker -> FlushSet]
  BY <1>1 DEF PoolTypes
<1>4. /\ fact' \in [Exchange -> Facts4]
      /\ \A q \in Exchange :
           /\ fact'[q] = fact[q] \/ (ex[q].by = w /\ fact[q] = "noted" /\ fact'[q] = "flying")
           /\ ex[q].by = w => fact'[q] # "noted"
           /\ fact'[q] = "none" <=> fact[q] = "none"
           /\ fact'[q] = "stored" <=> fact[q] = "stored"
           /\ fact'[q] = "lost" <=> fact[q] = "lost"
  BY <1>2, <1>3 DEF OfWorker, By, Facts4
<1>5. /\ flush' \in [Worker -> FlushSet]
      /\ \A v \in Worker : /\ flush'[v].next = flush[v].next /\ flush'[v].covers = flush[v].covers
                           /\ flush'[v].untold = flush[v].untold
                           /\ v # w => flush'[v] = flush[v]
                           /\ flush'[v].state = "idle" => flush[v].state = "idle"
  <2> DEFINE d == [flush[w] EXCEPT !.running = TRUE]
             e == [d EXCEPT !.state = IF d.state = "queued" THEN "flushing" ELSE d.state]
  <2>1. flush' = [flush EXCEPT ![w] = e]
    BY <1>3 DEF FlushStarts
  <2>2. flush[w] \in FlushSet
    BY <1>3
  <2>3. /\ d \in FlushSet /\ d.next = flush[w].next /\ d.covers = flush[w].covers
        /\ d.untold = flush[w].untold /\ d.state = flush[w].state
    BY <2>2 DEF FlushSet
  <2> HIDE DEF d
  <2>4. /\ e \in FlushSet /\ e.next = d.next /\ e.covers = d.covers /\ e.untold = d.untold
        /\ e.state = "idle" => d.state = "idle"
    <3>1. PICK state \in {"idle", "queued", "flushing"} :
            state = (IF d.state = "queued" THEN "flushing" ELSE d.state)
      BY <2>3 DEF FlushSet
    <3>2. e = [d EXCEPT !.state = state]
      BY <3>1
    <3> HIDE DEF e
    <3> QED BY <2>3, <3>1, <3>2 DEF FlushSet
  <2> HIDE DEF e
  <2>5. flush'[w] = e /\ \A v \in Worker : v # w => flush'[v] = flush[v]
    BY <1>3, <2>1
  <2>6. flush' \in [Worker -> FlushSet]
    BY <1>3, <2>1, <2>4
  <2> QED BY <2>3, <2>4, <2>5, <2>6
<1>6. Shape(ex, ticket)'
  BY <1>1, <1>2, <1>4 DEF Shape
<1>7. Flushes(ex, forgone)'
  <2> SUFFICES ASSUME NEW v \in Worker
               PROVE  /\ flush'[v].state = "idle" => flush[v].covers = {}
                      /\ \A q \in flush[v].next \cup flush[v].covers :
                           ex[q].by = v /\ ex[q].work = "finished"
                      /\ flush'[v].state = "flushing" => \A q \in flush[v].covers :
                           fact'[q] \in {"none", "flying", "stored"} \/ q \in forgone
    BY <1>2, <1>5 DEF Flushes
  <2>1. flush'[v].state = "idle" => flush[v].covers = {}
    BY <1>1, <1>5 DEF Flushes
  <2>2. \A q \in flush[v].next \cup flush[v].covers :
          q \in Exchange /\ ex[q].by = v /\ ex[q].work = "finished"
    BY <1>1, CoversMeans DEF Flushes
  <2>3. CASE v = w
    <3>1. \A q \in flush[v].covers :
            /\ fact'[q] \in {"none", "flying", "stored", "lost"}
            /\ fact'[q] = "lost" => q \in forgone
      BY <1>1, <1>4, <2>2, <2>3 DEF Deaths, Facts4
    <3> QED BY <2>1, <2>2, <3>1
  <2>4. CASE v # w
    <3>1. \A q \in flush[v].covers : fact'[q] = fact[q]
      BY <1>4, <2>2, <2>4
    <3> QED BY <1>1, <1>5, <2>1, <2>2, <2>4, <3>1 DEF Flushes
  <2> QED BY <2>3, <2>4
<1>8. Channels(ex, channel, forgone)'
  <2>1. \A v \in Worker : \A i \in 1..Len(channel[v]) : channel[v][i].covers \subseteq Exchange
    BY <1>1, CoversMeans
  <2>2. \A v \in Worker : \A i \in 1..Len(channel[v]) : \A q \in channel[v][i].covers :
          fact[q] \in {"none", "stored"} => fact'[q] = fact[q]
    BY <1>4, <2>1
  <2> QED BY <1>1, <1>2, <2>2 DEF Channels
<1>9. Tickets(ex, ticket, up, channel)'
  <2>1. \A r \in Exchange : ticket[r] # "none" => ex[r].by \in Worker
    BY <1>1 DEF Shape
  <2>2. \A v \in Worker : flush'[v].next \cup flush'[v].covers = flush[v].next \cup flush[v].covers
    BY <1>5
  <2> QED BY <1>1, <1>2, <2>1, <2>2 DEF Tickets
<1>10. Syncs(ex)' /\ Wants(ex, current, writesAt)' /\ Generations(gen, writesAt)'
  BY <1>1, <1>2, <1>4 DEF Syncs, Wants, Generations
<1>11. Announcements(gen, ex, channel, forgone)'
  BY <1>1, <1>2, <1>4, <1>5 DEF Announcements
<1>12. Looked(gen, ex, forgone)'
  <2>1. OfFront(ex)' = OfFront(ex)
    BY <1>2, <1>4 DEF OfFront
  <2> QED BY <1>1, <1>2, <2>1 DEF Looked
<1>13. Settled(gen, ex, ticket, up, forgone)' /\ Deaths(ex, up, forgone)'
  BY <1>1, <1>2, <1>4 DEF Settled, Deaths
<1>14. Knows(gen, current, forgone)' /\ Rounds(gen, writesAt, channel, forgone)'
  BY <1>1, <1>2 DEF Knows, Rounds
<1>15. Reads(gen, ex, ticket, forgone)'
  <2>1. \A s \in Exchange : ex[s].owed \subseteq Exchange
    BY <1>3 DEF ExchangeSet
  <2>2. ASSUME NEW s \in Exchange, Gets(gen, s, ex, ticket, forgone)
        PROVE  Gets(gen, s, ex, ticket, forgone)'
    BY <1>2, <1>4, <2>1, <2>2 DEF Gets, Safe
  <2> QED BY <1>1, <1>2, <2>2 DEF Reads
<1>16. PoolTypes'
  BY <1>1, <1>2, <1>4, <1>5 DEF PoolTypes
<1> QED BY <1>6, <1>7, <1>8, <1>9, <1>10, <1>11, <1>12, <1>13, <1>14, <1>15, <1>16
        DEF PoolInv, Told

LEMMA AppendedMeans ==
  ASSUME PoolTypes, NEW w \in Worker, NEW m \in MessageSet,
         channel' = [channel EXCEPT ![w] = Append(channel[w], m)]
  PROVE  /\ channel' \in [Worker -> Seq(MessageSet)] /\ Len(channel[w]) \in Nat
         /\ \A v \in Worker : v # w => channel'[v] = channel[v]
         /\ Len(channel'[w]) = Len(channel[w]) + 1
         /\ channel'[w][Len(channel[w]) + 1] = m
         /\ Len(channel[w]) + 1 \in 1..Len(channel'[w])
         /\ \A v \in Worker : \A i \in 1..Len(channel[v]) :
              i \in 1..Len(channel'[v]) /\ channel'[v][i] = channel[v][i]
         /\ \A v \in Worker : \A i \in 1..Len(channel'[v]) :
              \/ i \in 1..Len(channel[v]) /\ channel'[v][i] = channel[v][i]
              \/ v = w /\ i = Len(channel[w]) + 1 /\ channel'[v][i] = m
<1>1. channel \in [Worker -> Seq(MessageSet)] /\ channel[w] \in Seq(MessageSet)
  BY DEF PoolTypes
<1>2. /\ channel' \in [Worker -> Seq(MessageSet)] /\ channel'[w] = Append(channel[w], m)
      /\ \A v \in Worker : v # w => channel'[v] = channel[v]
  BY <1>1
<1>3. /\ Len(channel[w]) \in Nat /\ Len(channel'[w]) = Len(channel[w]) + 1
      /\ channel'[w][Len(channel[w]) + 1] = m
      /\ Len(channel[w]) + 1 \in 1..Len(channel'[w])
      /\ \A i \in 1..Len(channel[w]) : i \in 1..Len(channel'[w]) /\ channel'[w][i] = channel[w][i]
  BY <1>1, <1>2
<1>4. ASSUME NEW v \in Worker, NEW i \in 1..Len(channel[v])
      PROVE  i \in 1..Len(channel'[v]) /\ channel'[v][i] = channel[v][i]
  BY <1>2, <1>3
<1>5. ASSUME NEW v \in Worker, NEW i \in 1..Len(channel'[v])
      PROVE  \/ i \in 1..Len(channel[v]) /\ channel'[v][i] = channel[v][i]
             \/ v = w /\ i = Len(channel[w]) + 1 /\ channel'[v][i] = m
  <2>1. CASE v # w
    BY <1>2, <2>1
  <2>2. CASE v = w
    <3>1. i \in 1..(Len(channel[w]) + 1)
      BY <1>3, <2>2
    <3>2. i \in 1..Len(channel[w]) \/ i = Len(channel[w]) + 1
      BY <1>3, <3>1
    <3> QED BY <1>3, <2>2, <3>2
  <2> QED BY <2>1, <2>2
<1> QED BY <1>2, <1>3, <1>4, <1>5

LEMMA FlushEndsKept ==
  ASSUME NEW gen, PoolInv(gen), NEW w \in Worker, NEW ok \in BOOLEAN, FlushEnds(w, ok)
  PROVE  PoolInv(gen)'
<1> DEFINE f == flush[w]
           flown == OfWorker(w, "flying")
           wrote == f.untold \/ (ok /\ flown # {})
           m == [kind |-> "committed", wrote |-> wrote, covers |-> f.covers, id |-> 0]
           e == [NoFlush EXCEPT !.next = f.next]
<1>1. /\ PoolTypes /\ Shape(ex, ticket) /\ Flushes(ex, forgone)
      /\ Channels(ex, channel, forgone) /\ Tickets(ex, ticket, up, channel) /\ Syncs(ex)
      /\ Wants(ex, current, writesAt) /\ Generations(gen, writesAt)
      /\ Announcements(gen, ex, channel, forgone) /\ Looked(gen, ex, forgone)
      /\ Settled(gen, ex, ticket, up, forgone) /\ Deaths(ex, up, forgone)
      /\ Knows(gen, current, forgone) /\ Rounds(gen, writesAt, channel, forgone)
      /\ Reads(gen, ex, ticket, forgone)
  BY InvariantParts
<1>2. /\ UNCHANGED <<writesAt, current, ticket, localSeen, ex, sync, up, holds, blind>>
      /\ up[w] = "up"
      /\ fact' = [r \in Exchange |-> IF r \notin flown THEN fact[r]
                                     ELSE IF ok THEN "stored" ELSE "noted"]
      /\ IF f.state = "flushing"
         THEN /\ channel' = [channel EXCEPT ![w] = Append(channel[w], m)]
              /\ flush' = [flush EXCEPT ![w] = Announcing(e)]
         ELSE /\ flush' = [flush EXCEPT ![w].running = FALSE, ![w].untold = wrote]
              /\ UNCHANGED channel
  BY DEF FlushEnds, Tells
<1>3. /\ fact \in [Exchange -> Facts4] /\ ex \in [Exchange -> ExchangeSet]
      /\ flush \in [Worker -> FlushSet] /\ f \in FlushSet /\ channel \in [Worker -> Seq(MessageSet)]
      /\ Front \notin Worker /\ forgone \in SUBSET Exchange
  BY <1>1, PoolConstants DEF PoolTypes, Front
<1>4. /\ flown \subseteq Exchange
      /\ \A q \in Exchange : q \in flown <=> ex[q].by = w /\ fact[q] = "flying"
  BY DEF OfWorker, By
<1>5. /\ losses' \in Nat /\ forgone \subseteq forgone' /\ forgone' \in SUBSET Exchange
      /\ ~ok => flown \subseteq forgone'
  <2>1. losses \in Nat
    BY <1>1 DEF PoolTypes
  <2> QED BY <1>3, <1>4, <2>1 DEF FlushEnds, Loses
<1>6. wrote \in BOOLEAN /\ (f.untold => wrote) /\ (ok /\ flown # {} => wrote)
  BY <1>3 DEF FlushSet
<1> HIDE DEF flown, wrote
<1>7. /\ fact' \in [Exchange -> Facts4]
      /\ \A q \in Exchange :
           /\ \/ fact'[q] = fact[q]
              \/ ex[q].by = w /\ fact[q] = "flying" /\ ok /\ fact'[q] = "stored" /\ q \in flown
              \/ /\ ex[q].by = w /\ fact[q] = "flying" /\ ~ok /\ fact'[q] = "noted"
                 /\ q \in forgone'
           /\ ex[q].by = w /\ fact'[q] = "flying" => FALSE
           /\ fact'[q] = "none" <=> fact[q] = "none"
           /\ fact[q] = "stored" => fact'[q] = "stored"
           /\ fact'[q] = "lost" <=> fact[q] = "lost"
           /\ ex[q].by # w => fact'[q] = fact[q]
  BY <1>2, <1>3, <1>4, <1>5 DEF Facts4
<1>8. m \in MessageSet /\ m.kind = "committed" /\ (m.wrote <=> wrote) /\ m.covers = f.covers
  <2>1. f.covers \in SUBSET Exchange
    BY <1>3 DEF FlushSet
  <2>2. m \in MessageSet
    BY <1>6, <2>1 DEF MessageSet
  <2>3. m.wrote = wrote /\ m.kind = "committed" /\ m.covers = f.covers
    OBVIOUS
  <2> QED BY <2>2, <2>3
<1>9. /\ e \in FlushSet /\ e.next = f.next /\ e.covers = {} /\ e.state = "idle" /\ e.untold = FALSE
  <2>1. f.next \in SUBSET Exchange /\ NoFlush \in FlushSet
    BY <1>3 DEF FlushSet, NoFlush
  <2> QED BY <2>1 DEF FlushSet, NoFlush
<1> HIDE DEF m, e
<1>10. /\ Announcing(e) \in FlushSet /\ Announcing(e).next \cup Announcing(e).covers = f.next
       /\ Announcing(e).state = "idle" => Announcing(e).covers = {}
       /\ Announcing(e).state # "flushing"
  <2>1. /\ Announcing(e).next \cup Announcing(e).covers = e.next \cup e.covers
        /\ Announcing(e).state = "flushing" => e.state = "flushing"
    BY <1>9, AnnouncingMeans
  <2>2. /\ Announcing(e) \in FlushSet
        /\ Announcing(e).state = "idle" => Announcing(e).covers = {}
    BY <1>9, AnnouncingMeans
  <2> QED BY <1>9, <2>1, <2>2
<1>11. f.state = "flushing" =>
       /\ flush' \in [Worker -> FlushSet] /\ flush'[w] = Announcing(e)
       /\ \A v \in Worker : v # w => flush'[v] = flush[v]
       /\ channel' \in [Worker -> Seq(MessageSet)] /\ Len(channel[w]) \in Nat
       /\ \A v \in Worker : v # w => channel'[v] = channel[v]
       /\ Len(channel'[w]) = Len(channel[w]) + 1
       /\ channel'[w][Len(channel[w]) + 1] = m
       /\ Len(channel[w]) + 1 \in 1..Len(channel'[w])
  <2> SUFFICES ASSUME f.state = "flushing"
               PROVE  /\ flush' \in [Worker -> FlushSet] /\ flush'[w] = Announcing(e)
                      /\ \A v \in Worker : v # w => flush'[v] = flush[v]
                      /\ channel' \in [Worker -> Seq(MessageSet)] /\ Len(channel[w]) \in Nat
                      /\ \A v \in Worker : v # w => channel'[v] = channel[v]
                      /\ Len(channel'[w]) = Len(channel[w]) + 1
                      /\ channel'[w][Len(channel[w]) + 1] = m
                      /\ Len(channel[w]) + 1 \in 1..Len(channel'[w])
    OBVIOUS
  <2>1. /\ channel' = [channel EXCEPT ![w] = Append(channel[w], m)]
        /\ flush' = [flush EXCEPT ![w] = Announcing(e)]
    BY <1>2
  <2>2. /\ flush' \in [Worker -> FlushSet] /\ flush'[w] = Announcing(e)
        /\ \A v \in Worker : v # w => flush'[v] = flush[v]
    BY <1>3, <1>10, <2>1
  <2> HIDE DEF f
  <2>3. /\ channel' \in [Worker -> Seq(MessageSet)] /\ Len(channel[w]) \in Nat
        /\ \A v \in Worker : v # w => channel'[v] = channel[v]
        /\ Len(channel'[w]) = Len(channel[w]) + 1
        /\ channel'[w][Len(channel[w]) + 1] = m
        /\ Len(channel[w]) + 1 \in 1..Len(channel'[w])
    BY <1>1, <1>8, <2>1, AppendedMeans
  <2> QED BY <2>2, <2>3
<1>12. f.state # "flushing" =>
       /\ flush' \in [Worker -> FlushSet] /\ channel' = channel
       /\ \A v \in Worker : v # w => flush'[v] = flush[v]
       /\ flush'[w].next = f.next /\ flush'[w].covers = f.covers /\ flush'[w].state = f.state
       /\ flush'[w].untold = wrote
  <2> DEFINE b == [f EXCEPT !.running = FALSE]
             c == [b EXCEPT !.untold = wrote]
  <2>1. /\ b \in FlushSet /\ b.next = f.next /\ b.covers = f.covers /\ b.state = f.state
    BY <1>3 DEF FlushSet
  <2>2. f.state # "flushing" => flush' = [flush EXCEPT ![w] = c] /\ channel' = channel
    BY <1>2, <1>3
  <2> HIDE DEF b, f
  <2>3. /\ c \in FlushSet /\ c.next = b.next /\ c.covers = b.covers /\ c.state = b.state
        /\ c.untold = wrote
    BY <1>6, <2>1 DEF FlushSet
  <2> HIDE DEF c
  <2>4. f.state # "flushing" => /\ flush'[w] = c /\ flush' \in [Worker -> FlushSet]
                                /\ \A v \in Worker : v # w => flush'[v] = flush[v]
    BY <1>3, <2>2, <2>3
  <2> QED BY <2>1, <2>2, <2>3, <2>4
<1>13. /\ channel' \in [Worker -> Seq(MessageSet)] /\ flush' \in [Worker -> FlushSet]
       /\ \A v \in Worker : v # w => channel'[v] = channel[v] /\ flush'[v] = flush[v]
       /\ \A v \in Worker : \A i \in 1..Len(channel[v]) :
            i \in 1..Len(channel'[v]) /\ channel'[v][i] = channel[v][i]
       /\ \A v \in Worker : \A i \in 1..Len(channel'[v]) :
            \/ i \in 1..Len(channel[v]) /\ channel'[v][i] = channel[v][i]
            \/ v = w /\ f.state = "flushing" /\ i = Len(channel[w]) + 1 /\ channel'[v][i] = m
  <2>1. CASE f.state = "flushing"
    <3>1. /\ \A v \in Worker : \A i \in 1..Len(channel[v]) :
               i \in 1..Len(channel'[v]) /\ channel'[v][i] = channel[v][i]
          /\ \A v \in Worker : \A i \in 1..Len(channel'[v]) :
               \/ i \in 1..Len(channel[v]) /\ channel'[v][i] = channel[v][i]
               \/ v = w /\ i = Len(channel[w]) + 1 /\ channel'[v][i] = m
      <4>1. channel' = [channel EXCEPT ![w] = Append(channel[w], m)]
        BY <1>2, <2>1
      <4> HIDE DEF f
      <4> QED BY <1>1, <1>8, <4>1, AppendedMeans
    <3> QED BY <1>11, <2>1, <3>1
  <2>2. CASE f.state # "flushing"
    BY <1>3, <1>12, <2>2
  <2> QED BY <2>1, <2>2
<1>14. f = flush[w]
  OBVIOUS
<1> HIDE DEF f
<1>15. Shape(ex, ticket)'
  BY <1>1, <1>2, <1>7 DEF Shape
<1>16. Flushes(ex, forgone)'
  <2> SUFFICES ASSUME NEW v \in Worker
               PROVE  /\ flush'[v].state = "idle" => flush'[v].covers = {}
                      /\ \A q \in flush'[v].next \cup flush'[v].covers :
                           ex[q].by = v /\ ex[q].work = "finished"
                      /\ flush'[v].state = "flushing" => \A q \in flush'[v].covers :
                           fact'[q] \in {"none", "flying", "stored"} \/ q \in forgone'
    BY <1>2 DEF Flushes
  <2>1. \A q \in flush[v].next \cup flush[v].covers :
          q \in Exchange /\ ex[q].by = v /\ ex[q].work = "finished"
    BY <1>1, CoversMeans DEF Flushes
  <2>2. CASE v # w
    <3>1. \A q \in flush[v].covers : fact'[q] = fact[q]
      BY <1>7, <2>1, <2>2
    <3> QED BY <1>1, <1>5, <1>13, <2>2, <3>1 DEF Flushes
  <2>3. CASE v = w /\ f.state = "flushing"
    BY <1>10, <1>11, <1>14, <2>1, <2>3
  <2>4. CASE v = w /\ f.state # "flushing"
    BY <1>1, <1>12, <1>14, <2>1, <2>4 DEF Flushes
  <2> QED BY <2>2, <2>3, <2>4
<1>17. Channels(ex, channel, forgone)'
  <2> SUFFICES ASSUME NEW v \in Worker, NEW i \in 1..Len(channel'[v])
               PROVE  /\ channel'[v][i].kind = "synced" =>
                           /\ channel'[v][i].covers = {} /\ ~channel'[v][i].wrote
                           /\ channel'[v][i].id \in 1..sync[v].last
                      /\ \A q \in channel'[v][i].covers :
                           /\ ex[q].by = v /\ ex[q].work = "finished"
                           /\ fact'[q] \in {"none", "stored"} \/ q \in forgone'
    BY <1>2 DEF Channels
  <2>1. CASE i \in 1..Len(channel[v]) /\ channel'[v][i] = channel[v][i]
    <3>1. channel[v][i].covers \subseteq Exchange
      BY <1>1, <2>1, CoversMeans
    <3>2. \A q \in channel[v][i].covers : fact[q] \in {"none", "stored"} => fact'[q] = fact[q]
      BY <1>7, <3>1
    <3> QED BY <1>1, <1>5, <2>1, <3>2 DEF Channels
  <2>2. CASE v = w /\ f.state = "flushing" /\ channel'[v][i] = m
    <3>1. \A q \in f.covers : /\ q \in Exchange /\ ex[q].by = w /\ ex[q].work = "finished"
                              /\ fact[q] \in {"none", "flying", "stored"} \/ q \in forgone
      BY <1>1, <1>14, <2>2, CoversMeans DEF Flushes
    <3>2. \A q \in f.covers : fact'[q] \in {"none", "stored"} \/ q \in forgone'
      BY <1>5, <1>7, <3>1
    <3> QED BY <1>8, <2>2, <3>1, <3>2
  <2> QED BY <1>13, <2>1, <2>2
<1>18. Tickets(ex, ticket, up, channel)'
  <2> SUFFICES ASSUME NEW q \in Exchange, ticket[q] \in {"out", "finished"}, ex[q].work # "none"
               PROVE  \/ up[ex[q].by] = "dead"
                      \/ /\ up[ex[q].by] = "up"
                         /\ \/ ex[q].work = "handled"
                            \/ q \in flush'[ex[q].by].next \cup flush'[ex[q].by].covers
                            \/ \E i \in 1..Len(channel'[ex[q].by]) :
                                 q \in channel'[ex[q].by][i].covers
    BY <1>2 DEF Tickets
  <2>1. ex[q].by \in Worker
    BY <1>1 DEF Shape
  <2>2. \/ up[ex[q].by] = "dead"
        \/ /\ up[ex[q].by] = "up"
           /\ \/ ex[q].work = "handled"
              \/ q \in flush[ex[q].by].next \cup flush[ex[q].by].covers
              \/ \E i \in 1..Len(channel[ex[q].by]) : q \in channel[ex[q].by][i].covers
    BY <1>1, Zenon DEF Tickets
  <2>3. (\E i \in 1..Len(channel[ex[q].by]) : q \in channel[ex[q].by][i].covers) =>
          \E i \in 1..Len(channel'[ex[q].by]) : q \in channel'[ex[q].by][i].covers
    BY <1>13, <2>1
  <2>4. ASSUME q \in flush[ex[q].by].next \cup flush[ex[q].by].covers
        PROVE  \/ q \in flush'[ex[q].by].next \cup flush'[ex[q].by].covers
               \/ \E i \in 1..Len(channel'[ex[q].by]) : q \in channel'[ex[q].by][i].covers
    <3>1. CASE ex[q].by # w
      BY <1>13, <2>1, <2>4, <3>1
    <3>2. CASE ex[q].by = w /\ f.state = "flushing"
      BY <1>8, <1>10, <1>11, <1>14, <2>4, <3>2
    <3>3. CASE ex[q].by = w /\ f.state # "flushing"
      BY <1>12, <1>14, <2>4, <3>3
    <3> QED BY <3>1, <3>2, <3>3
  <2> QED BY <2>2, <2>3, <2>4
<1>19. Syncs(ex)' /\ Wants(ex, current, writesAt)' /\ Generations(gen, writesAt)'
  BY <1>1, <1>2, <1>7 DEF Syncs, Wants, Generations
<1>20. Announcements(gen, ex, channel, forgone)'
  <2> SUFFICES ASSUME NEW q \in Exchange, NEW v \in Worker, ex[q].by = v, fact'[q] = "stored",
                      q \notin forgone', gen[q] = 0
               PROVE  \/ \E i \in 1..Len(channel'[v]) :
                           /\ channel'[v][i].wrote
                           /\ \A j \in 1..Len(channel'[v]) : q \in channel'[v][j].covers => i <= j
                      \/ /\ flush'[v].untold
                         /\ \A j \in 1..Len(channel'[v]) : q \notin channel'[v][j].covers
    BY <1>2 DEF Announcements
  <2>1. q \notin forgone
    BY <1>5
  <2>2. CASE v # w
    <3>1. fact[q] = "stored" /\ channel'[v] = channel[v] /\ flush'[v] = flush[v]
      BY <1>7, <1>13, <2>2
    <3> QED BY <1>1, <2>1, <3>1 DEF Announcements
  <2>3. ASSUME v = w, NEW i \in 1..Len(channel[v]), channel[v][i].wrote,
               \A j \in 1..Len(channel[v]) : q \in channel[v][j].covers => i <= j
        PROVE  \E k \in 1..Len(channel'[v]) :
                           /\ channel'[v][k].wrote
                           /\ \A j \in 1..Len(channel'[v]) : q \in channel'[v][j].covers => k <= j
    <3>1. i \in 1..Len(channel'[v]) /\ channel'[v][i].wrote
      BY <1>13, <2>3
    <3>2. ASSUME NEW j \in 1..Len(channel'[v]), q \in channel'[v][j].covers PROVE i <= j
      <4>1. CASE j \in 1..Len(channel[v]) /\ channel'[v][j] = channel[v][j]
        BY <2>3, <3>2, <4>1
      <4>2. CASE j = Len(channel[w]) + 1
        <5>1. Len(channel[w]) \in Nat /\ i \in 1..Len(channel[w])
          BY <1>3, <2>3
        <5> QED BY <4>2, <5>1
      <4> QED BY <1>13, <4>1, <4>2
    <3> QED BY <3>1, <3>2
  <2>4. ASSUME v = w, wrote, \A j \in 1..Len(channel[v]) : q \notin channel[v][j].covers
        PROVE  \/ \E k \in 1..Len(channel'[v]) :
                           /\ channel'[v][k].wrote
                           /\ \A j \in 1..Len(channel'[v]) : q \in channel'[v][j].covers => k <= j
               \/ /\ flush'[v].untold
                  /\ \A j \in 1..Len(channel'[v]) : q \notin channel'[v][j].covers
    <3>1. CASE f.state = "flushing"
      <4>1. Len(channel[w]) + 1 \in 1..Len(channel'[v]) /\ channel'[v][Len(channel[w]) + 1].wrote
        BY <1>8, <1>11, <2>4, <3>1
      <4>2. ASSUME NEW j \in 1..Len(channel'[v]), q \in channel'[v][j].covers
            PROVE  Len(channel[w]) + 1 <= j
        <5>1. j = Len(channel[w]) + 1
          BY <1>13, <2>4, <4>2
        <5> QED BY <1>11, <3>1, <5>1
      <4> QED BY <4>1, <4>2
    <3>2. CASE f.state # "flushing"
      BY <1>12, <2>4, <3>2
    <3> QED BY <3>1, <3>2
  <2>5. CASE v = w /\ fact[q] = "stored"
    <3>1. \/ \E i \in 1..Len(channel[v]) :
               /\ channel[v][i].wrote
               /\ \A j \in 1..Len(channel[v]) : q \in channel[v][j].covers => i <= j
          \/ flush[v].untold /\ \A j \in 1..Len(channel[v]) : q \notin channel[v][j].covers
      BY <1>1, <2>1, <2>5 DEF Announcements
    <3>2. flush[v].untold => wrote
      BY <1>6, <1>14, <2>5
    <3> QED BY <2>3, <2>4, <2>5, <3>1, <3>2
  <2>6. CASE v = w /\ fact[q] # "stored"
    <3>1. fact[q] = "flying" /\ wrote
      BY <1>6, <1>7, <2>6
    <3>2. \A j \in 1..Len(channel[v]) : q \notin channel[v][j].covers
      BY <1>1, <2>1, <3>1 DEF Channels
    <3> QED BY <2>4, <2>6, <3>1, <3>2
  <2> QED BY <2>2, <2>5, <2>6
<1>21. Looked(gen, ex, forgone)'
  <2>1. OfFront(ex)' = OfFront(ex)
    BY <1>2, <1>3, <1>7 DEF OfFront
  <2> QED BY <1>1, <1>2, <1>5, <2>1 DEF Looked
<1>22. Settled(gen, ex, ticket, up, forgone)' /\ Deaths(ex, up, forgone)'
  BY <1>1, <1>2, <1>5, <1>7 DEF Settled, Deaths
<1>23. Knows(gen, current, forgone)'
  BY <1>1, <1>2, <1>5 DEF Knows
<1>24. Rounds(gen, writesAt, channel, forgone)'
  <2>1. ASSUME NEW v \in Worker, v \notin blind, NEW i \in 1..Len(channel'[v]),
               channel'[v][i].kind = "synced", channel'[v][i].id = sync[v].id,
               NEW q \in Exchange, gen[q] \in 1..sync[v].wanted
        PROVE  q \in holds[v] \cup forgone
    <3>1. i \in 1..Len(channel[v]) /\ channel'[v][i] = channel[v][i]
      BY <1>8, <1>13, <2>1
    <3> QED BY <1>1, <2>1, <3>1 DEF Rounds
  <2> QED BY <1>1, <1>2, <1>5, <2>1 DEF Rounds
<1>25. Reads(gen, ex, ticket, forgone)'
  <2>1. \A s \in Exchange : ex[s].owed \subseteq Exchange
    BY <1>3 DEF ExchangeSet
  <2>2. \A q \in Exchange : \A p : Safe(q, p, forgone) => Safe(q, p, forgone)'
    BY <1>2, <1>5, <1>7 DEF Safe
  <2>3. \A s \in Exchange : \A q \in ex[s].owed : fact[q] = "stored" => fact'[q] = "stored"
    BY <1>7, <2>1
  <2>4. ASSUME NEW s \in Exchange, Gets(gen, s, ex, ticket, forgone)
        PROVE  Gets(gen, s, ex, ticket, forgone)'
    BY <1>2, <2>1, <2>2, <2>3, <2>4 DEF Gets
  <2> QED BY <1>1, <1>2, <2>4 DEF Reads
<1>26. PoolTypes'
  BY <1>1, <1>2, <1>5, <1>7, <1>13 DEF PoolTypes
<1> QED BY <1>15, <1>16, <1>17, <1>18, <1>19, <1>20, <1>21, <1>22, <1>23, <1>24, <1>25, <1>26
        DEF PoolInv, Told

-----------------------------------------------------------------------------
(* A worker catches up, or dies.                                           *)

LEMMA MinOfNats ==
  ASSUME NEW S \in SUBSET Nat, S # {}
  PROVE  Min(S) \in S
<1>1. PICK m \in S : \A x \in S : <<x, m>> \notin OpToRel(<, Nat)
  BY NatLessThanWellFounded, WFMin
<1>2. ASSUME NEW x \in S PROVE m <= x
  <2>1. x \in Nat /\ m \in Nat /\ <<x, m>> \in Nat \X Nat
    OBVIOUS
  <2>2. ~(x < m)
    BY <2>1, <1>1, Zenon DEF OpToRel
  <2> QED BY <2>1, <2>2
<1> QED BY <1>1, <1>2 DEF Min

LEMMA AskedMeans ==
  ASSUME NEW s \in RoundSet, NEW asked \in SUBSET Nat
  PROVE  LET t == [s EXCEPT !.asked = asked]
         IN  /\ t \in RoundSet /\ t.id = s.id /\ t.wanted = s.wanted /\ t.queued = s.queued
             /\ t.last = s.last /\ t.asked = asked
BY DEF RoundSet

LEMMA HandleSyncKept ==
  ASSUME NEW gen, PoolInv(gen), NEW w \in Worker, HandleSync(w)
  PROVE  PoolInv(gen)'
<1>1. /\ PoolTypes /\ Shape(ex, ticket) /\ Flushes(ex, forgone)
      /\ Channels(ex, channel, forgone) /\ Tickets(ex, ticket, up, channel) /\ Syncs(ex)
      /\ Wants(ex, current, writesAt) /\ Generations(gen, writesAt)
      /\ Announcements(gen, ex, channel, forgone) /\ Looked(gen, ex, forgone)
      /\ Settled(gen, ex, ticket, up, forgone) /\ Deaths(ex, up, forgone)
      /\ Knows(gen, current, forgone) /\ Rounds(gen, writesAt, channel, forgone)
      /\ Reads(gen, ex, ticket, forgone)
  BY InvariantParts
<1>2. /\ UNCHANGED <<writesAt, current, ticket, localSeen, ex, up, fact, flush, forgone>>
      /\ sync[w].asked # {}
  BY DEF HandleSync
<1>3. /\ sync \in [Worker -> RoundSet] /\ ex \in [Exchange -> ExchangeSet]
      /\ holds \in [Worker \cup {Front} -> SUBSET Exchange] /\ fact \in [Exchange -> Facts4]
      /\ blind \in SUBSET Worker /\ losses \in Nat
  BY <1>1 DEF PoolTypes
<1>4. PICK id : id = Min(sync[w].asked)
  OBVIOUS
<1>5. /\ sync' = [sync EXCEPT ![w].asked = sync[w].asked \ {id}]
      /\ channel' = [channel EXCEPT ![w] = Append(channel[w],
                        [kind |-> "synced", wrote |-> FALSE, covers |-> {}, id |-> id])]
      /\ \/ holds' = [holds EXCEPT ![w] = holds[w] \cup Stored] /\ UNCHANGED <<blind, losses>>
         \/ blind' = blind \cup {w} /\ losses' = losses + 1 /\ UNCHANGED holds
  BY <1>4 DEF HandleSync, Tells, Loses
<1>6. /\ sync[w] \in RoundSet /\ sync[w].last \in Nat /\ sync[w].asked \in SUBSET Nat
      /\ id \in 1..sync[w].last
  <2>1. sync[w] \in RoundSet /\ sync[w].last \in Nat /\ sync[w].asked \in SUBSET Nat
    BY <1>3 DEF RoundSet
  <2>2. id \in sync[w].asked /\ sync[w].asked \subseteq 1..sync[w].last
    BY <1>1, <1>2, <1>4, <2>1, MinOfNats DEF Rounds
  <2> QED BY <2>1, <2>2
<1>7. PICK m : m = [kind |-> "synced", wrote |-> FALSE, covers |-> {}, id |-> id]
  OBVIOUS
<1>8. /\ m \in MessageSet /\ m.kind = "synced" /\ ~m.wrote /\ m.covers = {} /\ m.id = id
  BY <1>6, <1>7 DEF MessageSet
<1>9. /\ channel' \in [Worker -> Seq(MessageSet)] /\ Len(channel[w]) \in Nat
      /\ \A v \in Worker : v # w => channel'[v] = channel[v]
      /\ \A v \in Worker : \A i \in 1..Len(channel[v]) :
           i \in 1..Len(channel'[v]) /\ channel'[v][i] = channel[v][i]
      /\ \A v \in Worker : \A i \in 1..Len(channel'[v]) :
           \/ i \in 1..Len(channel[v]) /\ channel'[v][i] = channel[v][i]
           \/ v = w /\ i = Len(channel[w]) + 1 /\ channel'[v][i] = m
  <2>1. channel' = [channel EXCEPT ![w] = Append(channel[w], m)]
    BY <1>5, <1>7
  <2>2. PoolTypes /\ m \in MessageSet
    BY <1>1, <1>8
  <2> QED BY <2>1, <2>2, AppendedMeans, ZenonT(30)
<1>10. /\ sync' \in [Worker -> RoundSet]
       /\ \A v \in Worker :
            /\ sync'[v].id = sync[v].id /\ sync'[v].wanted = sync[v].wanted
            /\ sync'[v].queued = sync[v].queued /\ sync'[v].last = sync[v].last
            /\ sync'[v].asked \subseteq sync[v].asked
  <2> DEFINE t == [sync[w] EXCEPT !.asked = sync[w].asked \ {id}]
  <2>1. sync' = [sync EXCEPT ![w] = t]
    BY <1>3, <1>5
  <2>2. /\ t \in RoundSet /\ t.id = sync[w].id /\ t.wanted = sync[w].wanted
        /\ t.queued = sync[w].queued /\ t.last = sync[w].last
        /\ t.asked = sync[w].asked \ {id}
    <3>1. sync[w].asked \ {id} \in SUBSET Nat
      BY <1>6
    <3> QED BY <1>6, <3>1, AskedMeans
  <2> HIDE DEF t
  <2> QED BY <1>3, <2>1, <2>2
<1>11. /\ holds' \in [Worker \cup {Front} -> SUBSET Exchange] /\ blind' \in SUBSET Worker
       /\ losses' \in Nat /\ blind \subseteq blind'
       /\ \A p \in Worker \cup {Front} : holds[p] \subseteq holds'[p]
       /\ w \notin blind' => Stored \subseteq holds'[w]
  <2>1. Stored \in SUBSET Exchange
    BY DEF Stored
  <2> QED BY <1>3, <1>5, <2>1
<1>12. Shape(ex, ticket)'
  <2>1. \A r \in Exchange : ex[r].by \in Worker \cup {Front}
    BY <1>3 DEF ExchangeSet
  <2> QED BY <1>1, <1>2, <1>11, <2>1 DEF Shape
<1>13. Flushes(ex, forgone)' /\ Wants(ex, current, writesAt)' /\ Generations(gen, writesAt)'
       /\ Looked(gen, ex, forgone)' /\ Settled(gen, ex, ticket, up, forgone)'
       /\ Deaths(ex, up, forgone)'
  BY <1>1, <1>2 DEF Flushes, Wants, Generations, Looked, OfFront, Settled, Deaths
<1>14. Channels(ex, channel, forgone)'
  <2> SUFFICES ASSUME NEW v \in Worker, NEW i \in 1..Len(channel'[v])
               PROVE  /\ channel'[v][i].kind = "synced" =>
                           /\ channel'[v][i].covers = {} /\ ~channel'[v][i].wrote
                           /\ channel'[v][i].id \in 1..sync[v].last
                      /\ \A q \in channel'[v][i].covers :
                           /\ ex[q].by = v /\ ex[q].work = "finished"
                           /\ fact[q] \in {"none", "stored"} \/ q \in forgone
    BY <1>2, <1>10 DEF Channels
  <2>1. CASE i \in 1..Len(channel[v]) /\ channel'[v][i] = channel[v][i]
    BY <1>1, <2>1 DEF Channels
  <2>2. CASE v = w /\ channel'[v][i] = m
    BY <1>6, <1>8, <2>2
  <2> QED BY <1>9, <2>1, <2>2
<1>15. Tickets(ex, ticket, up, channel)'
  <2> SUFFICES ASSUME NEW r \in Exchange, ticket[r] \in {"out", "finished"}, ex[r].work # "none",
                      NEW i \in 1..Len(channel[ex[r].by]), r \in channel[ex[r].by][i].covers
               PROVE  \E j \in 1..Len(channel'[ex[r].by]) : r \in channel'[ex[r].by][j].covers
    BY <1>1, <1>2 DEF Tickets
  <2>1. ex[r].by \in Worker
    BY <1>1 DEF Shape
  <2> QED BY <1>9, <2>1
<1>16. Syncs(ex)'
  <2>1. \A r \in Exchange : ex[r].stage = "syncing" => ex[r].by \in Worker
    BY <1>1 DEF Shape
  <2> QED BY <1>1, <1>2, <1>10, <2>1 DEF Syncs
<1>17. Announcements(gen, ex, channel, forgone)'
  <2> SUFFICES ASSUME NEW q \in Exchange, NEW v \in Worker, ex[q].by = v, fact[q] = "stored",
                      q \notin forgone, gen[q] = 0
               PROVE  \/ \E i \in 1..Len(channel'[v]) :
                           /\ channel'[v][i].wrote
                           /\ \A j \in 1..Len(channel'[v]) : q \in channel'[v][j].covers => i <= j
                      \/ /\ flush[v].untold
                         /\ \A j \in 1..Len(channel'[v]) : q \notin channel'[v][j].covers
    BY <1>2 DEF Announcements
  <2>1. \A j \in 1..Len(channel'[v]) : q \in channel'[v][j].covers =>
          j \in 1..Len(channel[v]) /\ q \in channel[v][j].covers
    BY <1>8, <1>9
  <2>2. CASE flush[v].untold /\ \A j \in 1..Len(channel[v]) : q \notin channel[v][j].covers
    BY <2>1, <2>2
  <2>3. ASSUME NEW i \in 1..Len(channel[v]), channel[v][i].wrote,
               \A j \in 1..Len(channel[v]) : q \in channel[v][j].covers => i <= j
        PROVE  \E k \in 1..Len(channel'[v]) :
                           /\ channel'[v][k].wrote
                           /\ \A j \in 1..Len(channel'[v]) : q \in channel'[v][j].covers => k <= j
    <3>1. i \in 1..Len(channel'[v]) /\ channel'[v][i].wrote
      BY <1>9, <2>3
    <3> QED BY <2>1, <2>3, <3>1
  <2> QED BY <1>1, <2>2, <2>3 DEF Announcements
<1>18. Knows(gen, current, forgone)'
  BY <1>1, <1>2, <1>11 DEF Knows
<1>19. Rounds(gen, writesAt, channel, forgone)'
  <2>1. ASSUME NEW v \in Worker, v \notin blind', NEW i \in 1..Len(channel'[v]),
               channel'[v][i].kind = "synced", channel'[v][i].id = sync[v].id,
               NEW q \in Exchange, gen[q] \in 1..sync[v].wanted
        PROVE  q \in holds'[v] \cup forgone
    <3>1. CASE i \in 1..Len(channel[v]) /\ channel'[v][i] = channel[v][i]
      <4>1. q \in holds[v] \cup forgone
        BY <1>1, <1>11, <2>1, <3>1 DEF Rounds
      <4> QED BY <1>11, <4>1
    <3>2. CASE v = w
      <4>1. fact[q] = "stored"
        BY <1>1, <2>1 DEF Generations
      <4> QED BY <1>11, <2>1, <3>2, <4>1 DEF Stored
    <3> QED BY <1>9, <3>1, <3>2
  <2>2. \A v \in Worker :
          /\ sync'[v].id <= sync'[v].last
          /\ sync'[v].wanted <= writesAt /\ sync'[v].queued <= writesAt
          /\ sync'[v].asked \subseteq 1..sync'[v].last
          /\ sync'[v].queued > 0 => sync'[v].wanted < sync'[v].queued
          /\ sync'[v].id = 0 => sync'[v].queued = 0
    <3> SUFFICES ASSUME NEW v \in Worker
                 PROVE  /\ sync'[v].id <= sync'[v].last
                        /\ sync'[v].wanted <= writesAt /\ sync'[v].queued <= writesAt
                        /\ sync'[v].asked \subseteq 1..sync'[v].last
                        /\ sync'[v].queued > 0 => sync'[v].wanted < sync'[v].queued
                        /\ sync'[v].id = 0 => sync'[v].queued = 0
      OBVIOUS
    <3>1. /\ sync[v].id <= sync[v].last
          /\ sync[v].wanted <= writesAt /\ sync[v].queued <= writesAt
          /\ sync[v].asked \subseteq 1..sync[v].last
          /\ sync[v].queued > 0 => sync[v].wanted < sync[v].queued
          /\ sync[v].id = 0 => sync[v].queued = 0
      BY <1>1 DEF Rounds
    <3>2. /\ sync'[v].id = sync[v].id /\ sync'[v].wanted = sync[v].wanted
          /\ sync'[v].queued = sync[v].queued /\ sync'[v].last = sync[v].last
          /\ sync'[v].asked \subseteq sync[v].asked
      BY <1>10
    <3>3. sync'[v].asked \subseteq 1..sync'[v].last
      BY <3>1, <3>2
    <3> QED BY <3>1, <3>2, <3>3
  <2> QED BY <1>2, <1>10, <2>1, <2>2 DEF Rounds
<1>20. Reads(gen, ex, ticket, forgone)'
  <2>1. \A s \in Exchange : ex[s].owed \subseteq Exchange /\ ex[s].by \in Worker \cup {Front}
    BY <1>3 DEF ExchangeSet
  <2>2. \A q \in Exchange, p \in Worker \cup {Front} :
          Safe(q, p, forgone) => Safe(q, p, forgone)'
    BY <1>2, <1>11 DEF Safe
  <2>3. ASSUME NEW s \in Exchange, Gets(gen, s, ex, ticket, forgone)
        PROVE  Gets(gen, s, ex, ticket, forgone)'
    BY <1>2, <2>1, <2>2, <2>3 DEF Gets
  <2> QED BY <1>1, <1>2, <1>11, <2>3 DEF Reads
<1>21. PoolTypes'
  BY <1>1, <1>2, <1>9, <1>10, <1>11 DEF PoolTypes
<1> QED BY <1>12, <1>13, <1>14, <1>15, <1>16, <1>17, <1>18, <1>19, <1>20, <1>21
        DEF PoolInv, Told

LEMMA WorkerDiesKept ==
  ASSUME NEW gen, PoolInv(gen), NEW w \in Worker, WorkerDies(w)
  PROVE  PoolInv(gen)'
<1>1. /\ PoolTypes /\ Shape(ex, ticket) /\ Flushes(ex, forgone)
      /\ Channels(ex, channel, forgone) /\ Tickets(ex, ticket, up, channel) /\ Syncs(ex)
      /\ Wants(ex, current, writesAt) /\ Generations(gen, writesAt)
      /\ Announcements(gen, ex, channel, forgone) /\ Looked(gen, ex, forgone)
      /\ Settled(gen, ex, ticket, up, forgone) /\ Deaths(ex, up, forgone)
      /\ Knows(gen, current, forgone) /\ Rounds(gen, writesAt, channel, forgone)
      /\ Reads(gen, ex, ticket, forgone)
  BY InvariantParts
<1>2. /\ UNCHANGED <<writesAt, current, ticket, localSeen, ex, holds, channel, blind>>
      /\ up' = [up EXCEPT ![w] = "dead"] /\ losses' = losses + 1
      /\ forgone' = forgone \cup {r \in Exchange : ex[r].by = w}
      /\ flush' = [flush EXCEPT ![w] = NoFlush]
      /\ sync' = [sync EXCEPT ![w].asked = {}]
  BY DEF WorkerDies, By, Loses
<1>3. /\ sync \in [Worker -> RoundSet] /\ ex \in [Exchange -> ExchangeSet]
      /\ up \in [Worker -> {"up", "dead", "reaped"}] /\ flush \in [Worker -> FlushSet]
      /\ fact \in [Exchange -> Facts4] /\ Front \notin Worker
      /\ forgone \in SUBSET Exchange /\ losses \in Nat
  BY <1>1, PoolConstants DEF PoolTypes, Front
<1>4. /\ fact' \in [Exchange -> Facts4]
      /\ \A q \in Exchange : /\ ex[q].by # w => fact'[q] = fact[q]
                             /\ fact'[q] = "none" <=> fact[q] = "none"
                             /\ fact[q] = "stored" => fact'[q] = "stored"
                             /\ fact'[q] = "lost" => fact[q] = "lost" \/ ex[q].by = w
  <2>1. PICK flown \in {"stored", "lost"} :
          fact' = [r \in Exchange |-> IF r \in OfWorker(w, "noted") THEN "lost"
                                      ELSE IF r \in OfWorker(w, "flying") THEN flown ELSE fact[r]]
    BY DEF WorkerDies
  <2> QED BY <1>3, <2>1 DEF OfWorker, By, Facts4
<1>5. /\ forgone' \in SUBSET Exchange /\ forgone \subseteq forgone'
      /\ \A q \in Exchange : ex[q].by = w => q \in forgone'
  BY <1>2, <1>3
<1>6. /\ up' \in [Worker -> {"up", "dead", "reaped"}] /\ up'[w] = "dead"
      /\ \A v \in Worker : v # w => up'[v] = up[v]
  BY <1>2, <1>3
<1>7. /\ flush' \in [Worker -> FlushSet] /\ flush'[w] = NoFlush
      /\ \A v \in Worker : v # w => flush'[v] = flush[v]
  <2>1. NoFlush \in FlushSet
    BY DEF NoFlush, FlushSet
  <2> QED BY <1>2, <1>3, <2>1
<1>8. /\ sync' \in [Worker -> RoundSet]
      /\ \A v \in Worker :
           /\ sync'[v].id = sync[v].id /\ sync'[v].wanted = sync[v].wanted
           /\ sync'[v].queued = sync[v].queued /\ sync'[v].last = sync[v].last
           /\ sync'[v].asked \subseteq sync[v].asked
  <2> DEFINE t == [sync[w] EXCEPT !.asked = {}]
  <2>1. sync' = [sync EXCEPT ![w] = t]
    BY <1>2, <1>3
  <2>2. /\ t \in RoundSet /\ t.id = sync[w].id /\ t.wanted = sync[w].wanted
        /\ t.queued = sync[w].queued /\ t.last = sync[w].last /\ t.asked = {}
    <3>1. sync[w] \in RoundSet /\ {} \in SUBSET Nat
      BY <1>3
    <3> QED BY <3>1, AskedMeans
  <2> HIDE DEF t
  <2> QED BY <1>3, <2>1, <2>2
<1>9. Shape(ex, ticket)'
  BY <1>1, <1>2, <1>4 DEF Shape
<1>10. Flushes(ex, forgone)'
  <2> SUFFICES ASSUME NEW v \in Worker
               PROVE  /\ flush'[v].state = "idle" => flush'[v].covers = {}
                      /\ \A q \in flush'[v].next \cup flush'[v].covers :
                           ex[q].by = v /\ ex[q].work = "finished"
                      /\ flush'[v].state = "flushing" => \A q \in flush'[v].covers :
                           fact'[q] \in {"none", "flying", "stored"} \/ q \in forgone'
    BY <1>2 DEF Flushes
  <2>1. CASE v = w
    BY <1>7, <2>1 DEF NoFlush
  <2>2. CASE v # w
    <3>1. \A q \in flush[v].covers : fact'[q] = fact[q]
      BY <1>1, <1>4, <2>2, CoversMeans DEF Flushes
    <3> QED BY <1>1, <1>5, <1>7, <2>2, <3>1 DEF Flushes
  <2> QED BY <2>1, <2>2
<1>11. Channels(ex, channel, forgone)'
  <2> SUFFICES ASSUME NEW v \in Worker, NEW i \in 1..Len(channel[v])
               PROVE  /\ channel[v][i].kind = "synced" =>
                           /\ channel[v][i].covers = {} /\ ~channel[v][i].wrote
                           /\ channel[v][i].id \in 1..sync[v].last
                      /\ \A q \in channel[v][i].covers :
                           /\ ex[q].by = v /\ ex[q].work = "finished"
                           /\ fact'[q] \in {"none", "stored"} \/ q \in forgone'
    BY <1>2, <1>8 DEF Channels
  <2>1. channel[v][i].covers \subseteq Exchange
    BY <1>1, CoversMeans
  <2>2. \A q \in channel[v][i].covers : fact'[q] = fact[q] \/ q \in forgone'
    BY <1>4, <1>5, <2>1
  <2> QED BY <1>1, <1>5, <2>2 DEF Channels
<1>12. Tickets(ex, ticket, up, channel)'
  <2> SUFFICES ASSUME NEW r \in Exchange, ticket[r] \in {"out", "finished"}, ex[r].work # "none"
               PROVE  \/ up'[ex[r].by] = "dead"
                      \/ /\ up'[ex[r].by] = "up"
                         /\ \/ ex[r].work = "handled"
                            \/ r \in flush'[ex[r].by].next \cup flush'[ex[r].by].covers
                            \/ \E i \in 1..Len(channel[ex[r].by]) :
                                 r \in channel[ex[r].by][i].covers
    BY <1>2 DEF Tickets
  <2>1. ex[r].by \in Worker
    BY <1>1 DEF Shape
  <2>2. CASE ex[r].by = w
    BY <1>6, <2>2
  <2>3. CASE ex[r].by # w
    <3>1. up'[ex[r].by] = up[ex[r].by] /\ flush'[ex[r].by] = flush[ex[r].by]
      BY <1>6, <1>7, <2>1, <2>3
    <3> QED BY <1>1, <3>1, Zenon DEF Tickets
  <2> QED BY <2>2, <2>3
<1>13. Syncs(ex)'
  <2>1. \A r \in Exchange : ex[r].stage = "syncing" => ex[r].by \in Worker
    BY <1>1 DEF Shape
  <2> QED BY <1>1, <1>2, <1>8, <2>1 DEF Syncs
<1>14. Wants(ex, current, writesAt)' /\ Generations(gen, writesAt)'
  BY <1>1, <1>2, <1>4 DEF Wants, Generations
<1>15. Announcements(gen, ex, channel, forgone)'
  <2> SUFFICES ASSUME NEW q \in Exchange, NEW v \in Worker, ex[q].by = v, fact'[q] = "stored",
                      q \notin forgone', gen[q] = 0
               PROVE  \/ \E i \in 1..Len(channel[v]) :
                           /\ channel[v][i].wrote
                           /\ \A j \in 1..Len(channel[v]) : q \in channel[v][j].covers => i <= j
                      \/ /\ flush'[v].untold
                         /\ \A j \in 1..Len(channel[v]) : q \notin channel[v][j].covers
    BY <1>2 DEF Announcements
  <2>1. v # w /\ q \notin forgone /\ fact[q] = "stored" /\ flush'[v] = flush[v]
    BY <1>4, <1>5, <1>7
  <2> QED BY <1>1, <2>1 DEF Announcements
<1>16. Looked(gen, ex, forgone)'
  <2>1. OfFront(ex)' = OfFront(ex)
    BY <1>2, <1>3, <1>4 DEF OfFront
  <2> QED BY <1>1, <1>2, <1>5, <2>1 DEF Looked
<1>17. Settled(gen, ex, ticket, up, forgone)'
  BY <1>1, <1>2, <1>4, <1>5, <1>6 DEF Settled
<1>18. Deaths(ex, up, forgone)'
  BY <1>1, <1>2, <1>4, <1>5, <1>6 DEF Deaths
<1>19. Knows(gen, current, forgone)'
  BY <1>1, <1>2, <1>5 DEF Knows
<1>20. Rounds(gen, writesAt, channel, forgone)'
  <2>1. \A v \in Worker :
          /\ sync'[v].id <= sync'[v].last
          /\ sync'[v].wanted <= writesAt /\ sync'[v].queued <= writesAt
          /\ sync'[v].asked \subseteq 1..sync'[v].last
          /\ sync'[v].queued > 0 => sync'[v].wanted < sync'[v].queued
          /\ sync'[v].id = 0 => sync'[v].queued = 0
    <3> SUFFICES ASSUME NEW v \in Worker
                 PROVE  /\ sync'[v].id <= sync'[v].last
                        /\ sync'[v].wanted <= writesAt /\ sync'[v].queued <= writesAt
                        /\ sync'[v].asked \subseteq 1..sync'[v].last
                        /\ sync'[v].queued > 0 => sync'[v].wanted < sync'[v].queued
                        /\ sync'[v].id = 0 => sync'[v].queued = 0
      OBVIOUS
    <3>1. /\ sync[v].id <= sync[v].last
          /\ sync[v].wanted <= writesAt /\ sync[v].queued <= writesAt
          /\ sync[v].asked \subseteq 1..sync[v].last
          /\ sync[v].queued > 0 => sync[v].wanted < sync[v].queued
          /\ sync[v].id = 0 => sync[v].queued = 0
      BY <1>1 DEF Rounds
    <3>2. /\ sync'[v].id = sync[v].id /\ sync'[v].wanted = sync[v].wanted
          /\ sync'[v].queued = sync[v].queued /\ sync'[v].last = sync[v].last
          /\ sync'[v].asked \subseteq sync[v].asked
      BY <1>8
    <3>3. sync'[v].asked \subseteq 1..sync'[v].last
      BY <3>1, <3>2
    <3> QED BY <3>1, <3>2, <3>3
  <2>2. ASSUME NEW v \in Worker, v \notin blind, NEW i \in 1..Len(channel[v]),
               channel[v][i].kind = "synced", channel[v][i].id = sync[v].id,
               NEW q \in Exchange, gen[q] \in 1..sync[v].wanted
        PROVE  q \in holds[v] \cup forgone'
    BY <1>1, <1>5, <2>2 DEF Rounds
  <2> QED BY <1>2, <1>8, <2>1, <2>2 DEF Rounds
<1>21. Reads(gen, ex, ticket, forgone)'
  <2>1. \A s \in Exchange : ex[s].owed \subseteq Exchange
    BY <1>3 DEF ExchangeSet
  <2>2. \A q \in Exchange : \A p : Safe(q, p, forgone) => Safe(q, p, forgone)'
    BY <1>2, <1>4, <1>5 DEF Safe
  <2>3. \A s \in Exchange : \A q \in ex[s].owed : fact[q] = "stored" => fact'[q] = "stored"
    BY <1>4, <2>1
  <2>4. ASSUME NEW s \in Exchange, Gets(gen, s, ex, ticket, forgone)
        PROVE  Gets(gen, s, ex, ticket, forgone)'
    BY <1>2, <2>1, <2>2, <2>3, <2>4 DEF Gets
  <2> QED BY <1>1, <1>2, <2>4 DEF Reads
<1>22. PoolTypes'
  <2>1. losses' \in Nat
    BY <1>2, <1>3
  <2> QED BY <1>1, <1>2, <1>4, <1>5, <1>6, <1>7, <1>8, <2>1 DEF PoolTypes
<1> QED BY <1>9, <1>10, <1>11, <1>12, <1>13, <1>14, <1>15, <1>16, <1>17, <1>18, <1>19, <1>20, <1>21,
           <1>22 DEF PoolInv, Told

-----------------------------------------------------------------------------
(* Every step, and the theorems.                                           *)

LEMMA PoolInitial ==
  ASSUME PoolInit
  PROVE  \E gen : PoolInv(gen)
<1> DEFINE gen == [q \in Exchange |-> 0]
<1>1. /\ writesAt = 0 /\ current = [w \in Worker |-> 0] /\ localSeen = -1
      /\ ticket = [r \in Exchange |-> "none"] /\ ex = [r \in Exchange |-> NewExchange]
      /\ sync = [w \in Worker |-> NoRounds] /\ up = [w \in Worker |-> "up"]
      /\ holds = [p \in Worker \cup {Front} |-> {}]
      /\ fact = [r \in Exchange |-> "none"]
      /\ flush = [w \in Worker |-> NoFlush] /\ channel = [w \in Worker |-> <<>>]
      /\ forgone = {} /\ blind = {} /\ losses = 0
  BY DEF PoolInit
<1>2. NewExchange \in ExchangeSet /\ NoRounds \in RoundSet /\ NoFlush \in FlushSet
  <2>1. NewExchange \in ExchangeSet
    BY DEF NewExchange, ExchangeSet, PoolStages
  <2>2. NoRounds \in RoundSet /\ NoFlush \in FlushSet
    BY DEF NoRounds, RoundSet, NoFlush, FlushSet
  <2> QED BY <2>1, <2>2
<1>3. PoolTypes
  <2>1. \A w \in Worker : channel[w] \in Seq(MessageSet)
    BY <1>1
  <2> QED BY <1>1, <1>2, <2>1 DEF PoolTypes, TicketStates, Facts4
<1>4. \A r \in Exchange : ex[r] = NewExchange /\ ticket[r] = "none" /\ fact[r] = "none"
  BY <1>1
<1>5. /\ NewExchange.stage = "new" /\ NewExchange.by = Front /\ NewExchange.owed = {}
      /\ NewExchange.wanted = 0 /\ NewExchange.work = "none" /\ NewExchange.missed = {}
  BY DEF NewExchange
<1>6. /\ \A r \in Exchange : /\ ex[r].stage = "new" /\ ex[r].by = Front /\ ex[r].owed = {}
                             /\ ex[r].wanted = 0 /\ ex[r].work = "none" /\ ex[r].missed = {}
      /\ \A w \in Worker : /\ Len(channel[w]) = 0 /\ current[w] = 0 /\ sync[w] = NoRounds
                           /\ flush[w] = NoFlush
      /\ Front \notin Worker
  BY <1>1, <1>4, <1>5, PoolConstants DEF Front
<1>7. Shape(ex, ticket)
  BY <1>4, <1>6 DEF Shape
<1>8. Flushes(ex, forgone) /\ Channels(ex, channel, forgone)
  BY <1>6 DEF Flushes, Channels, NoFlush
<1>9. Tickets(ex, ticket, up, channel) /\ Syncs(ex)
  BY <1>6 DEF Tickets, Syncs
<1>10. Wants(ex, current, writesAt)
  BY <1>1, <1>6 DEF Wants
<1>11. Generations(gen, writesAt) /\ Announcements(gen, ex, channel, forgone)
  BY <1>1, <1>4 DEF Generations, Announcements
<1>12. Looked(gen, ex, forgone)
  <2>1. {r \in Exchange : ex[r].stage # "new"} = {} /\ OfFront(ex) = {}
    BY <1>4, <1>6 DEF OfFront
  <2>2. IsFiniteSet({r \in Exchange : ex[r].stage # "new"}) /\ Cardinality(OfFront(ex)) = 0
    BY <2>1, FS_EmptySet
  <2> QED BY <1>1, <2>1, <2>2 DEF Looked
<1>13. Settled(gen, ex, ticket, up, forgone) /\ Deaths(ex, up, forgone)
  BY <1>4, <1>6 DEF Settled, Deaths
<1>14. Knows(gen, current, forgone)
  BY <1>6 DEF Knows
<1>15. Rounds(gen, writesAt, channel, forgone)
  <2>1. /\ NoRounds.id = 0 /\ NoRounds.wanted = 0 /\ NoRounds.queued = 0 /\ NoRounds.last = 0
        /\ NoRounds.asked = {}
    BY DEF NoRounds
  <2> QED BY <1>1, <1>6, <2>1 DEF Rounds
<1>16. Reads(gen, ex, ticket, forgone)
  BY <1>6 DEF Reads, Gets
<1>17. PoolInv(gen)
  BY <1>3, <1>7, <1>8, <1>9, <1>10, <1>11, <1>12, <1>13, <1>14, <1>15, <1>16 DEF PoolInv, Told
<1> QED BY <1>17

LEMMA PoolStep ==
  ASSUME NEW gen, PoolInv(gen), PoolNext
  PROVE  \E later : PoolInv(later)'
<1>1. ASSUME NEW r \in Exchange, NEW p \in Worker \cup {Front}, ExchangeComes(r, p)
      PROVE  \E later : PoolInv(later)'
  BY <1>1, ExchangeComesKept
<1>2. ASSUME NEW r \in Exchange,
             \/ GivesUpWaiting(r) \/ GivesUpSyncing(r) \/ AnswerEnds(r) \/ Abandoned(r)
             \/ KeptHere(r) \/ Handles(r) \/ Finishes(r)
      PROVE  \E later : PoolInv(later)'
  BY <1>2, GivesUpWaitingKept, GivesUpSyncingKept, AnswerEndsKept, AbandonedKept, KeptHereKept,
     HandlesKept, FinishesKept
<1>3. ASSUME NEW w \in Worker,
             \/ ReceiveCommitted(w) \/ ReceiveSync(w) \/ RoundTimesOut(w) \/ Reap(w)
             \/ FlushStarts(w) \/ HandleSync(w) \/ WorkerDies(w)
      PROVE  \E later : PoolInv(later)'
  BY <1>3, ReceiveCommittedKept, ReceiveSyncKept, RoundTimesOutKept, ReapKept, FlushStartsKept,
     HandleSyncKept, WorkerDiesKept
<1>4. ASSUME NEW w \in Worker, NEW ok \in BOOLEAN, FlushEnds(w, ok)
      PROVE  \E later : PoolInv(later)'
  BY <1>4, FlushEndsKept
<1>5. FrontFlushes => \E later : PoolInv(later)'
  BY FrontFlushesKept
<1> QED BY <1>1, <1>2, <1>3, <1>4, <1>5 DEF PoolNext

LEMMA PoolStutters ==
  ASSUME NEW gen, PoolInv(gen), UNCHANGED poolvars
  PROVE  PoolInv(gen)'
<1>1. /\ writesAt' = writesAt /\ current' = current /\ ticket' = ticket /\ localSeen' = localSeen
      /\ ex' = ex /\ sync' = sync /\ up' = up /\ holds' = holds /\ fact' = fact
      /\ flush' = flush /\ channel' = channel /\ forgone' = forgone /\ blind' = blind
      /\ losses' = losses
  BY DEF poolvars
<1>2. /\ PoolTypes /\ Shape(ex, ticket) /\ Flushes(ex, forgone)
      /\ Channels(ex, channel, forgone) /\ Tickets(ex, ticket, up, channel) /\ Syncs(ex)
      /\ Wants(ex, current, writesAt) /\ Generations(gen, writesAt)
      /\ Announcements(gen, ex, channel, forgone) /\ Looked(gen, ex, forgone)
      /\ Settled(gen, ex, ticket, up, forgone) /\ Deaths(ex, up, forgone)
      /\ Knows(gen, current, forgone) /\ Rounds(gen, writesAt, channel, forgone)
      /\ Reads(gen, ex, ticket, forgone)
  BY InvariantParts
<1>3. PoolTypes' /\ Shape(ex, ticket)' /\ Flushes(ex, forgone)'
  BY <1>1, <1>2 DEF PoolTypes, Shape, Flushes
<1>4. Channels(ex, channel, forgone)' /\ Tickets(ex, ticket, up, channel)'
  BY <1>1, <1>2 DEF Channels, Tickets
<1>5. Syncs(ex)' /\ Wants(ex, current, writesAt)' /\ Generations(gen, writesAt)'
      /\ Announcements(gen, ex, channel, forgone)' /\ Looked(gen, ex, forgone)'
  BY <1>1, <1>2 DEF Syncs, Wants, Generations, Announcements, Looked, OfFront
<1>6. /\ Settled(gen, ex, ticket, up, forgone)' /\ Deaths(ex, up, forgone)'
      /\ Knows(gen, current, forgone)' /\ Rounds(gen, writesAt, channel, forgone)'
  BY <1>1, <1>2 DEF Settled, Deaths, Knows, Rounds
<1>7. Reads(gen, ex, ticket, forgone)'
  BY <1>1, <1>2 DEF Reads, Gets, Safe
<1> QED BY <1>3, <1>4, <1>5, <1>6, <1>7 DEF PoolInv, Told

(* The invariant: there are generations that account for what is known.    *)
Accounted == \E gen : PoolInv(gen)

LEMMA PoolAccounted == PoolSpec => []Accounted
<1>1. PoolInit => Accounted
  BY PoolInitial DEF Accounted
<1>2. Accounted /\ [PoolNext]_poolvars => Accounted'
  <2> SUFFICES ASSUME NEW gen, PoolInv(gen), [PoolNext]_poolvars
               PROVE  Accounted'
    BY DEF Accounted
  <2>1. CASE PoolNext
    BY <2>1, PoolStep DEF Accounted
  <2>2. CASE UNCHANGED poolvars
    BY <2>2, PoolStutters DEF Accounted
  <2> QED BY <2>1, <2>2
<1> QED BY <1>1, <1>2, PTL DEF PoolSpec

(* The types of the pool: an exchange never wants, and no worker is ever   *)
(* stamped with, a generation not announced yet; a queued round wants more *)
(* than the one it waits for; and only a worker's exchange has a ticket.   *)
THEOREM PoolTyping == PoolSpec => []PoolTypeOK
<1>1. Accounted => PoolTypeOK
  <2> SUFFICES ASSUME NEW gen, PoolInv(gen)
               PROVE  PoolTypeOK
    BY DEF Accounted
  <2>1. /\ PoolTypes /\ Shape(ex, ticket) /\ Wants(ex, current, writesAt)
        /\ Rounds(gen, writesAt, channel, forgone)
    BY InvariantParts
  <2>2. Front \notin Worker
    BY PoolConstants DEF Front
  <2>3. \A r \in Exchange : /\ ex[r].stage \in PoolStages /\ ex[r].by \in Worker \cup {Front}
                            /\ ex[r].wanted <= writesAt
                            /\ ex[r].work \in {"none", "handled", "finished"}
                            /\ ticket[r] # "none" => ex[r].by # Front
    BY <2>1, <2>2 DEF PoolTypes, ExchangeSet, Shape, Wants
  <2>4. \A w \in Worker : /\ current[w] \in 0..writesAt
                          /\ up[w] \in {"up", "dead", "reaped"}
                          /\ flush[w].state \in {"idle", "queued", "flushing"}
                          /\ sync[w].queued > 0 => sync[w].wanted < sync[w].queued
    BY <2>1 DEF PoolTypes, FlushSet, Wants, Rounds
  <2> QED BY <2>1, <2>3, <2>4 DEF PoolTypes, PoolTypeOK, TicketStates, Facts4
<1> QED BY <1>1, PoolAccounted, PTL

(* Read-your-write across the pool, for any number of workers and          *)
(* exchanges: whichever process a request is sent to, it sees every write  *)
(* that a worker had answered when it came, and every one the front had    *)
(* answered and committed by then.  Not promised, and not kept: what the   *)
(* front has answered and not committed (AnsweredIsSeen).  Excepted: a     *)
(* wait of the request was given up, the write's worker died or failed to  *)
(* flush, the request's own could not catch up, or the front committed the *)
(* write before its first look (request_pool.js, dispatch, middleware and  *)
(* noteLocalWrites; request_worker.js, announceWhenCommitted, handleSync). *)
THEOREM ReadsSeeWrites == PoolSpec => []ReadYourWrite
<1>1. Accounted => ReadYourWrite
  BY InvariantParts DEF Accounted, ReadYourWrite, Reads, By
<1> QED BY <1>1, PoolAccounted, PTL

(* No ticket blocks readers for ever: what is finished is still to be      *)
(* announced by a worker that lives, or waits for a dead one to be reaped  *)
(* (ticketFinished, ticketAbandoned, reap).                                *)
THEOREM TicketsAreAnnounced == PoolSpec => []TicketsAnnounced
<1>1. Accounted => TicketsAnnounced
  <2> SUFFICES ASSUME NEW gen, PoolInv(gen), NEW r \in Exchange, ticket[r] = "finished"
               PROVE  \/ up[By(r)] = "dead"
                      \/ /\ up[By(r)] = "up"
                         /\ \/ ex[r].work = "handled"
                            \/ r \in flush[By(r)].next \cup flush[By(r)].covers
                            \/ r \in Announced(By(r))
    BY DEF Accounted, TicketsAnnounced
  <2>1. ex[r].work # "none"
    BY InvariantParts DEF Shape
  <2>2. \/ up[ex[r].by] = "dead"
        \/ /\ up[ex[r].by] = "up"
           /\ \/ ex[r].work = "handled"
              \/ r \in flush[ex[r].by].next \cup flush[ex[r].by].covers
              \/ \E i \in 1..Len(channel[ex[r].by]) : r \in channel[ex[r].by][i].covers
    <3>1. Tickets(ex, ticket, up, channel)
      BY InvariantParts
    <3>2. ticket[r] \in {"out", "finished"}
      OBVIOUS
    <3> QED BY <2>1, <3>1, <3>2, Zenon DEF Tickets
  <2>3. (\E i \in 1..Len(channel[ex[r].by]) : r \in channel[ex[r].by][i].covers) =>
          r \in Announced(ex[r].by)
    BY DEF Announced
  <2> QED BY <2>2, <2>3 DEF By
<1> QED BY <1>1, PoolAccounted, PTL
=============================================================================
