# Mock STS: specifications of the cluster

Mock STS is an identity service: one Node.js program that speaks OAuth 2.0 and
OpenID Connect, SAML, WS-Federation, WS-Trust, Kerberos, LDAP, SCIM, SPIFFE,
ACME, EST, SCEP, GNAP, OpenID4VC, Shared Signals and XACML.  Most of its source
is protocol handling: a request is validated, a document is built and signed.
What is hard to get right, and hard to test, lies under the protocols: several
nodes, each a front process with forked request workers, serve from their own
memory and share one PostgreSQL database.  These specifications are about that
part, and about the requests that depend on it most.

## 1. Inventory

"State" is what the component keeps across requests.  "Hard" says which
behaviour a test hardly reaches, "correct" what has to hold, and the last column
where it is modelled.  `PROJECT.json` lists the components again with what is
left out of each, and the hazards line by line.

| Component | State | Operations | Hard | Correct | Module |
|---|---|---|---|---|---|
| Membership, leases, fence: `cluster/cluster.js`, node and lease statements of `persistence/persistence_postgres.js` | `held` map, role, heartbeat timer; `sts_cluster_nodes`, `sts_cluster_leases` | join, heartbeat, acquire, campaign, fence a transaction, leave, fail-stop | answers out of order, stalls, expiry under a live process, shutdown while requests run, worker survival | one writer in active-passive mode, commits in the order of tenures, takeover | `Cluster`, `FencedLease` |
| Change log: `persistence/persistence_replication.js`, `sts_changes`, `sts_change_readers` | high mark, holes, low mark, the running pull; the log and the reported marks | start, pull, apply, recheck holes, read barrier, report, trim | sequence numbers become visible out of order, failures half way, trims while others start | nothing skipped, marks true, barrier kept, nothing needed is trimmed, the log stays bounded | `Replication` |
| Request barrier: `cluster/cluster_barrier.js` | write generations per request | catch up before serving, answer after the commit | both time out or fail and the request goes on | a late or failed barrier costs no single use | `Replication` (`call`), `TokenGrants` |
| Claims: `cluster/cluster_claims.js` | rows with an expiry | claim, settle, release, purge | expiry against late releases, clocks that differ, lost answers, crashes | at most one request buys something with a value | `Claims`, `OnceOnly` |
| Counters: `cluster/cluster_counters.js` and its callers | rows that only go up | advance, read; spend a factor, number a list | two nodes at one value, lost answers, answers in another order | a factor is spent once, a later list has a higher number | `Counters` |
| Directory: `persistence/persistence.js`, `directory_merge.js`, `ldap/ldap_server.js` | live entries, shadow (as last stored), journal of dirty DNs | write, flush, apply another node's row, merge, restart | a row arrives between a write and its flush, or during it | no value is lost, no entry mixes two, nodes agree | `Directory` |
| Minted state: `persistence/persistence_minted.js`, `common/realms.js` | journal of keys, rows, tombstones | write, flush, apply, restart | two flushes, a sign-out against a late upsert | rows only go forward, a committed write is in the row, the ended stays ended | `Minted` |
| Token grants: `oauth-oidc/oauth2.js`, `oauth2_bcp.js` | codes, refresh tokens, redemptions, revocations: minted rows and claims | redeem a code, refresh, detect a replay, revoke a family | two servers, late barriers, failed commits, closed sockets, crashes | one token set per use, a replay is caught | `TokenGrants` |
| Row locks of the driver | locks of a transaction | flush, change, heartbeat, acquire, join | circles of waiting transactions | none arises | `StoreLocks` |
| Shared secrets: `cluster/cluster_secrets.js` | `sts_cluster_secrets` | offer, adopt | two first starters | one value everywhere | |
| Keys: `common/keystore.js`, `pki.js`, `pki_merge.js` | sealed key sets per realm | generate, merge, rotate | two nodes create one realm's keys | no key lost | |
| Request workers: `common/request_pool.js`, `request_worker.js` | workers, tickets, read generations | dispatch, announce a commit, sync, reap | answers before announcements, deaths, waiters | what was answered is seen by the next request | `RequestPool` |
| Worker pool: `common/worker_pool.js` | workers, jobs | run, time out, reap | death with a job | each job is answered once | |
| Start and shutdown: `server.js`, `common/service_state.js` | phase | gate, restore, log, serve; drain, leave | half-started and half-stopped | nothing is served before it is restored | guards in `Cluster`, `Replication` |
| Protocols, console, portal, helpers, deployment | none of their own: their rows are entries, minted rows, claims or counters | handlers, pages, scripts | single use, ends of sessions | the stores' properties | |

How they interact.  Each process holds the whole store in memory.  A write goes
to memory, into a journal, and out in a flush: one transaction that is *fenced*
by the cluster (`persistence_postgres.js` `withTransaction`) and appends to
`sts_changes`.  Every other process pulls the log and reads what it points at.
In active-passive mode one node holds the lease `service` and serves; in
active-active mode all serve, and before a request is handled the node catches
up with the log; its answer is held until its writes have committed.  What may
happen once only (a code, a proof, a second factor) is decided by a statement
in the database, a claim or a counter, because the memories lag.

The modules follow those seams.  `Cluster` decides who may commit;
`Replication` what a process has read; `Directory` and `Minted` what a committed
row does to another process's memory; `Claims` and `Counters` what one statement
may decide; `TokenGrants` composes claims, barriers, commits and lagging
memories into whole requests.  `RequestPool` is the same question inside one
node, between its front process and its workers.

## 2. Layout

| Module | Abstract specification | Proofs | Instances |
|---|---|---|---|
| `Cluster` | `FencedLease` | `ClusterProofs` | `MCCluster` |
| `Replication` | | `ReplicationProofs` | `MCReplication` |
| `Claims` | `OnceOnly` | `GrantsProofs` | `MCGrants` |
| `TokenGrants` | | `GrantsProofs` | `MCGrants` |
| `Minted` | | `MintedProofs` | `MCStores` |
| `Counters` | | `CountersProofs` | `MCStores` |
| `StoreLocks` | | `StoreLocksProofs` | `MCStores` |
| `RequestPool` | | `RequestPoolProofs` | `MCStores` |
| `Directory` | | `DirectoryProofs` | `MCStores` |

`MCGrants` and `MCStores` hold several modules that share no variable: a
variable `part` chosen at the start says which of them a behaviour is one of,
and the other modules' variables keep their first values.  Properties of a
module hold in the other parts' initial states, so a run checks each module's
properties on that module's own behaviours.

Operators whose comment begins `mutant:` are not part of a model.  Each is a
mistake the code could plausibly contain in place of the definition that
follows it, and with it the property it is listed with fails.


## 3. The modules

### `Cluster`, `FencedLease`

One node is one container start: its id is fresh, so it never comes back.

| State | Code |
|---|---|
| `row` | `sts_cluster_nodes`: no row, unexpired, expired or left |
| `lease` | `sts_cluster_leases`: holder, token, whether unexpired; `early` marks an expiry computed before the holder's row was last renewed |
| `phase` | the front process: `standby` (joined, waits for `service`), `serving`, `leaving` (shutting down with requests open), `parting` (shutting down, never served) |
| `held` | `cluster.js`'s map of the leases it believes in, and their tokens |
| `workers`, `inherited` | request workers and the token they were forked with |
| `conn` | what is on each pooled connection: a statement sent (`ask`, `beat`), evaluated and waiting for a row lock (`take`), executed and not yet answered (`told`, `beaten`), or a transaction before (`begun`) and after (`checked`) its fence check |
| `deposed`, `tenure`, `written` | history: who exited with STS-CLUSTER-0006, whom each lease was granted to, the token of the last commit |

Statements of one process overlap on different connections, so their answers
reach it in any order: `BeatAnswered` compares an answer with the `held` map of
*now*, as `beat()` does.  `FencePassed` is `checkFence()`: membership by a plain
SELECT, leases `FOR SHARE`, which `ShareLocked` holds until `Commit` or
`Rollback`; statements that must update a locked lease row wait.
`acquireLease` is two actions, because the SELECT in its INSERT is evaluated
before the conflicting row is locked.  `withLease()` is exported and modelled;
no module of the repository calls it yet, so in the program as it stands only
the service lease fences a write, and a role (`lead()`) only decides who does a
job.

`FencedLease` is what the rest may rely on: a lease is granted to one node
after another, each grant numbered, and guarded commits carry numbers that
never decrease and name the node they were granted to.

Time is abstract: an expiry is an action, and may come at any moment for a node
row, since a process can be stalled for as long as one likes.

### `Replication`

| State | Code |
|---|---|
| `log` | `sts_changes`: a seq is open, visible ("here"), rolled back ("burnt") or trimmed |
| `seen` | what a process has in memory: the changes whose outcome it read or made |
| `highest`, `holes`, `applied` | the module's variables of those names: high mark, gaps still asked for, low mark |
| `pull`, `wake` | the pull that is running and where it is; `pendingWake` |
| `call` | read barriers: `syncNow()` |
| `reader`, `report` | `sts_change_readers` and the report in flight |
| `base`, `from`, `dropped`, `gone` | history: what was committed when the restore began, where reading started, what was given up on with a log line, whether it was declared gone |

A pull is `StartPull`, then pages (`FetchPage`, `Apply` or `ApplyFails` per
key, `PageDone`) until one is not full, then the holes (`AskHoles`, `Apply`,
`Settle`, or `NoHoles`); a query that fails ends it (`PullFails`).  A change is
a pointer to a key, and applying it reads what the key holds at that moment;
which of two writers of one key wins is a matter for `Directory` and `Minted`.
Age is abstract: a hole may expire once its transaction has ended
(`HOLE_EXPIRE_MS` is longer than any transaction), and a row is old enough to
trim if it was committed before any process that has not reported began to
restore (the retention is longer than a start).  These two assumptions are the
code's own and are what the comments at `persistence_replication.js:143` and
`:966` rest on; a process that outlasts them is declared gone (`gone`), logs
STS-STORE-0057 and is promised nothing.

One process (`Proc`) is followed; the others write, report and die as freely as
the actions let them (`OtherReports` sets any mark), which covers every number
of them as far as the followed process can tell.

### `Claims`, `OnceOnly`

| State | Code |
|---|---|
| `row[v]` | the row of `v` in `sts_cluster_claims`: the reservation and when it ends |
| `now`, `Drift` | the database's clock, and how far each process's clock is from it |
| `req[a]` | a request: at which process, presenting which value, when the value's own check was made, the lifetime asked for, when its row ends, and how far it got |

A request checks the value (`Check`), sends the claim (`Ask`), the store
answers (`ClaimOnce`, `ClaimRefused`), the answer arrives (`Claimed`) or is
lost (`StoreFails`); then the response settles the claim: kept (`Finish`),
given back (`GiveBack`, `ReleaseClaim`, `ReleaseFails`), or neither
(`EndedUnflushed`).  `PurgeClaims`, `Dies` and `Tick` come in between at any
time.  The hazard is the row that ends while its holder still works, or while
the value is still good elsewhere: `Lifetime` is what prevents it, and only
under `ClocksAgree`, which is what an operator and the callers owe - clocks that
differ by less than the skew, together with the time from a check to its
statement (`MaxDelay`), and no value that outlives `MAX_TTL_MS`.

`OnceOnly` is the promise: a value buys something for one request, for ever.
`Claims` implements it (`OnceSpec`).

### `TokenGrants`

The code and refresh grants of the token endpoint as whole requests, at several
servers.  `facts[n]` is what server `n` has in memory, `db` what has committed;
a row (`Issued`, `Used`, `Redeemed`, `Record`, `Rotated`, `Revoked`) is only
ever added, which is what `Minted` shows of rows with tombstones.  `spent` and
`barred` are the claims `oauth.code`/`oauth.refresh` and
`oauth.refresh-family-revoked`.  A request arrives behind its read barrier
(`Arrives`) or without it (`ArrivesLate`), makes its checks on the server's
memory, spends, mints, signs, records (`Signs`) and is answered when its writes
have committed (`Answers`) - or when committing them failed, which is the same
action with a fault.  `Closes` and `GivesBack` are the socket that goes away and
the claim that goes back; `Commits` and `Crashes` are the servers'.  `strict` is
RFC 9700 mode.  A flush commits what the server has at the moment of the commit;
a row written while a flush is in flight is, to every other server, a row
written after it.

### `Directory`

| State | Code (`persistence.js`) |
|---|---|
| `store` | `sts_ldap_entries` |
| `live`, `shadow` | the entries a node serves, and what it believes to be stored |
| `dirty`, `everything`, `journal`, `wake` | `directoryDirty`, `dirtyEverything`, `dirtyDns`, the scheduled or queued flush |
| `gen`, `committed` | `dirGeneration`, `dirCommittedAt` |
| `flight` | the flush that is running: what it took, and what the merge made of it |
| `todo`, `reading` | rows others committed and not read yet; the row read and not applied yet |
| `life`, `since`, `used`, `failures` | history: what became of a value, the generation of its change |

An entry is its entryUUID, its aliases, one list, one whole-valued attribute and
its modifyTimestamp.  `Take`, `Commit` (one transaction, the merge of
`directory_merge.js` under the row lock), `Resolve` (`advanceShadow`,
`applyDirectoryOutcomes`) and `FlushFails` are the flush; `Read` and `ApplyRow`
are another node's row, which may be read before and applied after any of them.
The flush holds the live object and not a copy until the merge, which
`held`/`Detached` keep track of.  Every local change moves the entry's
modifyTimestamp, as the LDAP server's do, and to a value no change had before:
that the real one counts seconds is left out, and that reconciling two creates
moves it too.

Two assumptions are the code's and are stated as such: answers reach a node in
the order in which their statements ran (`InOrder`), although the flush and the
reader use different connections; and no two entries are created at one DN
within `CREATE_RACE_WINDOW_S` of each other except as the instance says
(`Born`).  `overtaken` marks a node whose flush wrote an entry that another
node's row had replaced there in the meantime (`over`, `Replaced`); what is not
promised then is in section 4.

### `Minted`

`minted` is `sts_minted`, `memory` each process's maps, `noted` the journal,
`batch` the flush in flight, `page` a page of other processes' rows, read at one
moment and applied one at a time.  A row is a session: how far along it is and
the parties its sign-out must reach.  `SaveMinted` merges rows and refuses an
upsert over a tombstone, `SettleDecided` brings that home, `SaveFails` puts the
keys back (also when the transaction had committed and its answer was lost),
`StartAgain` restores.  Keys are random and come into being once; a tombstone
outlives every copy of its row.

### `Counters`

`advance()` - one conditional upsert, and a second statement when it moved
nothing - and its two kinds of caller: a second factor that is spent (`Presents`,
`Advances`, `Accepts`, `RefusesSpend`) and the number of a revocation list
(`BuildCrl`, `AdvancesNumber`, `AsksAgain`, `SignsList`, `SignsNothing`), with
processes whose clocks differ and that forget their last number when they
restart.

### `StoreLocks`

Who waits for whom: each node has one transaction of its store and one statement
of its membership under way, each going through its locks in the order the
driver takes them (`Path`).  Rolling back is always possible, so nothing here
depends on how Postgres picks a victim: `NoCircle` says there is never one to
pick.

### `RequestPool`

| State | Code (`request_pool.js`, `request_worker.js`) |
|---|---|
| `writesAt`, `current` | `generation`, and the generation each worker is stamped with |
| `ticket` | `outstanding` and `finishedTickets`: out, finished (it blocks), clear |
| `ex` | an exchange: where it waits (for tickets, for a round, at the worker) and what that rests on; history: what had been answered when it came (`after`), what of that the pool accounts for (`owed`), and what it was handled without (`missed`) |
| `sync` | the round that runs, the one queued behind it, and what the worker was asked |
| `flush`, `channel` | `announcing`, `again`, the tickets covered; messages to the front, in order |
| `fact`, `holds` | where the writes of an exchange are, and what each process has of them |

An exchange comes (`ExchangeComes`), waits for the writes that were answered
before it (`Blocked`, `Released`), takes a ticket and the generation, has its
worker catch up (`Joined`, `NewRound`, `HandleSync`, `ReceiveSync`) and is
handled (`Handles`, `Finishes`); its ticket blocks others once the answer ended
(`AnswerEnds`) and until its worker announces a flush that covers it
(`FlushStarts`, `FlushEnds`, `ReceiveCommitted`).  Waits end by time-outs
(`GivesUpWaiting`, `GivesUpSyncing`, `RoundTimesOut`), requests are cut off
(`Abandoned`), workers die (`WorkerDies`, `Reap`), and the front answers and
writes as well (`KeptHere`, `FrontFlushes`).  What the front answers takes no
ticket; the generation moves for it when its rows have committed
(`noteLocalWrites()`), so `owed` is the answered writes of workers and the
committed ones of the front.  One turn of the front's event loop,
microtasks included, is one step.  Batch lanes, affinity, replacement of a dead
worker and the pull a worker makes on a timer are left out: each only changes
which worker is asked, or adds to what it has.

## 4. Runs

| Run | Instance | Shows |
|---|---|---|
| `active` | active-active, 2 nodes, `service` and an early role, fair | `FenceHolds` of the transactions of `withLease`; tokens known are tokens granted (`KnownTokens`); the row is the last tenure (`LeaseRow`); implements `FencedLease`; a role does not stay unled (`RoleLed`) |
| `takeover` | active-passive, 2 nodes, a connection of the front and one of a worker each, fair | types; one writer (`OneWriter`); no unfenced transaction (`ServiceFenced`); `CommitOrder`; a standby takes over (`Takeover`); a deposed node is told (`DeposedLearns`) |
| `barrier` | 3 changes, pages of 1, at most 1 hole, a read barrier, another reader | types; `NothingSkipped`; `WatermarkTrue`; `BarrierKept`; `TrimSafe` |
| `converge` | 2 changes, or 3 of another process, pages of 2, fair | `Converges`; `LogTrimmed` |
| `grants` | 3 requests, one value, 2 processes a tick apart; 3 requests, 2 servers, a code or a chain of refresh tokens, 1 fault | `SoleHolder`, `OnceSpec`; `OneTokenSet`, `SameAnswer`, `RevokedBuysNothing`, `ReplayCaught` |
| `stores` | 2 nodes, 1 entry, 3 changes, 1 trouble; 2 processes, 1 session, 3 writes; 3 spendings, 3 lists; 2 transactions; 2 workers, 3 exchanges, 1 loss | `StoredStays`, `NoChimera`, `NothingForgotten`, `CommittedIsStored`, `Converged`; `WritesAccounted`, `CommittedWrites`, `OnlyForward`; `SpentOnce`, `ListsNumbered`; `NoCircle`; `ReadYourWrite`, `TicketsAnnounced` |
| `exit_while_holding`, `shutdown_writer` | active-passive, 2 nodes, 2 connections | violated, see below |
| `start_loss` | 2 changes | violated, see below |
| `sign_out`, `crl_newer`, `failed_flush` | one part of `stores` each | violated, see below |

Bounds.  Two nodes are enough for a deposed and a current holder; two tenures
for a takeover; a front and a worker for a transaction open across a heartbeat;
two connections of one front for an answer that overtakes another.  What needs
more (a node granted a lease again while a transaction of its earlier tenure is
open) is covered by the proofs, which have no bounds.  Three changes are the
fewest with a gap, a row above it and a row that becomes visible later; one
hole at most (`MaxHoles`) makes the ceiling bite; pages of one row make every
second row start a page.  The third row of the log is there only while nobody
asks for a barrier and no other reader reports, and of those two there is one at
a time (`Room`); what they do together the proofs cover.  A log is trimmed below
its newest row, so three changes are also the fewest in which a row has to go
although one below it rolled back.  `converge` has everything for two changes, and
three for an undisturbed follower of another process's writes (`LiveNext`): with
three it leaves out what ends the following (`Stop`, `Killed`, being declared
gone), after which nothing is claimed for that process, a row whose applier
fails, which moves the marks as an applied one does, and the follower's own
writes, which they pass like any other.

Three requests are a holder, a second that takes over from it and the late
release or replay of a third; `MaxTtl` is above every lifetime that occurs, and
`MaxTime` lets a claim end while its holder is still working.  Of the token grants
at most two tokens are minted, and with RFC 9700 mode off, where what is asked
is what happens when nothing fails, nothing fails (`Kept`).  Three changes of an
entry are a base and a change at each of two nodes; `NothingForgotten` and the
rest of `Directory` are only known up to that, and with a failed flush up to two
changes (`FailEarly`), a node being promised less once a flush of it failed.
Spendings, lists and exchanges are interchangeable and begin in turn; of the
exchanges of a pool the third only reads, after both others have written, and nothing is lost then (`Few`): two
workers' writes and a reader are the fewest in which a worker can be taken for
current without being so.  `MaxToken`, `MaxSeq`, `MaxTokens`, `MaxChanges`,
`MaxWrites`, `MaxCount`, `MaxRounds`, `MaxInstant` bound what would go on for
ever, `MaxFaults`, `MaxTroubles`, `MaxMishaps`, `MaxLosses` how much fails in one
behaviour.  Symmetry is used where the model values are interchangeable and
nothing is live: requests and servers in `grants`, and in `stores` the two nodes
together with what each adds.

Fairness.  `Cluster!Fairness`: timers fire, the pool serves its waiters in
order, the database executes what it is sent, a shutdown completes, and the
clock passes an expiry that nobody renews.  The fair runs leave lost answers
out (`Works` without `Fails`), as no code can promise progress against a
database that never answers; kills and stalls stay in.  What lost answers and
failed transactions do to safety is in the proofs, whose `Next` has them, and in
the violated runs.  `Replication!Fairness`:
the pull timer fires, a query that keeps being retried is answered one day (SF,
because failures interrupt it), transactions end, holes reach their age, marks
are reported and the leader of the purge keeps trimming.

Assumptions of the models, beside those named above: what `ClocksAgree` says;
answers to the flush and to the reader arrive in the order their statements ran
(`InOrder`); a value is not created again under an identity it had; tombstones
outlive the copies of their rows.

What the violated runs show.

- `exit_while_holding`.  `beat()` (`cluster.js:606`) compares an answer with
  what is held when the answer is processed.  A heartbeat the database executed
  just before it granted the lease, answered after the grant, lists no lease:
  the node that has just become active exits as deposed (STS-CLUSTER-0006), and
  the cluster waits for its lease to expire.  Safety is not at stake.
- `shutdown_writer`.  During a shutdown `failStop()` does nothing, but `beat()`
  has let go of the service lease by then.  A request still being answered then
  commits with no lease in its fence, beside the new active node.  `OneWriter`
  is therefore stated for nodes that are not shutting down.
- `start_loss`.  `start()` takes the newest visible seq as its mark after the
  tables were restored one by one.  What is committed in between, or allocated
  below that mark and committed later, is in neither.  The other properties are
  stated from the mark (`from`) on.
- `sign_out`.  Another process's copy of a session, read before a sign-out and
  applied after it and before the flush, puts the live session back into memory
  (`persistence_minted.js:851`); the flush finds it there and writes it.  The
  commit the sign-out waited for wrote no tombstone.
- `crl_newer`.  A build of a revocation list reads the register and then asks
  for a number.  Overtaken by a build that lists more, it is told it is behind,
  asks for a higher number and signs the older list under it
  (`pki_revocation.js:938`).
- `failed_flush`.  A flush that fails gives back the dirty bit and not the names
  it took from the journal (`persistence.js:1151`).  If another change names its
  own entry before the retry, the retry looks at that entry alone, and the first
  change stays unwritten until something touches its entry again.
  `NothingForgotten`, `CommittedIsStored` and `Converged` are therefore stated for
  nodes none of whose flushes failed.

Other disagreements met while modelling, which no run of the table checks (two
have a configuration of their own beside the others):

- A request the front answers itself takes no ticket, and `noteLocalWrites()`
  (`request_pool.js:3285`) counts only rows that have committed.  Between its
  answer and its flush nothing holds a reader: a worker at the current generation
  answers the next request without the write.  Outside active-active mode no
  commit barrier delays the front's answer either.  "no worker serves a request
  having seen less than what the pool had already answered for"
  (`request_pool.js:3197`, `AnsweredIsSeen`) is therefore not what the pool keeps,
  and `MCStores_front.cfg` finds it violated; what the pool keeps is
  `ReadYourWrite`, which speaks of the answered writes of workers and of the
  committed ones of the front.
- `persistence_postgres.js:1687` says that a flush locks its entries in the order
  every other flush does.  It locks those its SELECT finds, and the entries it
  creates when it inserts them (`:1760`).  A flush that found one entry and creates
  another with a lower key waits for one that creates both, and that one for it;
  `MCStores_create.cfg` finds `NoCircle` violated.  Postgres ends one of the two,
  which is retried.
- `agreeFingerprint()` takes the lease row and then its node row, a heartbeat the
  other way round: with `Kinds = {"agree", "heartbeat"}` `NoCircle` fails.
- A flush whose merge reports that an entry came out otherwise puts the result
  in memory, over a removal made while the flush was in flight
  (`persistence.js:1048`).
- `applyDirectoryChange()` does not look at the flush in flight.  A node creates
  an entry and its flush is on the way; the row of another entry at that DN, read
  before, is applied over it, and then that entry's deletion
  (`persistence.js:2030`): nothing is pending by then, so nothing is journalled.
  The flush finds no row and writes its entry; `advanceShadow()` believes what was
  sent (`persistence.js:817`).  The node serves nothing where the store has an
  entry, nothing is dirty, and a later full walk would delete it.  `StoredStays`,
  `NothingForgotten` and `Converged` are stated for nodes to which this has not
  happened (`overtaken`).
- `mergeCreateRace()` gives the entry one entryUUID at every node
  (`ldap_server.js:2390`), but the write that reconciles has another entryUUID
  than its base, which `mergeEntry()` takes for an entry created anew
  (`directory_merge.js:209`): it is written whole, over what a third node stored in
  between.  `Born` keeps creations apart in the `stores` run (`FarApart`) and
  `NoCreateRace` does in the proofs.
- A flush whose answer was lost is retried against the base of before, and
  `mergeEntry()` takes an entry whose base and row are both missing for a new one:
  an entry created, changed and deleted by another node in the meantime comes
  back, with its old modifyTimestamp.  With two lost answers and a restart at a
  third node two versions then agree in everything while the store has a third,
  and `Converged` fails; the run's bounds do not reach that.  Where no answer of a
  transaction that committed is lost it holds, for any number of nodes
  (`Agreement`, section 5).
- `directory_merge.js:50` promises that the retry of a process's own write is a
  merge like any other, against an empty base.  It is, and writes the same entry
  again (`RetriedMerge`).  A retry against a base that is not empty need not: an
  attribute that is in neither table is a list when one of the three sides has
  more than one value (`directory_merge.js:152`), and the first write may have
  left the row with one.  With the values {1} in the base, none here and {1, 2} in
  the row, the first merge writes {2} and the retry writes none: 2 is lost.
- A claim whose answer was lost refuses its own request with the advice to try
  again; the retry is then a replay, and revokes the family.
- `request_worker.js:481` puts tickets back when a flush failed.  `flush()` does
  not reject when it fails (`persistence.js:1278`), so they are announced as
  covered; `ReadYourWrite` excludes such writes (`forgone`).  `handleSync()`
  answers `ok` also when the worker could not catch up, and the front stamps it
  current; the property excludes what such a worker answers later (`blind`).
- The front takes its first look at what it committed itself when the first
  request is dispatched (`noteLocalWrites()`): what it committed between the fork
  and that moment is announced to no worker.  These writes are `forgone` too.
- "Monotonic reads across the pool" (`request_pool.js:3197`) has a second gap: a worker that pulled a write whose request is
  not answered yet shows it to one reader, and another worker need not have it for
  the next.

A row whose applier fails (`applyRows()`, STS-STORE-0042) is stepped over and
not asked for again; the properties count it as given up on (`dropped`), and a
read barrier reports that it caught up all the same.

Three simplifications inside actions:

- `Directory!Commit` merges what a flush writes with the row as it finds it under
  its lock.  The code inserts an entry it did not find, looks again if another
  node was faster, and if it then loses a second time (the row was deleted and
  inserted again in between) writes its entry over that row unmerged
  (`persistence_postgres.js:1769`).  The properties of `Directory` do not cover
  that write.
- `Minted!SaveMinted` always merges.  When the stored row does not open or the
  row's own merge throws, `mergerFor()` logs STS-STORE-0056 and this process's
  copy is written as it is (`persistence_minted.js:1248`), which may move the row
  back: `OnlyForward` and `CommittedWrites` hold while rows can be read.
- In `Minted` one rank orders all writes of a row.  A session's merge takes the
  sign-in of the later wall clock (`authn.js:428`), so with clocks apart "forward"
  means forward by those clocks.

## 5. Proofs

Every theorem holds for every value of the constants that its module's
assumption allows: any numbers of nodes, processes, requests, rows, tokens and
faults.  No proof uses a bound of an instance.

| Module | Assumed | Invariant | Theorems |
|---|---|---|---|
| `ClusterProofs` | `ClusterAssumption` | `IInv`, and one on phases | `TypeCorrect`, `FenceCorrect`, `LeaseRowCorrect`, `CommitsInOrder`, `Implements`, `KnownTokensCorrect`, `ServiceFencedAlways`, `OneWriterCorrect` |
| `ReplicationProofs` | `ReplicationAssumption` | `MarksInv`, `Covered` | `TypeCorrect`, `NothingIsSkipped`, `WatermarkIsTrue`, `TrimIsSafe`, `BarrierIsKept` |
| `GrantsProofs` (claims) | `ClaimsConstants`, `ClocksAgree` | `CInv` | `ClaimsTyped`, `ClaimsExclude`, `ClaimsAreOnce` |
| `GrantsProofs` (grants) | `GrantConstants` | `GrantInv` | `GrantTyping`, `OneSetAnswered`, `LaterAnswersSame`, `RevokedIsSpent`, `CopiesCaught` |
| `RequestPoolProofs` | `PoolConstants` | `\E gen : PoolInv(gen)` | `PoolTyping`, `ReadsSeeWrites`, `TicketsAreAnnounced` |
| `MintedProofs` | `MintedConstants` | `MintedInv` | `MintedTyping`, `StoredOnlyForward`, `WritesStayAccounted`, `CommittedMeansStored` |
| `CountersProofs` | `CountersConstants` | `CountersInv` | `CountersTyping`, `FactorsSpentOnce`, `ListNumbersAgreed` |
| `StoreLocksProofs` | `LocksConstants`; `OneOrder` for the second | `LocksInv` | `LocksTyping`, `LocksNeverCircle` |
| `DirectoryProofs` | `DirConstants`; `NoCreateRace` for `OwnPasswords`, with `InOrder` for `NoLostUpdate`, and with `AnswersCome` for `Agreement` | `DirShape`, `RememberInv`, `PlainInv`, `OwedInv`, `StayInv`, `DatedInv`, `AgreeInv` | `DirTyping`, `ChangesRemembered`, `OwnPasswords`, `CommitsStored`, `NoLostUpdate`, `Agreement`, `MergeLaws`, `RetriedMerge` |

`ClusterProofs`.  `IInv` says that the lease row is the last tenure, that a
checked transaction's leases are the rows' current ones, and that no commit's
token is above its row's.  The second part holds because `FencePassed` compares
the fence with the row and a share lock keeps the row from changing until the
transaction ends; the third because a commit was checked.  From it follow
`FenceCorrect`, `LeaseRowCorrect`, `CommitsInOrder` (a commit's tokens are the
rows' tokens, and `written` is never above them) and `Implements`, the refinement
of `FencedLease`, step by step.  `KnownTokensCorrect` follows every token to
where it came from: a step gives a node a token it knew already or that of a
lease row that is its own.  `ServiceFencedAlways` needs an invariant on phases: a
serving node in active-passive mode holds the service token until it exits, and
its workers were forked with one.  `OneWriterCorrect` combines it with
`FenceCorrect`: two checked transactions with the service lease in their fences
name one holder.

`ReplicationProofs`.  The model-checked instances follow one process, the proofs
any number at once.  `MarksInv` of one process says what a failure at any point
leaves true: its holes lie between the low mark and the end of the page it is
on; the rows of a page are in memory, given up on or still to do, and everything
else between the high mark and the page's end is a hole (`Paged`); what lies
below the high mark is in memory, given up on or a hole (`Accounted`); and so is
what was trimmed (`Trimmed`).  The last two need each other: a hole that expires
as trimmed is in memory because of `Trimmed`, and a row is trimmed only below a
reported mark, below which there are no holes, or when it is older than the
restore of a process that has not reported.  A barrier is served by a pull that
started after it was asked for.  `Covered` follows what the caller still lacks
through that pull: it is at or below the end of the last page, then at or below
the high mark, then - being a hole by `Accounted` and untrimmed by `Trimmed` -
among the rows found for the holes; when the pull ends nothing is left.  Hence
`BarrierIsKept`.

`GrantsProofs`, the claims.  `CInv` says that a claim on its way and a row that was given
cover the value's life by any clock (`AskedLong`, `HeldLong`), that a request
asks only after its own check found the value good (`CheckedInTime`), and that a
holder's row stands until it ends (`RowStands`).  A second holder would have
checked before the value ended and claimed after the row did, which is further
apart than `ClocksAgree` allows.  `ClaimsAreOnce` is the refinement of
`OnceOnly`: the step in which a response settles its claim as kept is the
abstract `Buy`, and `SoleHolder` says that nobody has bought before; everything
else maps to a stutter.

`GrantsProofs`, the token endpoint.  What a property says of answered requests has to be said
of those under way.  With RFC 9700 mode on, whoever mints, signs or was answered
has the claim of what it presents (`HasClaim`), which gives `OneSetAnswered` at
once; a claim that is given back is given back by a request whose client went
away before the answer.  `RevokedIsSpent` needs that all tokens the clients hold
are of one family (`OneFamily`, `Descends`: a family is handed down from token to
token, and only one request redeemed the code), because a replay of the code bars
the family of what it finds, not each token; then whatever an answer said was
revoked is revoked in the store (`ExposedBarred`), and a later request meets it
(`ExposedStopped`).  `CopiesCaught` needs what is recorded before an answer goes
out (`Recorded`, `GivenRecorded`).  With the mode off the later answers of a code
are the first because the one request that has the claim is the only one that
bought (`OneBought`, `Buying`); both are conditioned on `Calm`, as the property
is.

`RequestPoolProofs`.  What is promised is about writes, what the code counts are
generations, and no variable says which generation announced which write: the
front reads them off counters.  The invariant therefore carries a function `gen`
that the model does not have, from exchanges to the generation that announced
their writes, and the inductive step finds a new one for the next state, so that
the invariant that holds always is `Accounted`, `\E gen : PoolInv(gen)`.
`Announcements` says why a generation is enough: until a stored write has one, a
message that says its worker wrote stands before any that clears its ticket, or
the next message will be one.  `Knows` and `Rounds` say that a process stamped with
a generation has everything up to it, `Settled` that a ticket that blocks nobody
is announced, and `Reads` follows what an exchange is owed through its wait, its
round and its way to the worker.  A step that releases waiting exchanges does so
in the middle of the front's turn, after other things changed; `Between` is the
invariant at that point, for tickets and generations that are not the
variables' yet.

`MintedProofs`.  `KeyInv` says of each process and row where the last write is:
noted and in memory, taken by the flush, or covered by the row.  It needs the
rows in flight (`batch`) and the order of the generations, because a failed flush
puts back what it took and a later write of the same row must not be reported
committed by an earlier flush.  `MergeIsPast` and `CoversStable` are the two facts
about merging rows that it rests on: a merge is past both of its rows, and a row
that moved forward covers what it covered.  `Handle`, the set of keys, is finite.

`CountersProofs`.  `CountersInv` relates every spending and every build to the
counter, and to one another in pairs: the counter is at or above each count
accepted, and two that moved it moved it to different counts.  A count of 0 moves
nothing, so `SpendInv` has the claimed challenge do there what the counter does
elsewhere.  Of the clocks it is assumed only that they are ahead of a common
origin (`Ahead`), and that there is a signer.

`StoreLocksProofs`.  `ShapeInv` says what a transaction owns and has yet to lock
at each stage of its path, and `Level` numbers its place in the one order of
locks.  Whoever waits is at a lower level than whom it waits for, if that one
waits too (`WaitsClimb`), so a set of transactions each waiting for another of the
set has no highest level; with finitely many nodes (`OneOrder`) there is none.
`OneOrder` leaves out the kinds `create` and `agree`, for which the property fails
(section 4), so the theorem says exactly which transactions of the driver have
one order.

`DirectoryProofs`.  Every action is first reduced to what it does to the entry at
one DN (`DirEffect`: `LocalEffect`, `TakeEffect`, `CommitEffect`, `ResolveEffect`,
`ApplyEffect` and the rest), which is also where the types and the shape of a row
in flight (`DirShape`) are proved; each invariant is then carried over those
effects.  `RememberInv`: what a node serves and does not believe stored is named
in its journal, or is what its flush sent, or the transaction decided otherwise
and the answer will say; a flush takes the journal and the entries in one step,
which is why nothing falls between.  `EntriesIn` is a lemma about sets of entries
that merging, adding and applying do not leave: with the set of entries that have
their own password and no alias it gives `OwnPasswords`.  That set is closed only
where no two entries were created within the window of a race (`NoCreateRace`),
since an alias brings a second password with it.  `PlaceInv` says that a value
that was added and not stored is with its author and nowhere else, `OwedInv` that
its generation is not counted as committed while it waits, which is
`CommitsStored`.  `StayInv` says that every copy of one entry, believed, served,
in flight or read, has at least the stored values of the copies before it
(`Keeps`): a merge removes only what its own side removed since its base, so it
keeps what the store took if the base had it (`KeptAt`).  A row read before a
flush's answer and applied after it would be older than what the node believes,
hence `InOrder`; a re-created entry has another entryUUID and owes nothing to the
one before, hence `SameUuid`.  Both hypotheses hold in the `stores` run
(`InOrder = TRUE`, `FarApart`), failed flushes and restarts are in every theorem.

`MergeLaws` and `RetriedMerge` are about `MergeEntry` alone, whatever the three
versions are.  A side that changed nothing, or the same as the other, leaves the
other's entry; a list that both changed keeps what both hold and holds nothing
that neither does, and like the timestamp it is the same whichever node merges.
A flush that is tried again after its answer was lost, from the base of before
and over its own row, writes that row again; section 4 has the case its
hypothesis leaves out.

`Agreement` is about behaviours in which the answer of a committed transaction is
not lost (`[][AnswersCome]_dirvars`); flushes may still fail before they commit,
and nodes may die at any point.  It rests on three invariants, each of which needs
the one before.  `OwnInv`: the entryUUID of an entry created at a node is at no
other node, and not in the store, until that node's transaction writes it
(`Private`), so the row of an entry that is gone is never taken for a new one; a
lost answer breaks exactly this, since the entry is then stored and still new to
its author.  `StampInv`: of the copies of one entry the modifyTimestamp never
falls from what a node believes to what it serves, to the row it has read and to
the store (`Later`), because each change is later than all before it (`DatedInv`)
and a merge takes the later stamp (`MergeLater`).  `RightInv`: unless a row waits to
be read, what a node will believe when it has heard the answer or the row on its
way (`Hears`) is what is stored, or the node has a change of its own that is later
(`Behind`).  `Behind` is a comparison of stamps, which is why it survives a merge
whose result happens to equal something older in all but its stamp.  A node with
nothing in flight, nothing to read and nothing dirty has heard everything and, by
`ChangesRemembered`, has no such change.

Each inductive invariant was model-checked on a small instance before it
was proved.

Model-checked only:

- liveness (`Takeover`, `DeposedLearns`, `RoleLed`, `Converges`, `LogTrimmed`),
  which is beyond the prover;
- `Converged` where answers of committed transactions are lost, which is not true
  for every value of the constants: after two of them and a restart among three
  nodes it fails (section 4);
- `StoreTypesOK`, the conjunction of the five modules' type invariants, which are
  proved one by one, each for its module.

## 6. Not modelled

`PROJECT.json` gives the reason for each component.  In short:

- protocol handlers, screens, the management API, the codecs of LDAP, Kerberos
  and LDIF: they build and check documents, and their state is entries, minted
  rows, claims and counters, which are modelled;
- the key hierarchy and its merge, shared secrets: cryptographic material that
  the first writer decides, or a merge level by level whose correctness is a
  matter of that data structure;
- the realm registry and the settings, which the flush of the directory carries
  as deltas; stores that are saved as one snapshot; retention and the sweep of
  tombstones, which the assumption above stands for;
- rate windows and the cap on used assertions: one statement whose answer
  nothing later depends on;
- the worker pool: jobs without shared state;
- replacement of dead request workers, batch lanes, affinity, and the operations
  that other listeners run at a worker.
