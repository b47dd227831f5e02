# FoodFactory API: a TLA+ verification project

FoodFactory is a Rails 7.1 API for ordering food: users sign up, hotel owners
keep hotels and menus, clients place and cancel orders. It runs on Puma (five
threads), SQLite, Sidekiq with Redis, Devise with devise-jwt, and CanCanCan; the
repository carries the sources of the Redis 7.0.0 it runs on, which are most of
its lines. This directory holds TLA+ models of the application and of the parts
of Redis where order, failure and time matter, the TLC runs that check them on
small instances, and TLAPS proofs for every instance.

## The system and its parts

The application:

| Part | State | Operations | What makes it hard |
| --- | --- | --- | --- |
| Models and schema (`app/models`, `db/schema.rb`) | tables users, hotels, menus, orders, order_items | save, update, destroy with dependent destroys, foreign keys | cascades across five tables; `orders.hotel_id` is no foreign key |
| Orders (`OrdersController`, `CreateOrderService`) | the request in memory: user, hotel, order, items | create, destroy, index, show | order and items are separate transactions; rows read by a `before_action` are stale when used |
| Sessions and tokens (`Users::SessionsController`, `JwtTokenService`, `JwtBlacklist`, `jwt:clear_expired`, devise-jwt) | `users.jti`, `jwt_blacklists`, tokens held by clients | login, logout, decode, clean-up | a logout is three steps; two kinds of token share one check; time is compared in two ways |
| Welcome mail (`User#after_create`, `UserMailerJob`, `UserMailer`, Sidekiq) | the queue, retry and dead sets in Redis, what workers hold | push, perform, deliver, retry, discard | pushed inside the database transaction, performed outside it |
| Hotels, menus, users controllers, registration | none of their own | create, update, destroy, index, show | reads before writes |
| Ability | none | who may do what | role may change between requests |
| Seeds, payments, serializer, views, cable, configuration | none | | |

Redis:

| Part | State | What makes it hard |
| --- | --- | --- |
| Replication (`replication.c`, `rdb.c`) | ids, offsets, backlog, shared buffer, cached master | who may continue from where; blocks freed under their readers; saves that are joined or fail |
| Pauses, failover, shutdown, WAIT (`networking.c`, `replication.c`, `server.c`) | why and how long clients are paused, postponed clients | three users of one pause; a timeout against a late acknowledgement |
| Append only file (`aof.c`, `bio.c`) | buffer, manifest, BASE, INCR and HISTORY files, jobs | write errors, kills between two disk operations, power failures |
| Cluster (`cluster.c`) | epochs, votes, owners of slots, failure reports, slots on the move | messages lost or late, restarts, nodes that decide by what they know |
| Sentinel (`sentinel.c`) | epochs, votes, failover state, promoted replica | the same, with timeouts and users' commands in between |
| Blocked clients, transactions (`blocked.c`, `timeout.c`, `multi.c`) | clients per key, ready keys, watched keys | a wakeup while another one is served; keys that expire under a WATCH |
| Expiring and evicted keys (`expire.c`, `evict.c`, `db.c`) | time to live per key | master and replica expire at different times |
| Data types (`t_*.c`, `quicklist.c`, `ziplist.c`, `listpack.c`, `intset.c`) | values and their encodings | conversions, cascades, compressed nodes, what is sent to replicas |
| Access control (`acl.c`) | users, selectors, connections, the file | rules that undo each other; users freed while connected |
| Event loop, protocol, configuration, modules, scripts, client tools, containers | | see "What is not modelled" |

They interact through the database (every controller reads and writes the same
tables from concurrent threads), through calls (`OrdersController#create` calls
`CreateOrderService`), through the middleware of devise-jwt, which acts before
and after the controllers on `/login` and `/logout`, and through Redis, where
Sidekiq pushes with LPUSH and waits with BRPOP (`RedisBlocking`), and which
survives a restart by its append only file (`RedisAof`) or its replicas.

Correctness, per part. Store: references stay intact, destroys succeed, and
nothing is deleted that should stay. Orders: an order and its items belong to
one request, the answer tells what is in the database, a cancelled order stays
cancelled, every request is answered. Tokens: a token that was logged out stays
out, and a logout does not spoil the next login. Mail: a user that was created,
and no other, gets the welcome mail. Redis: what was answered is not lost, what
an id and an offset name is one history, an epoch has one winner, a client that
waits is served, an encoding holds the value it stands for.

`PROJECT.json` lists the components, the hazards with the line where each one
bites, and for every definition the source lines it stands for.

## Modules

    DenyList             what token revocation promises
    TokenRevocation      login, logout, clean-up; implements DenyList
    FoodStore            the five tables and their transactions
    OrderRequests        requests on orders, step by step; EXTENDS and implements FoodStore
    WelcomeMail          the sign-up transaction, the queue and Sidekiq's workers

    RedisPsync           replication ids and offsets: who may continue where
    RedisReplBuffer      one master, the buffer it shares among replicas and backlog
    RedisPause           CLIENT PAUSE, FAILOVER, SHUTDOWN, WAIT
    RedisAof             the append only file and what a restart loads
    RedisClusterElection votes, takeovers and the spread of a configuration
    RedisClusterFailure  PFAIL, FAIL and the state of the cluster
    RedisSlotMigration   redis-cli moves a slot while clients use it
    RedisSentinel        the vote of the sentinels and the failover
    RedisBlocking        BRPOP, BLMOVE, BZPOPMIN and the ready keys
    RedisWatch           WATCH, MULTI, EXEC over expiring keys
    RedisExpire          keys with a time to live at master and replica
    RedisSets, RedisHashes, RedisStreams, RedisSortedSets, RedisQuicklist
                         data types, their encodings and what is propagated
    PackedMemory         blocks of bytes; RedisZiplist, RedisListpack, RedisIntset
                         are the encodings kept in them
    RedisAclRules        selectors and rules; RedisAclSelector: one selector under
                         all sequences of rules; RedisAcl: users, clients, the file

    *Proofs              theorems about the module of that name (OrderRequestsProofs:
                         about FoodStore too)
    MC*                  instances for TLC; MCRedisData and MCRedisServer hold
                         several instances, the parts of their runs

### FoodStore

A table is a function from ids to rows, and `seq` the AUTOINCREMENT counters
(an id is never handed out again). A row keeps the columns that something
depends on: foreign keys, role, name. An action is one ActiveRecord
transaction, which SQLite serialises; a transaction that a validation or a
foreign key refuses is not a step. A destroy computes its cascade, the rows the
`dependent: :destroy` declarations reach, and commits when the foreign keys
allow it (`Commits`). Ids a request names range over all ids ever handed out,
so stale ones are included.

`StoreInit` is the database after `db:prepare`: an admin, a hotel owner,
clients, hotels and their menus. `create_orders_seed.rb` gives its first order
no `status`, so `Order.create!` raises and there are no orders. `CatalogNext`
is what happens to users, hotels and menus, `OrdersNext` what happens to orders.

### OrderRequests

`place` and `cancel` hold the POST and DELETE requests on orders, each in a
thread of its own; `pc` is the point a request has reached. POST:

| `pc` | Action | Code |
| --- | --- | --- |
| `new` | `PostOrder` | the request arrives, its parameters are chosen |
| `set_hotel` | `SetHotel` | `authenticate_user!`, `set_hotel` |
| `authorize` | `Authorize` | `load_and_authorize_resource`, `order_items_params` |
| `save` | `SaveOrder` | `order.save`, a transaction |
| `items` | `CreateItem` | one `order_items.create!`, a transaction; repeated |
| `load`, `find` | `LoadItems`, `FindMenu` | `order.order_items.map` with one `Menu.find` per item |

DELETE: `DeleteOrder`, `SetOrder`, `SetUser`, `CancelAuthorize`, `CheckOwner`,
`DestroyOrder`, in the order of the `before_action`s.
CanCanCan builds an order from `order_params` before it asks Ability, so missing
parameters are a 400 even for a user without the right. Exceptions that leave an
action are the status Rails gives them: `RecordInvalid` 422, `RecordNotFound`
404, `ParameterMissing` 400, others 500. `PlaceFails` and `CancelFails` are a
busy database or a dying worker, possible at every step. Everything in
`CatalogNext` happens between any two steps. `order.order_items` is read back
once all items were created, because `create!` on the association of a saved
order does not mark it loaded.

### TokenRevocation

A login hands out a body token with a jti of its own and a header token with
the jti of the user's row; both last a day (the second `config.jwt` block of
`devise.rb` wins) and are signed with the same key, so `authenticate_user!`
accepts both (`Accepts`). devise-jwt finds `current_user` only through a header
token that still carries `users.jti` (`Identifies`). A logout decodes the
token, inserts its jti (`LogoutRecord`, a transaction with the uniqueness
validation), and then, in the middleware, replaces `users.jti`
(`LogoutRevoke`). A login reads the user, jti included, in a step before it
issues the tokens. A second is split in two halves, because `JWT.decode`
compares whole seconds and the scope `expired` fractions. The
middleware does nothing for an expired token and stops at a body token, whose
payload names no scope. `loggedOut` (the action rendered success) and `lost` are
history variables. Both tokens of a login get the same second of
expiry, users are not deleted, and jtis are numbers handed out in order, in
place of random ones that never repeat.

### WelcomeMail

`txn` is the open sign-up transaction (one at a time: SQLite has one writer).
`after_create` pushes the job before COMMIT, so a worker may look the user up
too early, or for a user that was rolled back, whose id then goes to the next
account. Logins push jobs too. A worker takes a job (`Fetch`), looks the user up
(`Perform`), hands the mail over (`Deliver`) and forgets the job (`Acknowledge`); a
failed job goes to the retries and at last to the dead jobs, a shutdown pushes
it back, a kill loses it, since open source Sidekiq takes jobs with BRPOP. A
fault is a failing mail server (before or after it accepted the mail), a
shutdown or a kill. `MaxJobs` bounds the number of jobs.

### Redis: replication

`RedisPsync` names a history by an id; `data` is the sequence of writes that made
a data set, so that "same id and offset" can be compared with "same data". A
promotion makes a new id and keeps the old one up to its offset. `pipe` is what a
master sent and its replica has not read; only its first message may answer PSYNC.
`RedisReplBuffer`
is one master in more detail: blocks, reference counts, the backlog's own
position, saves to disk or to sockets that replicas join, and a client freed now
or in `beforeSleep`. `RedisPause` has one thread whose events are functions of
`srv`, a small clock, and the replicas as offsets.

### RedisAof

Write `w` is the bytes `2w-1` and `2w`, so a half written command can be on disk;
byte 0 is a hole. Every handler returns its outcomes together with the states of
the kernel on the way, and the process may be killed in any of them. Directory
entries reach the disk in order. In the passing parts rewrites with the file
switched off are left out, and rewrites are combined with errors other than
those of writes: the combinations are the disagreements listed below.

### Redis: cluster and sentinels

`RedisClusterElection`: nodes of one shard, masters of others that vote, packets
that are lost, late or repeated, crashes that fall back to `nodes.conf`. Time is
abstracted: an election is `none`, `delay`, `sent` or `expired`; that a voter
voted for this master less than two timeouts ago is a choice unless the vote is
of the same election; answers to the old election are gone when the next one is
scheduled (both timeouts are minutes apart). `winElection` has one guard that the
code has not: without `again` in `Ops`, which no passing instance has, a demoted
winner does not win the same election once more (`cluster.c:3667`, see below).
`RedisClusterFailure` is about one master. Every PING names it when it is PFAIL;
when it is healthy or FAIL the random choice of `clusterSendPing` decides who
hears of it (`Gossiped`), so a report of a master that turned to FAIL may expire.

`RedisSlotMigration` runs redis-cli's steps and clients that follow MOVED and ASK.
MIGRATE is sent, answered key by key and read: `mig.on` is TRUE, and the source
serves nobody, from the sending to the last answer, a timeout or the end of the
retry, and no longer. What redis-cli does with the answer comes later, with
commands of clients before and after each step: it gives up, asks for more keys,
or, on BUSYKEY, takes the digests of the keys at the source and at the target,
compares them and sends MIGRATE REPLACE. `wire` holds the RESTOREs that the target
has not run, each with its connection and its place on it (one connection is read
in order, two are not). A connection may time out or break at any moment, before or
after the target ran something and before or after an answer was read; MIGRATE
tries again only before the first answer and once, and otherwise answers with
IOERR. With `late` what had reached the target over a closed connection is still
run. `doubt`, for the properties only, is the set of keys that some MIGRATE lost
the connection over: both nodes may have them. `RedisSentinel` takes time as
choices; commands arrive at once or are lost, INFO shows the present, a hello may
be late. Users' commands (RESET, FAILOVER) have a part of their own.

### Redis: blocked clients and transactions

`RedisBlocking`: `phase` is what the single thread does; one action is one
command of a client, one command inside EXEC, one client visited by
`handleClientsBlockedOnKeys`, or one event of the loop. `RedisWatch`: `snap` and
`changed` remember what a client saw at WATCH, for the properties only. The list
of clients that watch a key is a set of pairs, `<<b, c>>` when the node of `b` does
not come after that of `c`: the loop that touches a key may stop in the middle.

### Redis: data types, expiry, access rules

A command is an operator from a data set to the next one and to what it
propagates; the replica runs that later. `RedisExpire` has one clock that both
servers share and that stands still while a command runs; INCR, APPEND and
SETRANGE are "a value that depends on the old one"; SWAPDB is not run at a
writable replica. `RedisHashes` leaves out increments by infinity.
`RedisQuicklist` limits nodes by count; `Rigid` elements cannot be compressed;
LSET of large elements is not combined with compression or negative indexes.
`RedisStreams` numbers ids, drops idle times and delivery counts, and gives the
replica its own node size. `RedisSortedSets` takes the random heights of nodes as
choices and leaves out weights; ranges by lex run when all scores are equal, as
documented.

In the packed encodings a byte is a cell `<<kind, value, i>>`: a field read where
none was written is recognised. Limits are scaled: a ziplist's length field
grows at 8 bytes instead of 254, the count field is full at 3 or 4 instead of
65535, widths of an intset are 1, 2 and 4.

ACL passwords are names; a subscribed connection only subscribes; users of
`redis.conf`, the log and read-only subcommands are left out.

## Runs

| Run | Configuration | Shows |
| --- | --- | --- |
| `store` | `MCFoodStore.cfg` | `ForeignKeys`, `DestroyCommits`, `OrdersOutliveTheCatalog`, `ItemsLeaveWithAParent`, `NoOrderChangesHands` |
| `store_hotel_link` | `MCStoreHotels.cfg` | violation: an order loses its hotel |
| `order_requests` | `MCOrderRequests.cfg` | `CreatedIsComplete`, `CancelledStaysCancelled`, refinement of `StoreSpec`, liveness `EveryRequestAnswered` |
| `order_races` | `MCOrderRaces.cfg` | `OrdersComeFromRequests` with two concurrent requests |
| `order_errors` | `MCOrderErrors.cfg` | violation: a 422 leaves an order behind |
| `tokens` | `MCTokenRevocation.cfg` | `LoggedOutStaysOut`, `BlacklistUnique`, `CurrentJtiIsUsable`, `IdentityNeverReturns`, refinement of `DenyList` |
| `tokens_cleared` | `MCTokenCleared.cfg` | violation: the clean-up un-blacklists a token that has not expired |
| `welcome_mails` | `WelcomeMail.cfg` | `WelcomeAccountedFor`, `MailedWereUsers`, `MailsPerJob`, liveness `JobsEnd` |
| `cluster_election` | `MCRedisElection.cfg` | `OneVotePerEpoch`, `MajorityVoted`, `OneWinnerPerEpoch` |
| `redis_data` | `MCRedisData.cfg` | data types, encodings, expiry and access rules |
| `redis_server` | `MCRedisServer.cfg` | replication, persistence, cluster, sentinels, clients |
| `redis_liveness` | `MCRedisLiveness.cfg` | what must happen in the end |

`MCRedisData` and `MCRedisServer` put several instances of several modules into
one state space: `part` says which one a behaviour is of, `v1`, `v2`, ... are its
variables. A property of such a run is a conjunction over the parts of the
properties of their modules, so `Converges` is said of sets, hashes, streams and
expiring keys, and each conjunct is told in its module:

| Property | Of | Conjuncts |
| --- | --- | --- |
| `Converges` | `redis_data` | a replica that ran all has its master's data (sets, hashes, streams, expiry, failover); an AOF rewrite builds the same stream |
| `SameContents` | `redis_data` | every encoding holds what the plain value does |
| `WellFormed` | `redis_data` | right encoding, no empty keys, integrity, compression, no failed assertion |
| `GroupsAgree` | `redis_data` | pending entries of groups and consumers agree, nobody is blocked beside what it waits for |
| `RightsKept` | `redis_data` | the last rule decides, descriptions are exact, nobody acts as a freed user |
| `NothingTooEarly` | `redis_data` | no entry is delivered twice, paused data do not change, no key goes before its time |
| `ReplicaStream` | `redis_server` | blocks, reference counts, order of the stream, no stuck replica |
| `OneHistory` | `redis_server` | one id and offset, one data set |
| `WritesSurvive` | `redis_server` | pauses hold, WAIT is true, the append only file loads what was answered |
| `SlotServed` | `redis_server` | a slot on the move is served safely, the source is right, nothing is lost |
| `DecidedTogether` | `redis_server` | FAIL by a majority, leaders by a quorum, an epoch names one master |
| `ClientsServed` | `redis_server` | blocked clients and watches: bookkeeping, no lost wakeup, one reply, no spurious abort |
| `NothingTakenBack` | `redis_server` | what no step may do, of seven modules |
| `SettlesInTheEnd`, `WaitsEnd` | `redis_liveness` | replicas, nodes and sentinels agree; every wait with a limit ends |

Deadlock is not checked: when the bounds are used up the models stop, as the
servers do when nobody calls them.

Bounds. `store`: three users (one may sign up), two hotels and two menus (one
of each may be created after another was destroyed, which a reused id would
need), one order with two items, so that one item's menu can go and the other
item stay. `order_requests`: one POST and one DELETE, baskets with two menus,
one menu twice, or none, two users. `order_races`: two POSTs with two items
each. `tokens`: one user, two threads (a race needs two), a lifetime of one
second with a clock to two (every order of issue, expiry and clean-up), four
jtis (the first, two body tokens or replacements, and one more). `tokens_cleared`
has a lifetime of two and a clock to three, so that two header tokens with one
jti expire at different times. `welcome_mails`: two accounts, three jobs, two
workers, one fault and one retry: a rolled back sign-up whose id is used again
while its job is still about needs two accounts and two jobs.
`cluster_election`: a behaviour is one of elections or one of takeovers; three nodes of a shard (a master, two that compete), two
voters, so that a majority of three needs one of the old master's peers, two
epochs, one fault. The parts of the Redis runs have two keys, two or three
servers or clients, and as many commands as the interesting case needs (three to
six); what each part is for stands beside its instance. A slot is moved three
times: commands of two keys and no errors, connections that break (two keys in one
MIGRATE, so that one of two answers can be lost), and timeouts with late RESTOREs
and a second run of redis-cli. Encodings change at one
or two elements, so that every conversion happens. Names, keys and nodes are
symmetric where only safety is checked.

Fairness. Requests (`OrderRequests!FairSpec`): weak fairness of each request's
own steps, since Puma runs a request it has accepted to its end. Sidekiq: weak
fairness of the workers' steps and of a transaction's end, for the same reason.
Redis: weak fairness of what the event loop does by itself (timers, replies,
serving, freeing), strong fairness of what is repeated until it gets through
(pings, hellos, votes asked again; in `RedisClusterFailure` the PING that names the
master, because `clusterCron` reconnects to it before it pings and the random
choice falls on every node again and again). Nothing obliges clients to send commands,
the catalogue to change or a step to fail, so these have none.

## What is proved

All theorems hold for every value of the constants that satisfies the named
assumptions: `SeedAssumption`, `BoundAssumption`, `RequestAssumption`,
`TokenAssumption`, `MailAssumption` (naturals, at least one seeded hotel, baskets
of naturals), `ElectionAssumption` and `FailureAssumption` (finitely many nodes,
shards and voters apart, the watched node among the masters), `WatchAssumption`
(one or two databases), `PsyncAssumption` (finitely many servers, a backlog of at
least one write) and `MigrationAssumption` (source and target are two nodes, at
least one write and one run of redis-cli). Nothing bounds the number of requests,
clients, keys, servers, masters or workers. The last four are hypotheses of the
theorems instead of ASSUMEs, because their modules are instantiated and not
extended by the runs, which evaluate them for each instance
(`PartsAssumption`).

- `OrderRequestsProofs`, about the store: `StoreTypeCorrect`, then `StoreInvariant` from
  `StoreInv == StoreTypeOK /\ ForeignKeys /\ OrdersNameIssuedHotels`. The last
  part (an order's `hotel_id` was handed out at some time) is needed for
  `NoHandover`: a dangling `hotel_id` is below the counter, and a new hotel's id
  is above it. `DestroysNeverRefused` rests on `CascadesCommit`, one fact for
  each cascade; `OrdersOutlive` and `ItemsLeave` on `OnlyDestroysRemove`.
- About requests: `RequestsImplementStore`: every step of a request is a
  transaction of FoodStore or leaves the store alone, so all theorems about the
  store hold for the requests too. `RequestTypeCorrect` from `ControlInv`, which
  adds to `TypeOK` what each `pc` implies about the request's fields.
- About what requests remember: `LedgerInv` adds to both invariants `Remembered` (the ids
  a request keeps in memory were handed out, no item twice), `Kept` (an item it
  created is there while its order and its menu are) and
  `OrdersComeFromRequests` itself. `Kept` is what `CreatedIsComplete` needs
  while a request is still running; it survives a destroy because an item goes
  only with its order or its menu (`Shrinks`), and a creation because new ids
  are above all remembered ones. `LedgerInv` was checked with TLC first. From
  it `OrdersStayApart` and `CreatedTellsTheTruth`, and with `CancelInv` (no order
  comes back) `CancellationIsFinal`.
- `TokenRevocationProofs`. `RevocationInv`: jtis in use are at most the last one
  handed out and have one owner; a row about a body token expires with it, and
  rows of logged-out tokens last as long as the tokens; the blacklist is unique.
  From it `LogoutIsFinal`, `OneRowPerJti`, `NextLoginUsable`, `IdentityIsFinal`
  and the refinement `BodyTokensImplementDenyList`.

- `WelcomeMailProofs`. Three invariants over `TypeInv`. `CommittedInv`: what a
  worker is about to mail is a committed account too; hence `MailsGoToUsers`.
  `WelcomeInv`: a sign-up about to commit has its job, a worker that found a user
  has the account of that row unless the row is gone, one that is done has
  mailed it. A job is done with an id only after that id was committed, and this
  is why ids of rolled back sign-ups, which are used again, lose no mail:
  `NoWelcomeForgotten`. `OnePlace` (a job is in the queue, in the retries or with
  one worker) and `CountInv` (a job that may still run has mailed at most as
  often as there were faults) give `FewMailsPerJob`.
- `RedisClusterElectionProofs`, for any number of masters, replicas, epochs,
  crashes and lost packets. `NodesInv`: no epoch that a node knows, has voted in
  or asks in is above its `currentEpoch`, `nodes.conf` holds all but a newer
  `currentEpoch`, packets carry epochs that exist; `EpochsAlwaysKnown`,
  `RestartLosesNothing`. `VotesInv` adds that `lastVoteEpoch` is not behind any
  vote the node gave: `OneVote`. `MajorityInv` adds the count: the votes a
  candidate counted together with those on their way to it are at most the votes
  given to it in the epoch it asks in, and an election that waits to start has
  neither; `WinnersHaveMajorities`. `OneWinner` follows by counting: two
  majorities share a voter, and it voted once. `ServeInv` (nobody is told about
  itself, and a node of the shard is a replica or has the slots) gives
  `MastersAlwaysServe` when no takeover is ordered; each way of changing a
  configuration keeps it and lets in newer owners only, hence `OnlyNewerLearned`,
  with takeovers too. An invariant checked before, that no node comes to replicate
  itself, is gone: looking for its proof showed that it is false for three nodes
  (`cluster.c:1933`, see below).
- `RedisClusterFailureProofs`. `SafeState` is inductive as it stands, since each
  handler that changes a flag ends in `clusterUpdateState`: `ServesOnlyCovered`.
  `SaidInv`: who flags the master, reports it or is reported by anyone has lost
  it, and a FAIL packet on its way has a majority behind it; `FailNeedsMajority`
  and `FirstMarkIsSeen`. The attempt to prove `MajorityLostIt` in its first form
  showed that it was false for an even number of masters once the slots are taken
  over, because the quorum then counts one master less; `Majority` says so now,
  and TLC agrees for four masters.
- `RedisWatchProofs`. `IndexInv`: lists and flags of the table of watches agree
  with the clients, and versions in the databases are unique; `WatchesAgree`.
  `SeenOK`: who has seen no change sees the value of the WATCH, and its flags tell
  which keys were expired then; `AbortsHaveAReason`. `MasterOK`, of a master: a
  flag means that the expired key is still in the dict, and who has seen a change
  is dirty or watches a key that `isWatchedKeyExpired` will find;
  `TransactionsAreLocked`. On a replica a flag may be on a key that its master has
  set again, and the lock fails (`multi.c:375`, see below), so the theorem is about
  masters. `QueueOK`: a client nothing has marked has queued all it sent;
  `NoHalfTransactions`. The lemmas `TouchedGone`, `TouchedThere`, `TouchedDb` say
  what the three ways of touching keys do to the table, `StepKinds` that each step
  is of one of eight kinds, and the invariants are shown kind by kind.

- `RedisPsyncProofs`, for any number of servers, chains of replicas, any size of
  the backlog, promotions, lost links, and restarts with or without an RDB file.
  `PsyncNoDivergence`, `PsyncOffsetsAgree` and `PsyncOneHistoryPerId` compare
  servers that need not be connected, so no relation between neighbours is
  inductive. The invariant says instead that histories exist: `IInv` is
  `\E h \in Histories : Inv(h)`, where `h` gives every id the writes it stands for
  (`w`), the offset they have reached (`top`), how many came before they were
  counted (`base`), which master may add to them (`by`), and whether nobody else
  has heard of the id (`priv`). `Inv(h)` compares every server, its second id, its
  RDB file and the answers under way with the history of the id they name, a
  replica and its pipe with its master, and a backlog with the end of the data.
  `priv` is needed because a master without a backlog counts no writes: its id
  must be known to nobody. Each action is shown to keep `Inv` for an `h` that it
  extends: a write adds to the history of the master's id, a promotion makes an id
  whose history begins as the old one's, a restart without replication
  information one that nobody knows. `PsyncTypeCorrect` follows too.
- `RedisSlotMigrationProofs`, for any set of keys. `MigrationTypeCorrect`;
  `SlotFindable` from what each step of redis-cli leaves in the two slot tables.
  `MigrationServesLastValue`, `MigrationSourceIsRight` and `MigrationLosesNothing`
  assume nothing about the connections: they may break, time out and deliver late
  at any moment. What the keys in `doubt` lose is said in the properties instead:
  they may be at both nodes, and a DEL at the source then makes the target serve
  its old copy (`cluster.c:6746`, see below), so `SafeToServe` is about the other
  keys; with commands of one key the copy at the source is right all the same.
  `MigInv` is about the MIGRATE in progress (its keys and answers, what is on the
  wire), `SlotInv` about the slot tables at each step of redis-cli, `NoStray` says
  that a RESTORE on the wire belongs to the MIGRATE in progress or is of a key in
  doubt, `KeyInv` where the last value of a key that is not in doubt is: at the
  target when the source has no such key or the target confirmed it, otherwise at
  the source, and a key that both have belongs to the MIGRATE in progress. `LostInv`
  does the same for the keys in doubt.

Every inductive invariant was checked with TLC before it was proved; that of
`RedisPsync` with the histories as additional variables.

Only model-checked: liveness under fairness (`EveryRequestAnswered`, `JobsEnd`,
`SettlesInTheEnd`, `WaitsEnd`), which is out of the prover's reach; the data types
and packed encodings, whose operators recurse over sequences, so that what they
compute needs induction over data; `NewerTaken`, which holds in the instances of
`redis_server` and not when elections and takeovers are mixed; and the other server
modules (the replication buffer, pauses, the append only file, sentinels, blocked
clients), for which no inductive invariant has been worked out yet. The theorems
about `RedisPsync`, `RedisSlotMigration`, `RedisClusterFailure` and `RedisWatch` state
the parts of `OneHistory`, `SlotServed`, `DecidedTogether` and `ClientsServed` that
are about these modules.

## What the violations say

- `OrderKeepsItsHotel`: `Hotel has_many :orders` without `dependent`, and no
  foreign key, so a destroyed hotel leaves orders that point nowhere, where
  `spec/models/order_spec.rb` says an order is not valid without a hotel.
- `UnprocessableCreatesNothing`: `create!` raises after `order.save` committed.
  The request is answered with 422, the order and its first items stay.
- `ClearedTokensExpired`: header tokens of one user share a jti, but the row of
  a logout expires with the token that was logged out. When the clean-up deletes
  the row, a younger token with that jti is accepted by `authenticate_user!`
  again. It does not identify its user any more (`IdentityNeverReturns`).

## Disagreements met while modelling

The three violation runs show the ones of the application. The following were
found the same way in Redis (TLC gave a trace for each; the parts of the passing
runs leave out the combination named, or their properties except it). They are
statements about this code, each with the line that says otherwise.

- `db.c:226`: `dbOverwrite` signals a key only when the old value is a stream, so
  a list stored over another type does not wake a client blocked on the key
  (`blocked.c:605`).
- `multi.c:375`: `touchWatchedKey` leaves its loop at the first client that
  watches the key as expired; others behind it are not marked (`multi.c:346`).
- `replication.c:3577`: a FAILOVER without TIMEOUT goes on pinging while a
  replica tries to reach the offset (`replication.c:3573`).
- `aof.c:2611`, `aof.c:1701`: `aof_fsync_offset` is set without an fsync, after a
  rewrite and after loading (`redis.conf:1368`, `aof.c:1146`).
- `aof.c:1126`: after a short write and `ftruncate` the file offset stays behind
  the end, so the next write leaves a hole (`aof.c:1134`).
- `aof.c:2395`: a failed flush before a rewrite puts writes into BASE and INCR
  (`aof.c:65`). `aof.c:957`: after a failed fork the descriptor stays open
  (`aof.c:502`). `aof.c:353`: the sequence of INCR files is taken from INCR
  entries only and a history file's name is used again (`aof.c:2616`).
  `aof.c:2649`: writes stay denied with an empty buffer (`server.c:1333`).
- `cluster.c:3667`: `failover_auth_count` survives the end of an election, so an
  earlier winner can win again at once with its old epoch (`cluster.c:1296`).
- `cluster.c:1323`: "It is not possible that different slaves get the same config
  epoch during a failover election". The old master of a shard, and one of its
  replicas that won before, both vote when a partition keeps their news apart;
  with two such voters two replicas can win one epoch. `OneWinnerPerEpoch` is
  therefore stated for epochs in which at most one node of the shard voted.
- `cluster.c:1933`: the safeguard against sub-replicas calls `clusterSetMaster` with
  the master of its master, which is the node itself when an old PING, overtaken by
  the PONG of a takeover on the other link, says that the new master still
  replicates it: the assertion at `cluster.c:4546` fails (three nodes of a shard, two
  takeovers). With takeovers a replica can also become a master without slots.
- `cluster.c:6425`: MIGRATE tries again when the connection broke before the first
  answer was read, "sure nothing was processed" (`cluster.c:6423`), although the
  target may have run a RESTORE; the retry finds the key there (BUSYKEY).
- `cluster.c:6746`: a key left at both nodes by a MIGRATE that lost its connection
  is served from the old copy at the target once it is deleted at the source
  (`cluster.c:6660`), for instance while redis-cli compares the values.
- `t_hash.c:687`: HINCRBYFLOAT by infinity leaves an empty hash (`rdb.c:3122`).
- `quicklist.c:755`, `quicklist.c:911`: replacing by a large element works on a
  node that was compressed meanwhile, and splitting at a negative offset deletes
  too much (`quicklist.c:669`, `quicklist.c:882`).
- `blocked.c:458`, `t_stream.c:2372`, `t_stream.c:1465`, `t_stream.c:2790`: an
  empty reply after XADD with MAXLEN 0, a consumer that only the master has, a
  lag that counts trimmed entries, and an XSETID that the rewrite cannot repeat.
- `t_zset.c:2954`: ZRANGESTORE of a long first member fails the assertion at
  `t_zset.c:1186`. `ziplist.c:1176`: an index above zero in an empty ziplist
  fails an assertion instead of returning NULL (`ziplist.c:1150`).
- `sentinel.c:4707`: votes of the current epoch are counted for the failover's
  epoch (`sentinel.c:4687`). `sentinel.c:1546`: RESET ends a failover after its
  promotion (`sentinel.c:5242`).
- `acl.c:1061`, `acl.c:1844`, `acl.c:1937`, `acl.c:2202`: a key rule without
  permission that cannot be described, subscribers of a user who had all
  channels, a pattern that ends in a bracket in the saved file, and the error
  path of such a line.
- `app/models/user.rb:24`: "User welcome email sent to" is logged before COMMIT and
  before any mail is sent.

## What is not modelled

- Reads: `index` and `show` of all controllers, and `OrderItemsController`; the
  answers of the hotels, menus and users controllers and of registration (their
  writes are transactions of FoodStore).
- That the token `authenticate_user!` accepts need not be the one `current_user`
  comes from.
- `config/schedule.rb`: line 24 lacks the colon of `at:` and does not parse, so
  cron never gets the clean-up. In the model it may happen at any time.
- Payments (commented out), serializer, views, cable, session fix, initializers.
- In the append only file `no-appendfsync-on-rewrite`, which is off by default
  (`aof.c:1189`). CLIENT UNBLOCK and CLIENT KILL inside EXEC: `RedisBlocking` has
  them between commands only. In the slot migration: `--cluster-replace`, the loss
  of redis-cli's own connections, and `--cluster fix` when both nodes have keys.
  Writes of one key are all different, so equal digests mean the same write.
- Redis: the protocol and its parser, the configuration, the table of commands,
  modules, Lua scripts and functions, the RDB format, strings as bytes, geo and
  HyperLogLog, introspection, client tools except the slot migration of
  redis-cli, and the containers and libraries, which are sets, functions and
  sequences in the models.

The map of `PROJECT.json` covers the application's own logic and about a sixth of
all lines; most of the rest are the unmodelled parts of Redis just named.

## Plan

1. Application: `FoodStore`, `OrderRequests`, `TokenRevocation`, `WelcomeMail`
   (done).
2. Redis: replication, persistence, cluster, sentinels, clients, data types,
   access rules (done as far as listed above).
3. Proofs: `FoodStore`, `OrderRequests`, `TokenRevocation`, `WelcomeMail`,
   `RedisClusterElection`, `RedisClusterFailure`, `RedisWatch`, `RedisPsync`,
   `RedisSlotMigration` (done).
4. Later: `CatalogRequests` (hotels, menus and users controllers step by step),
   client output buffers and eviction of clients, scripts; inductive
   invariants of `RedisReplBuffer`, `RedisBlocking` and `RedisSentinel`.
