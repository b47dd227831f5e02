--------------------------- MODULE MCRedisServer ---------------------------
(***************************************************************************)
(* The Redis server among clients, replicas, cluster nodes and sentinels,  *)
(* on small instances.  Every behaviour is one of a single part: part says *)
(* of which, v1..v18 are its variables and the others stay 0.  k1, k2 and  *)
(* n1, n2 are exchangeable in every part.                                  *)
(***************************************************************************)
EXTENDS Integers, Sequences, FiniteSets, TLC

CONSTANTS Parts,          \* the parts that are run
          k1, k2, n1, n2  \* model values

VARIABLES part, v1, v2, v3, v4, v5, v6, v7, v8, v9, v10, v11, v12, v13, v14, v15, v16, v17, v18

vars == <<part, v1, v2, v3, v4, v5, v6, v7, v8, v9, v10, v11, v12, v13, v14, v15, v16, v17, v18>>

Symmetry == Permutations({k1, k2}) \cup Permutations({n1, n2})

-----------------------------------------------------------------------------
(* The replication stream: shared buffer, partial and diskless syncs.      *)

Buffer == INSTANCE RedisReplBuffer WITH
  Replicas <- {n1, n2}, Chunk <- 2, BacklogSize <- 2, TrimPerCall <- 1, IndexEvery <- 1, Diskless <- FALSE,
  SaveParams <- FALSE, Lens <- {1, 3}, RdbOnly <- BOOLEAN, MaxOff <- 4, MaxSyncs <- 1,
  buf <- v1, rep <- v2, child <- v3, cron <- v4

Partial == INSTANCE RedisReplBuffer WITH
  Replicas <- {n1, n2}, Chunk <- 1, BacklogSize <- 1, TrimPerCall <- 1, IndexEvery <- 1, Diskless <- FALSE,
  SaveParams <- TRUE, Lens <- {1}, RdbOnly <- {FALSE}, MaxOff <- 2, MaxSyncs <- 2,
  buf <- v1, rep <- v2, child <- v3, cron <- v4

Diskless == INSTANCE RedisReplBuffer WITH
  Replicas <- {n1, n2}, Chunk <- 2, BacklogSize <- 1, TrimPerCall <- 1, IndexEvery <- 2, Diskless <- TRUE,
  SaveParams <- FALSE, Lens <- {2}, RdbOnly <- {FALSE}, MaxOff <- 4, MaxSyncs <- 2,
  buf <- v1, rep <- v2, child <- v3, cron <- v4

-----------------------------------------------------------------------------
(* Replication ids and offsets: three servers; two that restart.           *)

Psync == INSTANCE RedisPsync WITH
  Servers <- {n1, n2, "s3"}, NoServer <- "none", BacklogLen <- 2, Persist <- FALSE, MaxWrites <- 2, MaxEvents <- 3,
  srv <- v1, feed <- v2, pipe <- v3, disk <- v4, writes <- v5, ids <- v6, events <- v7

PsyncRestart == INSTANCE RedisPsync WITH
  Servers <- {n1, n2}, NoServer <- "none", BacklogLen <- 2, Persist <- TRUE, MaxWrites <- 2, MaxEvents <- 4,
  srv <- v1, feed <- v2, pipe <- v3, disk <- v4, writes <- v5, ids <- v6, events <- v7

-----------------------------------------------------------------------------
(* Paused clients: failovers and shutdowns; WAIT.                          *)

Pause == INSTANCE RedisPause WITH
  Reps <- {n1, n2}, NoRep <- "none", Clients <- {"c"}, Kinds <- {"write", "read"},
  Admin <- {"pause", "failover", "shutdown"}, MaxNow <- 2, MaxCmds <- 3, MaxFaults <- 1,
  srv <- v1, rep <- v2, now <- v3, cmds <- v4, faults <- v5

PauseWait == INSTANCE RedisPause WITH
  Reps <- {n1, n2}, NoRep <- "none", Clients <- {k1, k2}, Kinds <- {"write", "wait"}, Admin <- {"failover"},
  MaxNow <- 1, MaxCmds <- 3, MaxFaults <- 0,
  srv <- v1, rep <- v2, now <- v3, cmds <- v4, faults <- v5

-----------------------------------------------------------------------------
(* The append only file: rewrites, failing writes, power failures.         *)

Aof == INSTANCE RedisAof WITH
  Policy <- "everysec", Ops <- {"rewrite", "config", "kill", "shutdown"}, Errors <- {"rename", "child"},
  MaxWrites <- 2, MaxRewrites <- 2, MaxFaults <- 1,
  srv <- v1, os <- v2, wr <- v3, ack <- v4, rws <- v5, faults <- v6

AofErrors == INSTANCE RedisAof WITH
  Policy <- "everysec", Ops <- {"kill", "shutdown"}, Errors <- {"write", "short", "torn", "fsync"},
  MaxWrites <- 3, MaxRewrites <- 0, MaxFaults <- 2,
  srv <- v1, os <- v2, wr <- v3, ack <- v4, rws <- v5, faults <- v6

AofAlways == INSTANCE RedisAof WITH
  Policy <- "always", Ops <- {"rewrite", "power"}, Errors <- {"fork", "persist", "rename", "child"},
  MaxWrites <- 2, MaxRewrites <- 2, MaxFaults <- 2,
  srv <- v1, os <- v2, wr <- v3, ack <- v4, rws <- v5, faults <- v6

AofAnswered == INSTANCE RedisAof WITH
  Policy <- "always", Ops <- {"kill", "power"}, Errors <- {"write", "short", "torn", "fsync"},
  MaxWrites <- 3, MaxRewrites <- 0, MaxFaults <- 3,
  srv <- v1, os <- v2, wr <- v3, ack <- v4, rws <- v5, faults <- v6

-----------------------------------------------------------------------------
(* Configurations in the cluster: rounds of elections; takeovers.          *)

ElectionRounds == INSTANCE RedisClusterElection WITH
  Shard <- {1, 2}, Voters <- {n1, n2}, Ops <- {"elect"}, MaxEpoch <- 2, MaxHeaders <- 3, MaxFaults <- 0,
  node <- v1, disk <- v2, net <- v3, won <- v4, votes <- v5, faults <- v6

Takeover == INSTANCE RedisClusterElection WITH
  Shard <- {1, 2, 3}, Voters <- {}, Ops <- {"takeover"}, MaxEpoch <- 2, MaxHeaders <- 2, MaxFaults <- 0,
  node <- v1, disk <- v2, net <- v3, won <- v4, votes <- v5, faults <- v6

-----------------------------------------------------------------------------
(* Failure detection in the cluster.                                       *)

Failure == INSTANCE RedisClusterFailure WITH
  Masters <- {"t", n1, n2}, Replicas <- {"r"}, Target <- "t", Full <- TRUE, MaxTalkers <- 1, MaxCuts <- 2, MaxLost <- 0,
  cut <- v1, flag <- v2, old <- v3, reports <- v4, slots <- v5, state <- v6, minority <- v7, net <- v8, said <- v9,
  cuts <- v10, lost <- v11

FailureLive == INSTANCE RedisClusterFailure WITH
  Masters <- {"t", n1, n2}, Replicas <- {}, Target <- "t", Full <- TRUE, MaxTalkers <- 1, MaxCuts <- 2, MaxLost <- 1,
  cut <- v1, flag <- v2, old <- v3, reports <- v4, slots <- v5, state <- v6, minority <- v7, net <- v8, said <- v9,
  cuts <- v10, lost <- v11

-----------------------------------------------------------------------------
(* Moving a slot: multi-key commands; retries; late RESTOREs and two runs. *)

Migration == INSTANCE RedisSlotMigration WITH
  Src <- "src", Dst <- "dst", Keys <- {k1, k2}, Errors <- {}, Pipeline <- 2, MaxArgs <- 2, MaxWrites <- 3,
  MaxAsking <- 1, MaxRuns <- 1,
  owner <- v1, migrating <- v2, importing <- v3, db <- v4, truth <- v5, writes <- v6, asking <- v7, blocked <- v8,
  news <- v9, cli <- v10, runs <- v11, batch <- v12, digest <- v13, mig <- v14, wire <- v15, doubt <- v16

MigrationErrors == INSTANCE RedisSlotMigration WITH
  Src <- "src", Dst <- "dst", Keys <- {k1, k2}, Errors <- {"broken"}, Pipeline <- 2, MaxArgs <- 1, MaxWrites <- 3,
  MaxAsking <- 1, MaxRuns <- 1,
  owner <- v1, migrating <- v2, importing <- v3, db <- v4, truth <- v5, writes <- v6, asking <- v7, blocked <- v8,
  news <- v9, cli <- v10, runs <- v11, batch <- v12, digest <- v13, mig <- v14, wire <- v15, doubt <- v16

MigrationOpen == INSTANCE RedisSlotMigration WITH
  Src <- "src", Dst <- "dst", Keys <- {k1, k2}, Errors <- {"timeout", "late"}, Pipeline <- 1, MaxArgs <- 2, MaxWrites <- 2,
  MaxAsking <- 1, MaxRuns <- 2,
  owner <- v1, migrating <- v2, importing <- v3, db <- v4, truth <- v5, writes <- v6, asking <- v7, blocked <- v8,
  news <- v9, cli <- v10, runs <- v11, batch <- v12, digest <- v13, mig <- v14, wire <- v15, doubt <- v16

-----------------------------------------------------------------------------
(* Sentinels: the vote, the switch, the commands of users, the end.        *)

SentinelVote == INSTANCE RedisSentinel WITH
  Sentinels <- {n1, n2, "s3"}, Servers <- {"m"}, First <- "m", Candidates <- {n1, n2}, Down <- {"m"}, Nobody <- "nobody",
  Quorum <- 2, ParallelSyncs <- 1, Ops <- {"restart"}, MaxEpoch <- 1, MaxFaults <- 1,
  node <- v1, role <- v2, up <- v3, hello <- v4, voted <- v5, elected <- v6, faults <- v7

SentinelSwitch == INSTANCE RedisSentinel WITH
  Sentinels <- {n1, n2}, Servers <- {"m", k1, k2}, First <- "m", Candidates <- {n1, n2}, Down <- {"m"}, Nobody <- "nobody",
  Quorum <- 2, ParallelSyncs <- 1, Ops <- {"hello", "restart", "late"}, MaxEpoch <- 2, MaxFaults <- 1,
  node <- v1, role <- v2, up <- v3, hello <- v4, voted <- v5, elected <- v6, faults <- v7

SentinelCommands == INSTANCE RedisSentinel WITH
  Sentinels <- {"s1", "s2"}, Servers <- {"m", "r"}, First <- "m", Candidates <- {"s1"}, Down <- {}, Nobody <- "nobody",
  Quorum <- 2, ParallelSyncs <- 1, Ops <- {"hello", "forced", "reset", "lose", "doubt", "forget"}, MaxEpoch <- 1, MaxFaults <- 1,
  node <- v1, role <- v2, up <- v3, hello <- v4, voted <- v5, elected <- v6, faults <- v7

SentinelLive == INSTANCE RedisSentinel WITH
  Sentinels <- {"s1", "s2"}, Servers <- {"m", "r", "q"}, First <- "m", Candidates <- {"s1"}, Down <- {"m"}, Nobody <- "nobody",
  Quorum <- 2, ParallelSyncs <- 1, Ops <- {"hello", "crash"}, MaxEpoch <- 1, MaxFaults <- 1,
  node <- v1, role <- v2, up <- v3, hello <- v4, voted <- v5, elected <- v6, faults <- v7

-----------------------------------------------------------------------------
(* Clients that block: on two types of keys; three on lists.               *)

Blocking == INSTANCE RedisBlocking WITH
  Keys <- {k1, k2}, Clients <- {n1, n2}, NoKey <- "none", Types <- {"list", "zset"}, MaxElems <- 2, MaxCmds <- 1, MaxNow <- 1,
  db <- v1, blocking <- v2, cl <- v3, byType <- v4, readySet <- v5, ready <- v6, batch <- v7, todo <- v8,
  visiting <- v9, timeouts <- v10, unblocked <- v11, phase <- v12, now <- v13, elems <- v14, got <- v15, gone <- v16,
  forced <- v17, tickets <- v18

BlockingLists == INSTANCE RedisBlocking WITH
  Keys <- {"k"}, Clients <- {n1, n2, "c"}, NoKey <- "none", Types <- {"list"}, MaxElems <- 2, MaxCmds <- 1, MaxNow <- 0,
  db <- v1, blocking <- v2, cl <- v3, byType <- v4, readySet <- v5, ready <- v6, batch <- v7, todo <- v8,
  visiting <- v9, timeouts <- v10, unblocked <- v11, phase <- v12, now <- v13, elems <- v14, got <- v15, gone <- v16,
  forced <- v17, tickets <- v18

BlockingLive == INSTANCE RedisBlocking WITH
  Keys <- {"k"}, Clients <- {"c", "d"}, NoKey <- "none", Types <- {"list"}, MaxElems <- 1, MaxCmds <- 1, MaxNow <- 2,
  db <- v1, blocking <- v2, cl <- v3, byType <- v4, readySet <- v5, ready <- v6, batch <- v7, todo <- v8,
  visiting <- v9, timeouts <- v10, unblocked <- v11, phase <- v12, now <- v13, elems <- v14, got <- v15, gone <- v16,
  forced <- v17, tickets <- v18

-----------------------------------------------------------------------------
(* Transactions: two databases; two keys; on a replica.                    *)

Watch == INSTANCE RedisWatch WITH
  Keys <- {"k"}, Clients <- {n1, n2}, NoClient <- "none", Dbs <- {0, 1}, Replica <- FALSE, MaxWrites <- 2, MaxNow <- 2, MaxQueue <- 0,
  db <- v1, wk <- v2, cl <- v3, running <- v4, now <- v5, writes <- v6, snap <- v7, changed <- v8, sent <- v9

WatchKeys == INSTANCE RedisWatch WITH
  Keys <- {k1, k2}, Clients <- {n1, n2}, NoClient <- "none", Dbs <- {0}, Replica <- FALSE, MaxWrites <- 1, MaxNow <- 2, MaxQueue <- 1,
  db <- v1, wk <- v2, cl <- v3, running <- v4, now <- v5, writes <- v6, snap <- v7, changed <- v8, sent <- v9

WatchReplica == INSTANCE RedisWatch WITH
  Keys <- {"k"}, Clients <- {n1, n2}, NoClient <- "none", Dbs <- {0, 1}, Replica <- TRUE, MaxWrites <- 1, MaxNow <- 2, MaxQueue <- 1,
  db <- v1, wk <- v2, cl <- v3, running <- v4, now <- v5, writes <- v6, snap <- v7, changed <- v8, sent <- v9

-----------------------------------------------------------------------------
(* What must happen in the end.                                            *)

PsyncLive == INSTANCE RedisPsync WITH
  Servers <- {"s1", "s2"}, NoServer <- "none", BacklogLen <- 1, Persist <- FALSE, MaxWrites <- 2, MaxEvents <- 3,
  srv <- v1, feed <- v2, pipe <- v3, disk <- v4, writes <- v5, ids <- v6, events <- v7

PauseLive == INSTANCE RedisPause WITH
  Reps <- {"r"}, NoRep <- "none", Clients <- {"c"}, Kinds <- {"write", "wait"}, Admin <- {"failover", "shutdown"},
  MaxNow <- 2, MaxCmds <- 1, MaxFaults <- 1,
  srv <- v1, rep <- v2, now <- v3, cmds <- v4, faults <- v5

AofLive == INSTANCE RedisAof WITH
  Policy <- "everysec", Ops <- {"config"}, Errors <- {"write", "fsync", "child", "persist"},
  MaxWrites <- 1, MaxRewrites <- 2, MaxFaults <- 1,
  srv <- v1, os <- v2, wr <- v3, ack <- v4, rws <- v5, faults <- v6

AofSynced == INSTANCE RedisAof WITH
  Policy <- "everysec", Ops <- {}, Errors <- {"write", "short", "torn"},
  MaxWrites <- 2, MaxRewrites <- 0, MaxFaults <- 2,
  srv <- v1, os <- v2, wr <- v3, ack <- v4, rws <- v5, faults <- v6

ExpireLive == INSTANCE RedisExpire WITH
  Nodes <- {n1, n2}, Dbs <- {0}, Keys <- {k1, k2}, Local <- {k2}, Ops <- {"set", "expire", "persist", "rename"}, Ttls <- {0, 1},
  Flags <- {"keepttl"}, Volatile <- TRUE, MaxVal <- 0, MaxTime <- 2, MaxCommands <- 2, MaxFailovers <- 0,
  data <- v1, master <- v2, stream <- v3, now <- v4, paused <- v5, commands <- v6, failovers <- v7

\* What the modules assume of their constants holds in every part.
ASSUME PartsAssumption ==
  /\ Buffer!ReplBufferAssumption /\ Partial!ReplBufferAssumption /\ Diskless!ReplBufferAssumption
  /\ Psync!PsyncAssumption /\ PsyncRestart!PsyncAssumption /\ Pause!PauseAssumption
  /\ PauseWait!PauseAssumption /\ Aof!AofAssumption /\ AofErrors!AofAssumption
  /\ AofAlways!AofAssumption /\ AofAnswered!AofAssumption /\ Failure!FailureAssumption
  /\ FailureLive!FailureAssumption /\ Migration!MigrationAssumption
  /\ MigrationErrors!MigrationAssumption /\ MigrationOpen!MigrationAssumption
  /\ SentinelVote!SentinelAssumption /\ SentinelSwitch!SentinelAssumption
  /\ SentinelCommands!SentinelAssumption /\ SentinelLive!SentinelAssumption
  /\ Blocking!BlockingAssumption /\ BlockingLists!BlockingAssumption
  /\ BlockingLive!BlockingAssumption /\ Watch!WatchAssumption /\ WatchKeys!WatchAssumption
  /\ WatchReplica!WatchAssumption /\ PsyncLive!PsyncAssumption /\ PauseLive!PauseAssumption
  /\ AofLive!AofAssumption /\ AofSynced!AofAssumption /\ ExpireLive!ExpireAssumption

-----------------------------------------------------------------------------
\* The variables a part does not use: IdleN and KeepN are those after the N-th.
Idle16 == v17 = 0 /\ v18 = 0
Idle11 == v12 = 0 /\ v13 = 0 /\ v14 = 0 /\ v15 = 0 /\ v16 = 0 /\ Idle16
Idle9 == v10 = 0 /\ v11 = 0 /\ Idle11
Idle7 == v8 = 0 /\ v9 = 0 /\ Idle9
Idle6 == v7 = 0 /\ Idle7
Idle5 == v6 = 0 /\ Idle6
Idle4 == v5 = 0 /\ Idle5
Keep18 == UNCHANGED part
Keep16 == UNCHANGED <<v17, v18>> /\ Keep18
Keep11 == UNCHANGED <<v12, v13, v14, v15, v16>> /\ Keep16
Keep9 == UNCHANGED <<v10, v11>> /\ Keep11
Keep7 == UNCHANGED <<v8, v9>> /\ Keep9
Keep6 == UNCHANGED <<v7>> /\ Keep7
Keep5 == UNCHANGED <<v6>> /\ Keep6
Keep4 == UNCHANGED <<v5>> /\ Keep5

Init ==
  /\ part \in Parts
  /\ \/ part = "buffer" /\ Buffer!Init /\ Idle4
     \/ part = "partial" /\ Partial!Init /\ Idle4
     \/ part = "diskless" /\ Diskless!Init /\ Idle4
     \/ part = "psync" /\ Psync!Init /\ Idle7
     \/ part = "psync_restart" /\ PsyncRestart!Init /\ Idle7
     \/ part = "pause" /\ Pause!Init /\ Idle5
     \/ part = "pause_wait" /\ PauseWait!Init /\ Idle5
     \/ part = "aof" /\ Aof!Init /\ Idle6
     \/ part = "aof_errors" /\ AofErrors!Init /\ Idle6
     \/ part = "aof_always" /\ AofAlways!Init /\ Idle6
     \/ part = "aof_answered" /\ AofAnswered!Init /\ Idle6
     \/ part = "election_rounds" /\ ElectionRounds!Init /\ Idle6
     \/ part = "takeover" /\ Takeover!Init /\ Idle6
     \/ part = "failure" /\ Failure!Init /\ Idle11
     \/ part = "failure_live" /\ FailureLive!Init /\ Idle11
     \/ part = "migration" /\ Migration!Init /\ Idle16
     \/ part = "migration_errors" /\ MigrationErrors!Init /\ Idle16
     \/ part = "migration_open" /\ MigrationOpen!Init /\ Idle16
     \/ part = "sentinel_vote" /\ SentinelVote!Init /\ Idle7
     \/ part = "sentinel_switch" /\ SentinelSwitch!Init /\ Idle7
     \/ part = "sentinel_commands" /\ SentinelCommands!Init /\ Idle7
     \/ part = "sentinel_live" /\ SentinelLive!Init /\ Idle7
     \/ part = "blocking" /\ Blocking!Init
     \/ part = "blocking_lists" /\ BlockingLists!Init
     \/ part = "blocking_live" /\ BlockingLive!Init
     \/ part = "watch" /\ Watch!Init /\ Idle9
     \/ part = "watch_keys" /\ WatchKeys!Init /\ Idle9
     \/ part = "watch_replica" /\ WatchReplica!Init /\ Idle9
     \/ part = "psync_live" /\ PsyncLive!Init /\ Idle7
     \/ part = "pause_live" /\ PauseLive!Init /\ Idle5
     \/ part = "aof_live" /\ AofLive!Init /\ Idle6
     \/ part = "aof_synced" /\ AofSynced!Init /\ Idle6
     \/ part = "expire_live" /\ ExpireLive!Init /\ Idle7

Next ==
  \/ part = "buffer" /\ Buffer!Next /\ Keep4
  \/ part = "partial" /\ Partial!Next /\ Keep4
  \/ part = "diskless" /\ Diskless!Next /\ Keep4
  \/ part = "psync" /\ Psync!Next /\ Keep7
  \/ part = "psync_restart" /\ PsyncRestart!Next /\ Keep7
  \/ part = "pause" /\ Pause!Next /\ Keep5
  \/ part = "pause_wait" /\ PauseWait!Next /\ Keep5
  \/ part = "aof" /\ Aof!Next /\ Keep6
  \/ part = "aof_errors" /\ AofErrors!Next /\ Keep6
  \/ part = "aof_always" /\ AofAlways!Next /\ Keep6
  \/ part = "aof_answered" /\ AofAnswered!Next /\ Keep6
  \/ part = "election_rounds" /\ ElectionRounds!Next /\ Keep6
  \/ part = "takeover" /\ Takeover!Next /\ Keep6
  \/ part = "failure" /\ Failure!Next /\ Keep11
  \/ part = "failure_live" /\ FailureLive!Next /\ Keep11
  \/ part = "migration" /\ Migration!Next /\ Keep16
  \/ part = "migration_errors" /\ MigrationErrors!Next /\ Keep16
  \/ part = "migration_open" /\ MigrationOpen!Next /\ Keep16
  \/ part = "sentinel_vote" /\ SentinelVote!Next /\ Keep7
  \/ part = "sentinel_switch" /\ SentinelSwitch!Next /\ Keep7
  \/ part = "sentinel_commands" /\ SentinelCommands!Next /\ Keep7
  \/ part = "sentinel_live" /\ SentinelLive!Next /\ Keep7
  \/ part = "blocking" /\ Blocking!Next /\ Keep18
  \/ part = "blocking_lists" /\ BlockingLists!Next /\ Keep18
  \/ part = "blocking_live" /\ BlockingLive!Next /\ Keep18
  \/ part = "watch" /\ Watch!Next /\ Keep9
  \/ part = "watch_keys" /\ WatchKeys!Next /\ Keep9
  \/ part = "watch_replica" /\ WatchReplica!Next /\ Keep9
  \/ part = "psync_live" /\ PsyncLive!Next /\ Keep7
  \/ part = "pause_live" /\ PauseLive!Next /\ Keep5
  \/ part = "aof_live" /\ AofLive!Next /\ Keep6
  \/ part = "aof_synced" /\ AofSynced!Next /\ Keep6
  \/ part = "expire_live" /\ ExpireLive!Next /\ Keep7

Spec == Init /\ [][Next]_vars

-----------------------------------------------------------------------------
(* Safety.  What each conjunct says is told in the module it comes from.   *)

\* The replication buffer that replicas and backlog share (replication.c:
\* feedReplicationBuffer, incrementalTrimReplicationBacklog): its blocks
\* follow each other without a gap and are freed exactly when nobody refers
\* to them, the backlog keeps the history it promises, and every replica is
\* sent the stream in order from the offset of its snapshot, and never waits
\* for a snapshot nobody takes.
ReplicaStream ==
  /\ part = "buffer" => /\ Buffer!TypeOK /\ Buffer!RefCounts /\ Buffer!BlocksTile /\ Buffer!StreamInOrder
                        /\ Buffer!SnapshotAtOffset /\ Buffer!NoStuckReplica /\ Buffer!KeepsHistory
  /\ part = "partial" => /\ Partial!RefCounts /\ Partial!BlocksTile /\ Partial!StreamInOrder
                         /\ Partial!SnapshotAtOffset /\ Partial!NoStuckReplica /\ Partial!KeepsHistory
  /\ part = "diskless" => /\ Diskless!RefCounts /\ Diskless!BlocksTile /\ Diskless!StreamInOrder
                          /\ Diskless!SnapshotAtOffset /\ Diskless!NoStuckReplica

\* A replication id and an offset name one history, whoever was promoted,
\* restarted or attached elsewhere in between: a partial resynchronization
\* (masterTryPartialResynchronization) leaves no replica with other data.
OneHistory ==
  /\ part = "psync" => /\ Psync!TypeOK /\ Psync!NoDivergence /\ Psync!OffsetsAgree
                       /\ Psync!OneHistoryPerId
  /\ part = "psync_restart" => /\ PsyncRestart!NoDivergence /\ PsyncRestart!OffsetsAgree
                               /\ PsyncRestart!OneHistoryPerId

\* A paused server changes nothing, forgets no postponed client and is the
\* only master; WAIT tells the truth (networking.c: pauseClients,
\* replication.c: failoverCommand, waitCommand).  What the append only file
\* holds can be loaded and is what was answered for, between any two disk
\* operations of a rewrite and after write errors, a kill or a power failure
\* (aof.c).
WritesSurvive ==
  /\ part = "pause" => Pause!PauseHeld /\ Pause!NoneForgotten /\ Pause!OneMaster
  /\ part = "pause_wait" => PauseWait!TypeOK /\ PauseWait!WaitTrue
  /\ part = "aof" => /\ Aof!TypeOK /\ Aof!Recoverable /\ Aof!Loadable /\ Aof!WritesLastIncr
                     /\ Aof!NoGarbage
  /\ part = "aof_errors" => AofErrors!Recoverable
  /\ part = "aof_synced" => AofSynced!OffsetIsSynced
  /\ part = "aof_always" => AofAlways!Durable
  /\ part = "aof_answered" => AofAnswered!Durable

\* While redis-cli moves a slot key by key (cluster.c: getNodeByQuery,
\* migrateCommand), a command runs where all its keys are or nowhere, no
\* write is lost, and a client that follows redirections finds a server; where
\* a connection was lost over a key, the source has its last value or none.
SlotServed ==
  /\ part = "migration" => Migration!SafeToServe /\ Migration!NothingLost
  /\ part = "migration_errors" => /\ MigrationErrors!TypeOK /\ MigrationErrors!SafeToServe
                                  /\ MigrationErrors!SourceIsRight /\ MigrationErrors!NothingLost
  /\ part = "migration_open" => /\ MigrationOpen!SafeToServe /\ MigrationOpen!NothingLost
                                /\ MigrationOpen!Findable

\* Nobody decides alone: the master of a shard holds its slots unless it was
\* told to take over, a cluster node is marked failing only when a
\* majority of the masters could not reach it, a node serves only while the
\* slots it knows are covered (cluster.c: markNodeAsFailingIfNeeded,
\* clusterUpdateState); the leader of a failover has the votes of a quorum,
\* one per sentinel and epoch, and an epoch names one master (sentinel.c:
\* sentinelGetLeader, sentinelVoteLeader, sentinelProcessHelloMessage).
DecidedTogether ==
  /\ part = "takeover" => Takeover!TypeOK /\ Takeover!EpochsKnown
  /\ part = "election_rounds" => ElectionRounds!MastersServe
  /\ part = "failure" => Failure!TypeOK /\ Failure!MajorityLostIt /\ Failure!ServesCovered
  /\ part = "sentinel_vote" => SentinelVote!OneVotePerEpoch /\ SentinelVote!LeaderHasQuorum
  /\ part = "sentinel_switch" => SentinelSwitch!EpochNamesMaster
  /\ part = "sentinel_commands" => SentinelCommands!TypeOK /\ SentinelCommands!OneVotePerEpoch

\* A client blocked for a key (blocked.c) is in every list its wakeup needs
\* and in none afterwards, does not sleep beside an element, gets one answer,
\* and no element is lost or given twice.  A transaction (multi.c) aborts only
\* when a watched key was touched, and the watchers of a key are known.
ClientsServed ==
  /\ part = "blocking" => /\ Blocking!TypeOK /\ Blocking!Bookkeeping /\ Blocking!NoLostWakeup
                          /\ Blocking!ElementsConserved /\ Blocking!OneReply
  /\ part = "blocking_lists" => /\ BlockingLists!Bookkeeping /\ BlockingLists!NoLostWakeup
                                /\ BlockingLists!ElementsConserved
  /\ part = "watch" => Watch!TypeOK /\ Watch!NoSpuriousAbort /\ Watch!WatchIndex
  /\ part = "watch_keys" => WatchKeys!NoSpuriousAbort /\ WatchKeys!WatchIndex
  /\ part = "watch_replica" => WatchReplica!NoSpuriousAbort /\ WatchReplica!WatchIndex

\* What no step may do: a failover or a shutdown that waits for the replicas
\* loses a write, the offset a failover waits for moves, a node goes back to
\* an older owner of a slot, marks a node failing that it reaches itself, a
\* sentinel goes back to an older configuration or leaves a failover half
\* done, a client is served before one that waited longer, a transaction runs
\* although a watched key changed, or runs in part.
NothingTakenBack ==
  [][/\ part = "pause" => Pause!FailoverKeepsWrites /\ Pause!ShutdownKeepsWrites /\ Pause!TimedOffsetStays
     /\ part = "pause_wait" => PauseWait!FailoverKeepsWrites
     /\ part = "election_rounds" => ElectionRounds!NewerLearned /\ ElectionRounds!NewerTaken
     /\ part = "takeover" => Takeover!NewerLearned /\ Takeover!NewerTaken
     /\ part = "failure" => Failure!SeenByWhoMarks
     /\ part = "sentinel_switch" => SentinelSwitch!ConfigEpochGrows /\ SentinelSwitch!FailoverReachesEnd
     /\ part = "blocking" => Blocking!ServedInOrder
     /\ part = "blocking_lists" => BlockingLists!ServedInOrder
     /\ part = "watch" => Watch!OptimisticLock
     /\ part = "watch_keys" => WatchKeys!OptimisticLock /\ WatchKeys!AllOrNothing]_vars

-----------------------------------------------------------------------------
\* The fairness of every part, as its module states it: the i-th of the actions
\* that are weakly fair, and of those that are strongly fair.
Weak(i) ==
  \/ /\ part = "psync_live" /\ i = 1 /\ PsyncLive!Sync /\ Keep7
  \/ /\ part = "pause_live" /\ Keep5
     /\ \/ i = 1 /\ PauseLive!beforeSleep
        \/ i = 2 /\ PauseLive!serverCron
        \/ i = 3 /\ PauseLive!readReply
        \/ i = 4 /\ PauseLive!Tick
        \/ i = 5 /\ PauseLive!receive("r")
        \/ i = 6 /\ PauseLive!replconfAck("r")
        \/ i = 7 /\ PauseLive!syncCommand("r")
  \/ /\ part \in {"aof_live", "aof_synced"} /\ Keep6
     /\ \/ i = 1 /\ (IF part = "aof_live" THEN AofLive!FlushStep ELSE AofSynced!FlushStep)
        \/ i = 2 /\ (IF part = "aof_live" THEN AofLive!Tick ELSE AofSynced!Tick)
        \/ i = 3 /\ (IF part = "aof_live" THEN AofLive!BioFsyncCalled ELSE AofSynced!BioFsyncCalled)
        \/ i = 4 /\ (IF part = "aof_live" THEN AofLive!BioFsync ELSE AofSynced!BioFsync)
        \/ i = 5 /\ (IF part = "aof_live" THEN AofLive!CronRewrite ELSE AofSynced!CronRewrite)
        \/ i = 6 /\ (IF part = "aof_live" THEN AofLive!ChildDone ELSE AofSynced!ChildDone)
  \/ /\ part = "takeover" /\ Keep6
     /\ \/ i \in 1..3 /\ Takeover!clusterProcessPacket(i)
        \/ i \in 4..6 /\ Takeover!receiveUpdate(i - 3)
  \/ /\ part = "failure_live" /\ Keep11
     /\ \/ i = 1 /\ FailureLive!Look(n1)
        \/ i = 2 /\ FailureLive!Look(n2)
        \/ i = 3 /\ FailureLive!Talk(n1)
        \/ i = 4 /\ FailureLive!Talk(n2)
  \/ /\ part = "migration" /\ Keep16
     /\ \/ i = 1 /\ Migration!Move
        \/ i = 2 /\ Migration!Deliver
        \/ i = 3 /\ Migration!Redirect
  \/ /\ part = "sentinel_live" /\ Keep7
     /\ \/ i = 1 /\ SentinelLive!Timer("s1")
        \/ i = 2 /\ SentinelLive!Timer("s2")
        \/ i = 3 /\ SentinelLive!ReceiveHello("s1", "s2")
        \/ i = 4 /\ SentinelLive!ReceiveHello("s2", "s1")
        \/ i = 5 /\ SentinelLive!sentinelRefreshInstanceInfo("s1", "m")
        \/ i = 6 /\ SentinelLive!sentinelRefreshInstanceInfo("s1", "r")
        \/ i = 7 /\ SentinelLive!sentinelRefreshInstanceInfo("s1", "q")
        \/ i = 8 /\ SentinelLive!sentinelRefreshInstanceInfo("s2", "m")
        \/ i = 9 /\ SentinelLive!sentinelRefreshInstanceInfo("s2", "r")
        \/ i = 10 /\ SentinelLive!sentinelRefreshInstanceInfo("s2", "q")
  \/ /\ part = "expire_live" /\ Keep7
     /\ \/ i = 1 /\ ExpireLive!Tick
        \/ i = 2 /\ ExpireLive!replicate
        \/ i = 3 /\ ExpireLive!activeExpireCycle
        \/ i = 4 /\ ExpireLive!expireSlaveKeys
  \/ /\ part = "blocking_live" /\ Keep18
     /\ \/ i = 1 /\ BlockingLive!execCommand /\ v12 = "exec"
        \/ i = 2 /\ BlockingLive!Serve

Strong(i) ==
  \/ part = "takeover" /\ Takeover!clusterSendPing(i) /\ Keep6
  \/ part = "failure_live" /\ i \in 1..2 /\ FailureLive!clusterSendPing(<<n1, n2>>[i], {<<n2, n1>>[i]}) /\ Keep11
  \/ /\ part = "blocking_live" /\ Keep18
     /\ \/ i = 1 /\ BlockingLive!handleBlockedClientsTimeout
        \/ i = 2 /\ BlockingLive!Tick

FairSpec == Spec /\ (\A i \in 1..10 : WF_vars(Weak(i))) /\ (\A i \in 1..3 : SF_vars(Strong(i)))

\* All that was to move has moved in the end, and stays: replicas have the data
\* of their master (replication.c), cluster nodes and sentinels agree on one
\* configuration and servers follow it, also after two takeovers with one epoch
\* and after lost votes (cluster.c, sentinel.c), a failure is known to everybody
\* and so is its end, a slot is moved and nobody waits for it, and expired keys
\* are gone at every server (expire.c).
SettlesInTheEnd ==
  /\ <>[](part = "psync_live" => PsyncLive!Same)
  /\ <>[](part = "takeover" => Takeover!Agree)
  /\ <>[](part = "failure_live" => FailureLive!Unreachable) => <>[](part = "failure_live" => FailureLive!AllFail)
  /\ <>[](part = "failure_live" => FailureLive!Reachable) => <>[](part = "failure_live" => FailureLive!AllUp)
  /\ <>[](part = "migration" => Migration!AtDst)
  /\ <>[](part = "migration" => Migration!NobodyWaits)
  /\ <>[](part = "sentinel_live" => SentinelLive!Agree)
  /\ <>[](part = "sentinel_live" => SentinelLive!Follow)
  /\ <>[](part = "expire_live" => ExpireLive!NoneExpired)

\* Nobody waits for ever: a client with a timeout is answered, a failover or a
\* shutdown with a timeout ends (blocked.c, timeout.c, replication.c), a rewrite
\* that waits is started, what was written reaches the disk, and writes are
\* accepted again after an error (aof.c: flushAppendOnlyFile).
WaitsEnd ==
  /\ []<>(part = "pause_live" => PauseLive!NoTimedWait)
  /\ []<>(part = "pause_live" => PauseLive!NoTimedFailover)
  /\ []<>(part = "pause_live" => PauseLive!NoTimedShutdown)
  /\ []<>(part = "aof_live" => AofLive!NotWaiting)
  /\ []<>(part = "aof_live" => AofLive!AllSynced)
  /\ []<>(part = "aof_synced" => AofSynced!BufferEmpty)
  /\ []<>(part = "aof_synced" => AofSynced!Writable)
  /\ \A c \in {"c", "d"} : []<>(part = "blocking_live" => BlockingLive!NotOverdue(c))
=============================================================================
