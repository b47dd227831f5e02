---------------------------- MODULE MCRedisData ----------------------------
(***************************************************************************)
(* The data types of Redis, the encodings they are kept in and the access  *)
(* rules, on small instances.  Every behaviour is one of a single part:    *)
(* part says of which, v1..v7 are its variables and the others stay 0.     *)
(* k1, k2 and n1, n2 are exchangeable in every part.                       *)
(***************************************************************************)
EXTENDS Integers, Sequences, SequencesExt, FiniteSets, TLC

CONSTANTS Parts,          \* the parts that are run
          k1, k2, n1, n2  \* model values

VARIABLES part, v1, v2, v3, v4, v5, v6, v7

vars == <<part, v1, v2, v3, v4, v5, v6, v7>>

Symmetry == Permutations({k1, k2}) \cup Permutations({n1, n2})

-----------------------------------------------------------------------------
(* Sets: the commands and the replica; the algebra of three keys.          *)

Sets == INSTANCE RedisSets WITH
  Keys <- {k1, k2}, Elems <- {n1, n2, "a"}, Ints <- {n1, n2}, MaxIntset <- 1, MoveStrategy <- 1, MaxCommands <- 3,
  Ops <- {"sadd", "srem", "smove", "spop", "spopcount", "del", "sdiffstore", "sinterstore", "sunionstore", "copy"},
  db <- v1, rdb <- v2, stream <- v3, commands <- v4

Algebra == INSTANCE RedisSets WITH
  Keys <- {k1, k2, "k3"}, Elems <- {"one", "a"}, Ints <- {"one"}, MaxIntset <- 1, MoveStrategy <- 5, MaxCommands <- 3,
  Ops <- {"sadd"},
  db <- v1, rdb <- v2, stream <- v3, commands <- v4

Hashes == INSTANCE RedisHashes WITH
  Keys <- {k1, k2}, Fields <- {"f"}, MaxEntries <- 1, Long <- 2, MaxVal <- 3, Infinite <- FALSE, MaxCommands <- 3,
  Ops <- {"hset", "hincrby", "hincrbyfloat", "copy", "del"},
  db <- v1, rdb <- v2, stream <- v3, commands <- v4

HashKeys == INSTANCE RedisHashes WITH
  Keys <- {"k"}, Fields <- {n1, n2}, MaxEntries <- 1, Long <- 2, MaxVal <- 2, Infinite <- FALSE, MaxCommands <- 3,
  Ops <- {"hset", "hsetnx", "hdel"},
  db <- v1, rdb <- v2, stream <- v3, commands <- v4

-----------------------------------------------------------------------------
(* Lists: compressed in the middle, compressed deeper, not compressed.     *)

Lists == INSTANCE RedisQuicklist WITH
  Elems <- {1, 2, 9}, Large <- {9}, Rigid <- {2}, Fill <- 2, Compress <- 1, MaxLen <- 5, Indexes <- {-2, 1},
  Ops <- {"push", "pop", "insert", "set", "trim", "rem", "read", "copy", "load"},
  ql <- v1, list <- v2

DeepLists == INSTANCE RedisQuicklist WITH
  Elems <- {1, 2}, Large <- {2}, Rigid <- {}, Fill <- 2, Compress <- 2, MaxLen <- 6, Indexes <- {-2, 1},
  Ops <- {"push", "pop", "insert", "trim", "rem"},
  ql <- v1, list <- v2

PlainLists == INSTANCE RedisQuicklist WITH
  Elems <- {1, 2, 9}, Large <- {9}, Rigid <- {2}, Fill <- 3, Compress <- 0, MaxLen <- 4, Indexes <- {0, 2},
  Ops <- {"push", "pop", "insert", "set", "setlarge", "rem"},
  ql <- v1, list <- v2

-----------------------------------------------------------------------------
(* Streams: groups and consumers, trimming, blocked readers.               *)

Streams == INSTANCE RedisStreams WITH
  Groups <- {"g"}, Consumers <- {n1, n2}, Readers <- {"r"}, NoOne <- "none", MaxId <- 2, NodeMax <- 2, ReplicaNodeMax <- 2,
  MaxCommands <- 5, MaxQueue <- 0,
  Ops <- {"xadd", "xdel", "create", "setid", "destroy", "createconsumer", "delconsumer", "xack", "xsetid", "xclaim",
          "xautoclaim", "xreadgroup"},
  s <- v1, r <- v2, queue <- v3, blocked <- v4, served <- v5, due <- v6, commands <- v7

Trims == INSTANCE RedisStreams WITH
  Groups <- {"g"}, Consumers <- {n1, n2}, Readers <- {"r"}, NoOne <- "none", MaxId <- 3, NodeMax <- 2, ReplicaNodeMax <- 1,
  MaxCommands <- 5, MaxQueue <- 0,
  Ops <- {"xadd", "trim", "xtrim", "xdel", "create", "xreadgroup", "del"},
  s <- v1, r <- v2, queue <- v3, blocked <- v4, served <- v5, due <- v6, commands <- v7

BlockedReaders == INSTANCE RedisStreams WITH
  Groups <- {"g"}, Consumers <- {n1, n2}, Readers <- {k1, k2}, NoOne <- "none", MaxId <- 3, NodeMax <- 2, ReplicaNodeMax <- 2,
  MaxCommands <- 4, MaxQueue <- 1,
  Ops <- {"xadd", "xdel", "create", "destroy", "xreadgroup", "del", "block"},
  s <- v1, r <- v2, queue <- v3, blocked <- v4, served <- v5, due <- v6, commands <- v7

-----------------------------------------------------------------------------
(* Sorted sets: the skiplist, the options of ZADD, the *STORE commands.    *)

ZSets == INSTANCE RedisSortedSets WITH
  Keys <- {"k"}, MaxMember <- 3, MaxScore <- 1, Inf <- 9, MaxLevel <- 2, MaxListpack <- 1, Long <- {},
  Ops <- {"zadd", "zrem", "zremrange", "zpop"},
  db <- v1, ref <- v2, failed <- v3

ZOptions == INSTANCE RedisSortedSets WITH
  Keys <- {"k"}, MaxMember <- 2, MaxScore <- 2, Inf <- 9, MaxLevel <- 1, MaxListpack <- 1, Long <- {},
  Ops <- {"zadd", "options", "incr", "inf", "zrem"},
  db <- v1, ref <- v2, failed <- v3

ZStores == INSTANCE RedisSortedSets WITH
  Keys <- {k1, k2}, MaxMember <- 2, MaxScore <- 1, Inf <- 9, MaxLevel <- 1, MaxListpack <- 1, Long <- {2},
  Ops <- {"zadd", "zrem", "copy", "zrangestore", "zalgebra"},
  db <- v1, ref <- v2, failed <- v3

-----------------------------------------------------------------------------
(* Keys with a time to live: two keys; failovers with two databases.       *)

Expire == INSTANCE RedisExpire WITH
  Nodes <- {n1, n2}, Dbs <- {0}, Keys <- {k1, k2}, Local <- {}, Ttls <- {1}, Flags <- {"nx", "keepttl", "replace"},
  Volatile <- FALSE, MaxVal <- 1, MaxTime <- 2, MaxCommands <- 3, MaxFailovers <- 0,
  Ops <- {"set", "incr", "incrbyfloat", "rename", "copy", "expire", "del", "evict"},
  data <- v1, master <- v2, stream <- v3, now <- v4, paused <- v5, commands <- v6, failovers <- v7

Failover == INSTANCE RedisExpire WITH
  Nodes <- {n1, n2}, Dbs <- {0, 1}, Keys <- {"k"}, Local <- {}, Ttls <- {0, 1}, Flags <- {"persist", "xx", "gt", "lt"},
  Volatile <- TRUE, MaxVal <- 1, MaxTime <- 2, MaxCommands <- 2, MaxFailovers <- 1,
  Ops <- {"set", "get", "getset", "mset", "getex", "getdel", "append", "setrange", "persist", "move", "swapdb", "copy", "flushdb", "flushall",
          "evict", "expire"},
  data <- v1, master <- v2, stream <- v3, now <- v4, paused <- v5, commands <- v6, failovers <- v7

-----------------------------------------------------------------------------
(* Packed memory.  Ziplist values of one, three and eight bytes: with a    *)
(* border of eight for the length fields the middle ones need five bytes   *)
(* once their own field has grown, so growth runs along the list.  Intset  *)
(* numbers at both borders of every width.                                 *)

Ziplist == INSTANCE RedisZiplist WITH
  Size <- <<1, 3, 8>>, BigPrevlen <- 8, MaxCount <- 3, MaxEntries <- 4, zl <- v1, ref <- v2

Listpack == INSTANCE RedisListpack WITH
  Size <- <<1, 2, 4>>, MaxShort <- 3, Unknown <- 4, Capacities <- {0, 16}, MaxElements <- 4, lp <- v1, ref <- v2

Intset == INSTANCE RedisIntset WITH
  Numbers <- {-5, -4, -3, -2, -1, 0, 1, 2, 3, 4}, Int16Max <- 1, Int32Max <- 3, MaxLength <- 6, is <- v1, ref <- v2

-----------------------------------------------------------------------------
(* Access rules: of commands, of keys and channels.                        *)

Op(t, c, a) == [t |-> t, c |-> c, a |-> a]
Rule(t) == Op(t, "", {})
AclCommandList == <<"get", "set", "select", "config", "config|get", "config|set", "mod">>
AclContainer == [c \in ToSet(AclCommandList) |-> IF c \in {"config|get", "config|set"} THEN "config" ELSE "none"]
AclCategories == [get |-> {"read"}, set |-> {"write"}, select |-> {"admin"}, config |-> {"slow"}, mod |-> {"read"}]
  @@ ("config|get" :> {"admin", "read"}) @@ ("config|set" :> {"admin"})
AclMatching == ("*" :> {"k1", "k2"}) @@ [p1 |-> {"k1"}, p2 |-> {"k1", "k2"}]
CommandRules ==
  {Rule("+@all"), Rule("-@all"), Op("+|", "select", {"0"}), Op("+", "config|get", {}), Op("-", "config", {}),
   Op("+", "config", {}), Op("-", "config|set", {}), Op("-", "select", {}), Op("+", "mod", {}), Op("-", "get", {})}
  \cup {Op(t, c, {}) : t \in {"+@", "-@"}, c \in {"read", "admin", "slow"}}
KeyRules ==
  {Rule(t) : t \in {"allkeys", "resetkeys", "allchannels", "resetchannels", "+@all"}}
  \cup {Op("key", "p1", {"R"}), Op("key", "p1", {"W"}), Op("key", "p2", {"R", "W"}),
        Op("channel", "p1", {}), Op("channel", "p2", {})}
Call(cmd, arg, keys, chans) == [cmd |-> cmd, arg |-> arg, keys |-> keys, chans |-> chans]
AclCalls ==
  {Call(c, a, {}, {}) : c \in ToSet(AclCommandList), a \in {"0", "1"}}
  \cup {Call("get", "", {<<"k1", {"R"}>>}, {}), Call("set", "", {<<"k1", {"R", "W"}>>, <<"k2", {"W"}>>}, {}),
        Call("mod", "", {}, {<<"k1", FALSE>>}), Call("mod", "", {}, {<<"p2", TRUE>>})}

AclCommands == INSTANCE RedisAclSelector WITH
  Commands <- AclCommandList, Container <- AclContainer, Categories <- AclCategories,
  CategoryList <- <<"read", "write", "admin", "slow">>, ModuleCommands <- {"mod"}, Matching <- AclMatching,
  PubsubDefault <- TRUE, Rules <- CommandRules, Calls <- AclCalls, MaxRules <- 3, sel <- v1, given <- v2

AclKeys == INSTANCE RedisAclSelector WITH
  Commands <- AclCommandList, Container <- AclContainer, Categories <- AclCategories,
  CategoryList <- <<"read", "write", "admin", "slow">>, ModuleCommands <- {"mod"}, Matching <- AclMatching,
  PubsubDefault <- TRUE, Rules <- KeyRules, Calls <- AclCalls, MaxRules <- 3, sel <- v1, given <- v2

(* Users: with subscribers; with the ACL file.                             *)

T(op) == [open |-> FALSE, shut |-> FALSE, op |-> op]
Opens(op) == [open |-> TRUE, shut |-> FALSE, op |-> op]
Closes(op) == [open |-> FALSE, shut |-> TRUE, op |-> op]
UserMatching == ("p)" :> {"k2"}) @@ [p |-> {"k1"}, c1 |-> {"c1"}, c2 |-> {"c2"}, cc |-> {"c1", "c2"}]
UserCategories == [acl |-> {"admin"}, get |-> {"read"}, subscribe |-> {"pubsub"}]
ChannelChanges ==
  {<<T(Rule("on")), T(Rule("nopass")), T(Rule("+@all"))>>,
   <<T(Op("channel", "c1", {}))>>, <<T(Op("channel", "cc", {}))>>, <<T(Rule("resetchannels"))>>,
   <<Opens(Op("+@", "pubsub", {})), Closes(Op("channel", "c2", {}))>>, <<T(Rule("clearselectors"))>>,
   <<T(Rule("skip")), T(Op("-", "nosuch", {}))>>}
FileChanges ==
  {<<T(Rule("on")), T(Op("pass", "s1", {})), T(Rule("+@all"))>>,
   <<T(Op("+|", "get", {"x"})), T(Op("key", "p", {"R"}))>>, <<T(Rule("reset")), T(Op("key", "p)", {"R", "W"}))>>,
   <<T(Rule("on")), Opens(Op("+", "get", {}))>>,
   <<Opens(Op("-@", "read", {})), T(Op("key", "p", {"W"})), Closes(Op("channel", "c1", {}))>>}

AclUsers == INSTANCE RedisAcl WITH
  Commands <- <<"acl", "get", "subscribe">>, Container <- [acl |-> "none", get |-> "none", subscribe |-> "none"],
  Categories <- UserCategories, CategoryList <- <<"read", "pubsub", "admin">>, ModuleCommands <- {},
  Matching <- UserMatching, Strip <- "p)" :> "p", PubsubDefault <- FALSE, Names <- {"default", "u"}, Targets <- {"u"},
  Clients <- {n1, n2}, Changes <- ChannelChanges, Passwords <- {"s1"},
  Channels <- {<<"c1", FALSE>>, <<"c2", FALSE>>, <<"cc", TRUE>>}, MaxSelectors <- 2, Features <- {"del", "subscribe", "requirepass"},
  users <- v1, clients <- v2, file <- v3, server <- v4

AclFile == INSTANCE RedisAcl WITH
  Commands <- <<"acl", "get", "subscribe">>, Container <- [acl |-> "none", get |-> "none", subscribe |-> "none"],
  Categories <- UserCategories, CategoryList <- <<"read", "pubsub", "admin">>, ModuleCommands <- {},
  Matching <- UserMatching, Strip <- "p)" :> "p", PubsubDefault <- FALSE, Names <- {"default", "u"}, Targets <- {"u"},
  Clients <- {"c"}, Changes <- FileChanges, Passwords <- {"s1"}, Channels <- {},
  MaxSelectors <- 2, Features <- {"file", "edit"},
  users <- v1, clients <- v2, file <- v3, server <- v4

\* What the modules assume of their constants holds in every part.
ASSUME PartsAssumption ==
  /\ Sets!SetsAssumption /\ Algebra!SetsAssumption /\ Hashes!HashesAssumption
  /\ HashKeys!HashesAssumption /\ Lists!QuicklistAssumption /\ DeepLists!QuicklistAssumption
  /\ PlainLists!QuicklistAssumption /\ Streams!StreamsAssumption /\ Trims!StreamsAssumption
  /\ BlockedReaders!StreamsAssumption /\ ZSets!SortedSetsAssumption
  /\ ZOptions!SortedSetsAssumption /\ ZStores!SortedSetsAssumption /\ Expire!ExpireAssumption
  /\ Failover!ExpireAssumption

-----------------------------------------------------------------------------
Idle5 == v5 = 0 /\ v6 = 0 /\ v7 = 0
Idle4 == v4 = 0 /\ Idle5
Idle3 == v3 = 0 /\ Idle4
Keep5 == UNCHANGED <<part, v5, v6, v7>>
Keep4 == UNCHANGED v4 /\ Keep5
Keep3 == UNCHANGED v3 /\ Keep4

Init ==
  /\ part \in Parts
  /\ \/ part = "sets" /\ Sets!Init /\ Idle5
     \/ part = "algebra" /\ Algebra!Init /\ Idle5
     \/ part = "hashes" /\ Hashes!Init /\ Idle5
     \/ part = "hash_keys" /\ HashKeys!Init /\ Idle5
     \/ part = "lists" /\ Lists!Init /\ Idle3
     \/ part = "deep_lists" /\ DeepLists!Init /\ Idle3
     \/ part = "plain_lists" /\ PlainLists!Init /\ Idle3
     \/ part = "streams" /\ Streams!Init
     \/ part = "trims" /\ Trims!Init
     \/ part = "blocked" /\ BlockedReaders!Init
     \/ part = "zsets" /\ ZSets!Init /\ Idle4
     \/ part = "zoptions" /\ ZOptions!Init /\ Idle4
     \/ part = "zstores" /\ ZStores!Init /\ Idle4
     \/ part = "expire" /\ Expire!Init
     \/ part = "failover" /\ Failover!Init
     \/ part = "ziplist" /\ Ziplist!Init /\ Idle3
     \/ part = "listpack" /\ Listpack!Init /\ Idle3
     \/ part = "intset" /\ Intset!Init /\ Idle3
     \/ part = "acl_commands" /\ AclCommands!Init /\ Idle3
     \/ part = "acl_keys" /\ AclKeys!Init /\ Idle3
     \/ part = "acl_users" /\ AclUsers!Init /\ Idle5
     \/ part = "acl_file" /\ AclFile!Init /\ Idle5

Next ==
  \/ part = "sets" /\ Sets!Next /\ Keep5
  \/ part = "algebra" /\ Algebra!Next /\ Keep5
  \/ part = "hashes" /\ Hashes!Next /\ Keep5
  \/ part = "hash_keys" /\ HashKeys!Next /\ Keep5
  \/ part = "lists" /\ Lists!Next /\ Keep3
  \/ part = "deep_lists" /\ DeepLists!Next /\ Keep3
  \/ part = "plain_lists" /\ PlainLists!Next /\ Keep3
  \/ part = "streams" /\ Streams!Next /\ UNCHANGED part
  \/ part = "trims" /\ Trims!Next /\ UNCHANGED part
  \/ part = "blocked" /\ BlockedReaders!Next /\ UNCHANGED part
  \/ part = "zsets" /\ ZSets!Next /\ Keep4
  \/ part = "zoptions" /\ ZOptions!Next /\ Keep4
  \/ part = "zstores" /\ ZStores!Next /\ Keep4
  \/ part = "expire" /\ Expire!Next /\ UNCHANGED part
  \/ part = "failover" /\ Failover!Next /\ UNCHANGED part
  \/ part = "ziplist" /\ Ziplist!Next /\ Keep3
  \/ part = "listpack" /\ Listpack!Next /\ Keep3
  \/ part = "intset" /\ Intset!Next /\ Keep3
  \/ part = "acl_commands" /\ AclCommands!Next /\ Keep3
  \/ part = "acl_keys" /\ AclKeys!Next /\ Keep3
  \/ part = "acl_users" /\ AclUsers!Next /\ Keep5
  \/ part = "acl_file" /\ AclFile!Next /\ Keep5

Spec == Init /\ [][Next]_vars

-----------------------------------------------------------------------------
(* Safety.  What each conjunct says is told in the module it comes from.   *)

\* A replica that has run everything it was sent has the data of its master,
\* although commands are rewritten on the way (SPOP, INCRBYFLOAT, XADD with
\* trimming, EXPIRE: propagateNow, rewriteClientCommandVector) and each side
\* picks encodings and expires keys on its own; and the commands of an AOF
\* rewrite build the same stream, groups and pending entries (aof.c).
Converges ==
  /\ part = "sets" => Sets!Converges
  /\ part = "hashes" => Hashes!Converges
  /\ part = "hash_keys" => HashKeys!Converges
  /\ part = "streams" => Streams!Converges
  /\ part = "trims" => Trims!Converges /\ Trims!RewriteKeeps
  /\ part = "expire" => Expire!Converges
  /\ part = "failover" => Failover!Converges

\* Every encoding holds and returns what the plain value does: lists of packed
\* and plain nodes, sorted sets as listpack or skiplist, ziplists, listpacks
\* and intsets as bytes, the set algebra whichever way it is computed; looking
\* up, seeking, counting and ranges agree with it (quicklist.c, t_zset.c,
\* ziplist.c, listpack.c, intset.c, t_set.c).
SameContents ==
  /\ part = "algebra" => Algebra!SetAlgebra
  /\ part = "lists" => Lists!SameElements /\ Lists!ReadsInOrder
  /\ part = "deep_lists" => DeepLists!SameElements
  /\ part = "plain_lists" => PlainLists!SameElements
  /\ part = "zsets" => ZSets!SameContents /\ ZSets!ReadsAgree
  /\ part = "zoptions" => ZOptions!SameContents
  /\ part = "zstores" => ZStores!SameContents
  /\ part = "ziplist" => Ziplist!ContentsAgree /\ Ziplist!LengthRight /\ Ziplist!IndexFinds /\ Ziplist!FindsFields
  /\ part = "listpack" => Listpack!ContentsAgree /\ Listpack!LengthRight /\ Listpack!SeekFinds /\ Listpack!LooksUp
  /\ part = "intset" => Intset!SetAgrees /\ Intset!FindsMembers

\* Every value is well formed: it is in the encoding its size asks for, keys
\* are never empty, list nodes beyond the depth are compressed, the bytes of
\* packed lists pass their own integrity check (ziplistValidateIntegrity,
\* lpValidateIntegrity), and no serverAssert fails.
WellFormed ==
  /\ part = "sets" => Sets!TypeOK /\ Sets!EncodingFits
  /\ part = "hashes" => Hashes!EncodingFits
  /\ part = "hash_keys" => HashKeys!EncodingFits /\ HashKeys!NoEmptyHash
  /\ part = "lists" => Lists!TypeOK /\ Lists!AssertionsHold
  /\ part = "deep_lists" => DeepLists!CompressedBeyondDepth
  /\ part = "zsets" => ZSets!TypeOK
  /\ part = "zoptions" => ZOptions!NoEmptyKey
  /\ part = "zstores" => ZStores!EncodingFits /\ ZStores!AssertionsHold
  /\ part = "expire" => Expire!TypeOK
  /\ part = "ziplist" => Ziplist!Integrity
  /\ part = "listpack" => Listpack!Integrity

\* The two indexes of pending entries of a stream agree, of the group and of
\* its consumers, an entry delivered is not forgotten before XACK, and nobody
\* is blocked on a stream that has what it waits for, or on a group that is
\* gone (t_stream.c: streamReplyWithRange, xackCommand, blocked.c).
GroupsAgree ==
  /\ part = "streams" => Streams!PendingAgree /\ Streams!NothingForgotten
  /\ part = "trims" => Trims!TypeOK
  /\ part = "blocked" => BlockedReaders!NobodyWaitsForNothing

\* Access rules (acl.c): for every command, key and channel the last rule that
\* names it decides, ACL LIST and ACL SAVE describe a user exactly, no client
\* refers to a freed user or is served as one it is not, a change that fails
\* changes nothing, and subscribers may still read what they are subscribed to.
RightsKept ==
  /\ part = "acl_commands" => AclCommands!LastRuleWins /\ AclCommands!DescribedExactly
  /\ part = "acl_keys" => AclKeys!LastRuleWins /\ AclKeys!DescribedExactly
  /\ part = "acl_users" => /\ AclUsers!NoFreedUser /\ AclUsers!UnauthenticatedIsDefault
                           /\ AclUsers!SubscribersPermitted /\ AclUsers!NoHalfChange
  /\ part = "acl_file" => AclFile!NoFreedUser /\ AclFile!SaveLoadSame

\* What no step may do: deliver an entry to two consumers of a group, change
\* the data of a server whose clients are paused, or take away a key before
\* its time (t_stream.c, db.c: expireIfNeeded, expire.c: activeExpireCycle).
NothingTooEarly ==
  [][/\ part = "blocked" => BlockedReaders!DeliveredOnce
     /\ part = "failover" => Failover!PausedDatasetConstant /\ Failover!NotBeforeItsTime]_vars
=============================================================================
