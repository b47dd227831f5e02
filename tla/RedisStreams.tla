---------------------------- MODULE RedisStreams ----------------------------
(***************************************************************************)
(* Streams in Redis 7.0.0 (t_stream.c): one stream with its consumer       *)
(* groups and pending entries, the clients that block on it, a replica     *)
(* that runs what is propagated, and the commands an AOF rewrite makes of  *)
(* it.  IDs are the numbers 1..MaxId, MaxId being the last possible one;   *)
(* 0 is the ID 0-0.  Fields, idle times and delivery counts are left out:  *)
(* whether an entry is idle long enough is part of a command.              *)
(***************************************************************************)
EXTENDS Integers, Sequences, FiniteSets, SequencesExt

CONSTANTS Groups, Consumers, Readers,
          MaxId,       \* the last possible ID
          NodeMax,     \* stream-node-max-entries at the master
          ReplicaNodeMax, \* and at the replica
          NoOne,       \* no consumer, no group
          Ops,         \* the commands that clients send
          MaxCommands, \* bound: commands sent
          MaxQueue     \* bound: commands the replica may be behind when a command is sent

StreamsAssumption ==
  MaxId \in Nat \ {0} /\ {NodeMax, ReplicaNodeMax} \subseteq Nat \ {0} /\ NoOne \notin Groups \cup Consumers

VARIABLES s,        \* the stream at the master
          r,        \* at the replica
          queue,    \* commands propagated and not yet run by the replica
          blocked,  \* the clients blocked on the stream, in order
          served,   \* what each reader was last served with
          due,      \* entries delivered and neither acknowledged nor given up, by group
          commands

vars == <<s, r, queue, blocked, served, due, commands>>

Ids == 1..MaxId
Unknown == -1   \* SCG_INVALID_ENTRIES_READ

NoGroup == [there |-> FALSE, last |-> 0, read |-> Unknown, owner |-> [i \in Ids |-> NoOne],
            consumers |-> {}, pel |-> [c \in Consumers |-> {}]]
streamCreateCG(id, read) == [NoGroup EXCEPT !.there = TRUE, !.last = id, !.read = read]

streamNew(max) == [there |-> TRUE, max |-> max, nodes |-> <<>>, length |-> 0, first |-> 0, last |-> 0, maxdel |-> 0, added |-> 0,
              groups |-> [g \in Groups |-> NoGroup]]
NoStream(max) == [streamNew(max) EXCEPT !.there = FALSE]

Init ==
  /\ s = NoStream(NodeMax) /\ r = NoStream(ReplicaNodeMax) /\ queue = <<>> /\ blocked = <<>>
  /\ served = [x \in Readers |-> [how |-> "none", g |-> NoOne, ids |-> {}]]
  /\ due = [g \in Groups |-> {}] /\ commands = 0

-----------------------------------------------------------------------------
(* Entries.  A node is a sequence of entries; a deleted one is only marked. *)

Entry(id) == [id |-> id, del |-> FALSE]
LiveIn(nd) == {nd[i].id : i \in {j \in 1..Len(nd) : ~nd[j].del}}
Live(st) == UNION {LiveIn(st.nodes[i]) : i \in 1..Len(st.nodes)}
Least(ids) == CHOOSE i \in ids : \A j \in ids : i <= j
Greatest(ids) == CHOOSE i \in ids : \A j \in ids : j <= i
Ascending(ids) == SetToSortSeq(ids, <)

streamNextID(st) == st.last + 1
streamLastValidID(st) == IF Live(st) = {} THEN 0 ELSE Greatest(Live(st))
FirstID(st) == IF Live(st) = {} THEN 0 ELSE Least(Live(st))
streamGetEdgeID(st) == IF st.nodes = <<>> THEN MaxId ELSE st.nodes[1][1].id

streamAppendItem(st, id) ==
  LET n == Len(st.nodes)
      nodes == IF n > 0 /\ Len(st.nodes[n]) < st.max
               THEN [st.nodes EXCEPT ![n] = Append(@, Entry(id))]
               ELSE Append(st.nodes, <<Entry(id)>>)
  IN [st EXCEPT !.nodes = nodes, !.length = @ + 1, !.added = @ + 1, !.last = id,
                !.first = IF st.length = 0 THEN id ELSE @]

\* The first n live entries of a node marked as deleted.
Mark(nd, ids) == [i \in 1..Len(nd) |-> [id |-> nd[i].id, del |-> nd[i].del \/ nd[i].id \in ids]]

\* Whole nodes from the head on while that is allowed, then, unless the trim is approximate, entries of one node.
TrimStep(t, w, nd) ==
  LET live == LiveIn(nd)
      whole == IF t.kind = "maxlen" THEN w.length - Cardinality(live) >= t.arg ELSE nd[Len(nd)].id < t.arg
      ids == IF t.kind = "maxlen" THEN {i \in live : w.length - Cardinality({j \in live : j < i}) > t.arg}
             ELSE {i \in live : i < t.arg}
  IN IF w.stop \/ (t.kind = "maxlen" /\ w.length <= t.arg) THEN [w EXCEPT !.nodes = Append(@, nd), !.stop = TRUE]
     ELSE IF whole THEN [w EXCEPT !.length = @ - Cardinality(live)]
     ELSE IF t.approx THEN [w EXCEPT !.nodes = Append(@, nd), !.stop = TRUE]
     ELSE [nodes |-> Append(w.nodes, Mark(nd, ids)), length |-> w.length - Cardinality(ids), stop |-> TRUE]

streamTrim(st, t) ==
  LET cut(w) == [st EXCEPT !.nodes = w.nodes, !.length = w.length,
                           !.first = IF w.length = 0 THEN 0 ELSE IF w.length < st.length THEN FirstID([st EXCEPT !.nodes = w.nodes]) ELSE @]
  IN IF t.kind = "none" THEN st
     ELSE cut(FoldLeft(LAMBDA v, nd : TrimStep(t, v, nd), [nodes |-> <<>>, length |-> st.length, stop |-> FALSE], st.nodes))

\* What is propagated for a trim: exactly what was done.
streamRewriteTrimArgument(st, t) ==
  IF ~t.approx THEN t
  ELSE [t EXCEPT !.approx = FALSE, !.arg = IF t.kind = "maxlen" THEN st.length ELSE streamGetEdgeID(st)]

\* The node goes with its last live entry.
streamDeleteItem(st, id) ==
  LET nodes == SelectSeq([i \in 1..Len(st.nodes) |-> IF id \in LiveIn(st.nodes[i]) THEN Mark(st.nodes[i], {id}) ELSE st.nodes[i]],
                         LAMBDA nd : LiveIn(nd) # {} \/ \A i \in 1..Len(nd) : nd[i].id # id)
  IN [st EXCEPT !.nodes = nodes, !.length = @ - 1]

-----------------------------------------------------------------------------
(* How far a group is: its counter of entries read.                        *)

streamRangeHasTombstones(st, start) ==
  st.length # 0 /\ st.maxdel # 0 /\ st.first <= st.maxdel /\ start <= st.maxdel

streamEstimateDistanceFromFirstEverEntry(st, id) ==
  IF st.added = 0 THEN 0
  ELSE IF (st.length = 0 /\ id <= st.last) \/ id = st.last THEN st.added
  ELSE IF id > st.last THEN Unknown
  ELSE IF st.maxdel = 0 \/ st.maxdel < st.first
  THEN IF id < st.first THEN st.added - st.length
       ELSE IF id = st.first THEN st.added - st.length + 1 ELSE Unknown
  ELSE Unknown

-----------------------------------------------------------------------------
(* Groups, consumers and pending entries.  A pending entry is in the PEL   *)
(* of the group and in that of its consumer.                               *)

Done(st, prop, got) == [s |-> st, prop |-> prop, got |-> got]
Nothing(st) == Done(st, <<>>, {})

streamPropagateXCLAIM(st, g, c, id) ==
  [op |-> "xclaim", g |-> g, c |-> c, id |-> id, force |-> TRUE, idle |-> TRUE, last |-> st.groups[g].last]
streamPropagateGroupID(st, g) == [op |-> "setid", g |-> g, id |-> st.groups[g].last, read |-> st.groups[g].read]
streamPropagateConsumerCreation(g, c) == [op |-> "createconsumer", g |-> g, c |-> c]

streamCreateConsumer(st, g, c) == [st EXCEPT !.groups[g].consumers = @ \cup {c}]

\* Mutant: the entry stays with the consumer that had it, too.
AssignTwice(st, g, c, id) == [st EXCEPT !.groups[g].owner[id] = c, !.groups[g].pel[c] = @ \cup {id}]

\* The pending entry now belongs to c.
Assign(st, g, c, id) ==
  LET o == st.groups[g].owner[id]
      st1 == IF o = NoOne THEN st ELSE [st EXCEPT !.groups[g].pel[o] = @ \ {id}]
  IN [st1 EXCEPT !.groups[g].owner[id] = c, !.groups[g].pel[c] = @ \cup {id}]

\* The entry is no longer pending.
Release(st, g, id) ==
  LET o == st.groups[g].owner[id]
  IN IF o = NoOne THEN st
     ELSE [st EXCEPT !.groups[g].owner[id] = NoOne, !.groups[g].pel[o] = @ \ {id}]

\* The counter of a group that goes on to id.
ReadAt(st, grp, id) ==
  IF grp.read # Unknown /\ ~streamRangeHasTombstones(st, id) THEN grp.read + 1
  ELSE IF st.added # 0 THEN streamEstimateDistanceFromFirstEverEntry(st, id) ELSE grp.read

\* One entry given to consumer c of group g: the group advances, the entry becomes pending.
DeliverStep(g, c, noack, w, id) ==
  LET advance(st, grp) == IF id > grp.last THEN [st EXCEPT !.groups[g].last = id, !.groups[g].read = ReadAt(st, grp, id)] ELSE st
      deliver(st) == Done(st, IF noack THEN w.prop ELSE Append(w.prop, streamPropagateXCLAIM(st, g, c, id)), w.got \cup {id})
      pending(st) == IF noack THEN st ELSE Assign(st, g, c, id)
  IN deliver(pending(advance(w.s, w.s.groups[g])))

\* XREADGROUP of new entries, of which there is at least one when it is not for a blocked client.
streamReplyWithRange(st, g, c, noack) ==
  LET new == c \notin st.groups[g].consumers
      start == Done(streamCreateConsumer(st, g, c), IF new /\ noack THEN <<streamPropagateConsumerCreation(g, c)>> ELSE <<>>, {})
      end(w, ids) == IF noack /\ ids # {} THEN [w EXCEPT !.prop = Append(@, streamPropagateGroupID(w.s, g))] ELSE w
      all(ids) == end(FoldLeft(LAMBDA v, id : DeliverStep(g, c, noack, v, id), start, Ascending(ids)), ids)
  IN all({i \in Live(st) : i > st.groups[g].last})

-----------------------------------------------------------------------------
(* The commands: the next stream, what is propagated, what the client got. *)

xaddCommand(st, c) ==
  LET done(to, id) == Done(to, <<[c EXCEPT !.id = id, !.trim = streamRewriteTrimArgument(to, c.trim)]>>, {})
      add(at, id) == IF at.last = MaxId \/ id <= at.last THEN Nothing(st) ELSE done(streamTrim(streamAppendItem(at, id), c.trim), id)
      from(at) == add(at, IF c.id = 0 THEN streamNextID(at) ELSE c.id)
  IN from(IF st.there THEN st ELSE streamNew(st.max))

xtrimCommand(st, c) ==
  LET done(to) == IF to.length = st.length THEN Nothing(st)
                  ELSE Done(to, <<[c EXCEPT !.trim = streamRewriteTrimArgument(to, c.trim)]>>, {})
  IN IF ~st.there THEN Nothing(st) ELSE done(streamTrim(st, c.trim))

xdelCommand(st, c) ==
  LET done(to) == Done([to EXCEPT !.first = IF to.length = 0 \/ c.id = st.first THEN FirstID(to) ELSE @,
                                  !.maxdel = IF c.id > @ THEN c.id ELSE @], <<c>>, {})
  IN IF c.id \notin Live(st) THEN Nothing(st) ELSE done(streamDeleteItem(st, c.id))

\* CREATE makes the stream when it is told to.
xgroupCreate(st, c) ==
  LET st0 == IF st.there THEN st ELSE streamNew(st.max)
  IN IF (~st.there /\ ~c.mk) \/ st0.groups[c.g].there THEN Nothing(st)
     ELSE Done([st0 EXCEPT !.groups[c.g] = streamCreateCG(c.id, c.read)], <<c>>, {})

xgroupSetid(st, c) ==
  IF ~st.groups[c.g].there THEN Nothing(st)
  ELSE Done([st EXCEPT !.groups[c.g].last = c.id, !.groups[c.g].read = c.read], <<c>>, {})

xgroupDestroy(st, c) ==
  IF ~st.groups[c.g].there THEN Nothing(st) ELSE Done([st EXCEPT !.groups[c.g] = NoGroup], <<c>>, {})

xgroupCreateconsumer(st, c) ==
  IF ~st.groups[c.g].there \/ c.c \in st.groups[c.g].consumers THEN Nothing(st)
  ELSE Done(streamCreateConsumer(st, c.g, c.c), <<c>>, {})

\* The consumer's pending entries are dropped with it.
streamDelConsumer(st, g, c) ==
  [st EXCEPT !.groups[g].owner = [i \in Ids |-> IF st.groups[g].owner[i] = c THEN NoOne ELSE st.groups[g].owner[i]],
             !.groups[g].pel[c] = {}, !.groups[g].consumers = @ \ {c}]

xgroupDelconsumer(st, c) ==
  IF ~st.groups[c.g].there \/ c.c \notin st.groups[c.g].consumers THEN Nothing(st)
  ELSE Done(streamDelConsumer(st, c.g, c.c), <<c>>, {})

xsetidCommand(st, c) ==
  IF ~st.there \/ c.id < c.maxdel \/ (st.length > 0 /\ (c.id < streamLastValidID(st) \/ c.added < st.length))
  THEN Nothing(st)
  ELSE Done([st EXCEPT !.last = c.id, !.added = c.added, !.maxdel = IF c.maxdel = 0 THEN @ ELSE c.maxdel], <<c>>, {})

xackCommand(st, c) ==
  IF st.groups[c.g].owner[c.id] = NoOne THEN Nothing(st) ELSE Done(Release(st, c.g, c.id), <<c>>, {})

\* An entry that is gone from the stream is no longer pending; with FORCE one need not be pending before.
xclaimCommand(st, c) ==
  LET g == c.g
      o == st.groups[g].owner[c.id]
      ahead == c.last > st.groups[g].last
      given(to) == Done(to, <<streamPropagateXCLAIM(to, g, c.c, c.id)>>, {})
      claim(at) ==
        LET same == Done(at, IF ahead THEN <<streamPropagateGroupID(at, g)>> ELSE <<>>, {})
        IN IF c.id \notin Live(at)
           THEN IF o = NoOne THEN same ELSE Done(Release(at, g, c.id), <<streamPropagateXCLAIM(at, g, o, c.id)>>, {})
           ELSE IF (o = NoOne /\ ~c.force) \/ (o # NoOne /\ ~c.idle) THEN same
           ELSE given(Assign(streamCreateConsumer(at, g, c.c), g, c.c, c.id))
  IN IF ~st.groups[g].there THEN Nothing(st) ELSE claim(IF ahead THEN [st EXCEPT !.groups[g].last = c.last] ELSE st)

\* Every pending entry from the start on that is idle enough, as with XCLAIM.
xautoclaimCommand(st, c) ==
  LET g == c.g
      done(w, to, o, id) == Done(to, Append(w.prop, streamPropagateXCLAIM(to, g, o, id)), {})
      step(w, id) ==
        IF id \notin Live(st) THEN done(w, Release(w.s, g, id), w.s.groups[g].owner[id], id)
        ELSE IF ~c.idle THEN w
        ELSE done(w, Assign(streamCreateConsumer(w.s, g, c.c), g, c.c, id), c.c, id)
  IN IF ~st.groups[g].there THEN Nothing(st)
     ELSE FoldLeft(step, Nothing(st), Ascending({i \in Ids : i >= c.id /\ st.groups[g].owner[i] # NoOne}))

\* XREADGROUP: the consumer's own pending entries, which changes nothing else, or new ones when there are some.
xreadgroupCommand(st, c) ==
  IF ~st.groups[c.g].there THEN Nothing(st)
  ELSE IF c.history
  THEN Done(streamCreateConsumer(st, c.g, c.c),
            IF c.c \notin st.groups[c.g].consumers /\ c.noack THEN <<streamPropagateConsumerCreation(c.g, c.c)>> ELSE <<>>, {})
  ELSE IF st.length > 0 /\ streamLastValidID(st) > st.groups[c.g].last
  THEN streamReplyWithRange(st, c.g, c.c, c.noack)
  ELSE Nothing(st)

delCommand(st, c) == IF st.there THEN Done(NoStream(st.max), <<c>>, {}) ELSE Nothing(st)

call(st, c) ==
  CASE c.op = "xadd" -> xaddCommand(st, c)
    [] c.op = "xtrim" -> xtrimCommand(st, c)
    [] c.op = "xdel" -> xdelCommand(st, c)
    [] c.op = "create" -> xgroupCreate(st, c)
    [] c.op = "setid" -> xgroupSetid(st, c)
    [] c.op = "destroy" -> xgroupDestroy(st, c)
    [] c.op = "createconsumer" -> xgroupCreateconsumer(st, c)
    [] c.op = "delconsumer" -> xgroupDelconsumer(st, c)
    [] c.op = "xsetid" -> xsetidCommand(st, c)
    [] c.op = "xack" -> xackCommand(st, c)
    [] c.op = "xclaim" -> xclaimCommand(st, c)
    [] c.op = "xautoclaim" -> xautoclaimCommand(st, c)
    [] c.op = "xreadgroup" -> xreadgroupCommand(st, c)
    [] c.op = "del" -> delCommand(st, c)

-----------------------------------------------------------------------------
(* Blocked clients.                                                        *)

\* A client of a group waits for what the group has not delivered yet.
ServeStep(w, b) ==
  LET st == w.s
      gt == IF b.g = NoOne THEN b.gt ELSE st.groups[b.g].last
      serve(d) == [w EXCEPT !.s = d.s, !.prop = @ \o d.prop, !.served[b.cl] = [how |-> "data", g |-> b.g, ids |-> d.got],
                            !.got = IF b.g = NoOne THEN @ ELSE Append(@, [g |-> b.g, ids |-> d.got, noack |-> b.noack])]
  IN IF b.g # NoOne /\ ~st.groups[b.g].there
     THEN [w EXCEPT !.served[b.cl] = [how |-> "error", g |-> NoOne, ids |-> {}]]
     ELSE IF st.last > gt
     THEN serve(IF b.g = NoOne THEN Done(st, <<>>, {i \in Live(st) : i > gt}) ELSE streamReplyWithRange(st, b.g, b.c, b.noack))
     ELSE [w EXCEPT !.blocked = Append(@, b)]

serveClientsBlockedOnStreamKey(st) ==
  FoldLeft(ServeStep, [s |-> st, prop |-> <<>>, blocked |-> <<>>, served |-> served, got |-> <<>>], blocked)

\* Clients of groups do not wait for a stream that was deleted.
unblockDeletedStreamReadgroupClients(st) ==
  LET gone == {blocked[i].cl : i \in {j \in 1..Len(blocked) : blocked[j].g # NoOne}}
  IN [s |-> st, prop |-> <<>>, got |-> <<>>, blocked |-> SelectSeq(blocked, LAMBDA b : b.g = NoOne),
      served |-> [x \in Readers |-> IF x \in gone THEN [how |-> "error", g |-> NoOne, ids |-> {}] ELSE served[x]]]

signalKeyAsReady(c) == c.op \in {"xadd", "destroy", "del"}

handleClientsBlockedOnKeys(st, c) ==
  IF ~signalKeyAsReady(c) THEN [s |-> st, prop |-> <<>>, blocked |-> blocked, served |-> served, got |-> <<>>]
  ELSE IF st.there THEN serveClientsBlockedOnStreamKey(st) ELSE unblockDeletedStreamReadgroupClients(st)

-----------------------------------------------------------------------------
(* Clients, and the replica.                                               *)

NoTrim == [kind |-> "none", arg |-> 0, approx |-> FALSE]
Trims == [kind : {"maxlen"}, arg : 0..2, approx : BOOLEAN] \cup [kind : {"minid"}, arg : Ids, approx : BOOLEAN]

Requests ==
  [op : {"xadd"}, id : 0..MaxId, trim : {NoTrim}] \cup (IF "trim" \in Ops THEN [op : {"xadd"}, id : {0}, trim : Trims] ELSE {})
  \cup [op : {"xtrim"}, trim : Trims]
  \cup [op : {"xdel"}, id : Ids]
  \cup [op : {"create"}, g : Groups, id : 0..MaxId, read : {Unknown}, mk : BOOLEAN]
  \cup [op : {"setid"}, g : Groups, id : 0..MaxId, read : {Unknown}]
  \cup [op : {"destroy"}, g : Groups] \cup [op : {"del"}]
  \cup [op : {"createconsumer", "delconsumer"}, g : Groups, c : Consumers]
  \cup [op : {"xsetid"}, id : 0..MaxId, added : 0..MaxId, maxdel : {0}]
  \cup [op : {"xack"}, g : Groups, id : Ids]
  \cup [op : {"xclaim"}, g : Groups, c : Consumers, id : Ids, force : BOOLEAN, idle : BOOLEAN, last : 0..MaxId]
  \cup [op : {"xautoclaim"}, g : Groups, c : Consumers, id : 0..1, idle : BOOLEAN]
  \cup [op : {"xreadgroup"}, g : Groups, c : Consumers, noack : BOOLEAN, history : {FALSE}]
  \cup (IF "history" \in Ops THEN [op : {"xreadgroup"}, g : Groups, c : Consumers, noack : BOOLEAN, history : {TRUE}] ELSE {})

\* What must still be acknowledged, group by group.
DueAfter(c, before, after) ==
  [g \in Groups |->
     IF ~after.groups[g].there \/ (c.op = "create" /\ c.g = g) THEN {}
     ELSE LET dropped == IF c.op = "xack" /\ c.g = g THEN {c.id}
                         ELSE IF c.op = "delconsumer" /\ c.g = g THEN before.groups[g].pel[c.c] ELSE {}
          IN due[g] \ dropped]

Delivered(d, got) == FoldLeft(LAMBDA e, x : IF x.noack THEN e ELSE [e EXCEPT ![x.g] = @ \cup x.ids], d, got)

clientCommand(c) ==
  /\ commands < MaxCommands /\ Len(queue) <= MaxQueue /\ commands' = commands + 1
  /\ c.op \in Ops
  /\ \E a \in {call(s, c)} : \E w \in {handleClientsBlockedOnKeys(a.s, IF a.prop = <<>> THEN [op |-> "none"] ELSE c)} :
       /\ s' = w.s /\ queue' = queue \o a.prop \o w.prop
       /\ blocked' = w.blocked /\ served' = w.served
       /\ due' = Delivered(DueAfter(c, s, a.s),
                           (IF c.op = "xreadgroup" THEN <<[g |-> c.g, ids |-> a.got, noack |-> c.noack]>> ELSE <<>>) \o w.got)
  /\ UNCHANGED r

\* XREAD and XREADGROUP with BLOCK, when there is nothing to serve.
blockForKeys(b) ==
  LET gt == IF b.g = NoOne THEN b.gt ELSE s.groups[b.g].last
  IN /\ commands < MaxCommands /\ Len(queue) <= MaxQueue /\ commands' = commands + 1 /\ "block" \in Ops
     /\ \A i \in 1..Len(blocked) : blocked[i].cl # b.cl
     /\ b.g # NoOne => s.groups[b.g].there
     /\ ~(s.length > 0 /\ streamLastValidID(s) > gt)
     /\ blocked' = Append(blocked, [b EXCEPT !.gt = gt])
     /\ served' = [served EXCEPT ![b.cl] = [how |-> "none", g |-> NoOne, ids |-> {}]]
     /\ UNCHANGED <<s, r, queue, due>>

replicate ==
  /\ queue # <<>>
  /\ r' = call(r, Head(queue)).s /\ queue' = Tail(queue)
  /\ UNCHANGED <<s, blocked, served, due, commands>>

Next ==
  \/ \E c \in Requests : clientCommand(c)
  \/ \E b \in [cl : Readers, g : Groups \cup {NoOne}, c : Consumers \cup {NoOne}, gt : 0..MaxId, noack : BOOLEAN] :
       /\ b.g = NoOne <=> b.c = NoOne
       /\ IF b.g = NoOne THEN ~b.noack ELSE b.gt = 0
       /\ blockForKeys(b)
  \/ replicate

Spec == Init /\ [][Next]_vars

-----------------------------------------------------------------------------
(* AOF rewrite: the commands that make the stream again.                   *)

rioWriteStreamPendingEntry(g, c, id) ==
  [op |-> "xclaim", g |-> g, c |-> c, id |-> id, force |-> TRUE, idle |-> TRUE, last |-> 0]
rioWriteStreamEmptyConsumer(g, c) == [op |-> "createconsumer", g |-> g, c |-> c]

rewriteConsumer(st, g, c) ==
  LET p == Ascending(st.groups[g].pel[c])
  IN IF p = <<>> THEN <<rioWriteStreamEmptyConsumer(g, c)>>
     ELSE [i \in 1..Len(p) |-> rioWriteStreamPendingEntry(g, c, p[i])]

rewriteStreamObject(st) ==
  LET adds == IF st.length > 0 THEN [i \in 1..st.length |-> [op |-> "xadd", id |-> Ascending(Live(st))[i], trim |-> NoTrim]]
              ELSE <<[op |-> "xadd", id |-> 1, trim |-> [kind |-> "maxlen", arg |-> 0, approx |-> FALSE]]>>
      setid == <<[op |-> "xsetid", id |-> st.last, added |-> st.added, maxdel |-> st.maxdel]>>
      group(g) == <<[op |-> "create", g |-> g, id |-> st.groups[g].last, read |-> st.groups[g].read, mk |-> FALSE]>>
                  \o FlattenSeq([i \in 1..Cardinality(st.groups[g].consumers) |->
                                   rewriteConsumer(st, g, SetToSeq(st.groups[g].consumers)[i])])
      gs == SetToSeq({g \in Groups : st.groups[g].there})
  IN adds \o setid \o FlattenSeq([i \in 1..Len(gs) |-> group(gs[i])])

\* COPY: the new pending entries get their consumer from the consumers' own lists.
streamDup(st) ==
  [st EXCEPT !.groups = [g \in Groups |->
     [st.groups[g] EXCEPT !.owner = [i \in Ids |->
        IF \E c \in st.groups[g].consumers : i \in st.groups[g].pel[c]
        THEN CHOOSE c \in st.groups[g].consumers : i \in st.groups[g].pel[c] ELSE NoOne]]]]

-----------------------------------------------------------------------------
(* Properties.                                                             *)

\* The stream's counters fit its entries (streamTrim and xdelCommand keep first_id up to date), and IDs grow.
TypeOK ==
  /\ s.length = Cardinality(Live(s)) /\ s.first = FirstID(s) /\ s.last >= streamLastValidID(s)
  /\ \A i, j \in 1..Len(s.nodes) : \A a \in 1..Len(s.nodes[i]), b \in 1..Len(s.nodes[j]) :
       ((i < j \/ (i = j /\ a < b)) /\ ~s.nodes[i][a].del /\ ~s.nodes[j][b].del) => s.nodes[i][a].id < s.nodes[j][b].id

\* The PEL of a group and the PELs of its consumers hold the same entries, each with one consumer, who exists:
\* XACK, XCLAIM, XGROUP DELCONSUMER and re-deliveries keep both; and COPY rebuilds one from the other.
PendingAgree ==
  /\ \A g \in Groups : LET grp == s.groups[g] IN
       \A c \in Consumers, i \in Ids : (grp.owner[i] = c <=> i \in grp.pel[c]) /\ (i \in grp.pel[c] => c \in grp.consumers)
  /\ streamDup(s) = s

\* An entry that was delivered to a group stays pending until it is acknowledged, or given up with its consumer,
\* whatever claims and re-deliveries happen to it: no message is lost in between.
NothingForgotten == \A g \in Groups : due[g] \cap Live(s) \subseteq {i \in Ids : s.groups[g].owner[i] # NoOne}

\* The replica that has run everything has the same entries, groups, consumers and pending entries; the read
\* counters, which XCLAIM does not carry, and how entries are put into nodes may differ.
Shape(st) == [st EXCEPT !.max = 0, !.nodes = Live(st), !.groups = [g \in Groups |-> [st.groups[g] EXCEPT !.read = 0]]]
Converges == queue = <<>> => Shape(r) = Shape(s)

\* No client stays blocked while the stream has an entry for it.
NobodyWaitsForNothing ==
  \A i \in 1..Len(blocked) :
    LET b == blocked[i]
        gt == IF b.g = NoOne THEN b.gt ELSE s.groups[b.g].last
    IN (b.g # NoOne => s.groups[b.g].there) /\ \A id \in Live(s) : id <= gt

\* Two clients of one group that an XADD wakes are not served the same entry: each is served after the last ID of the
\* one before, in the order in which they blocked.
DeliveredOnce ==
  \A x, y \in Readers :
    (x # y /\ served'[x] # served[x] /\ served'[y] # served[y] /\ served'[x].g = served'[y].g /\ served'[x].g # NoOne)
      => served'[x].ids \cap served'[y].ids = {}

\* The commands of an AOF rewrite make the stream again: its entries and counters, its groups with their counters,
\* and what is pending of entries that are still there.
RewriteKeeps ==
  s.there =>
    \A t \in {FoldLeft(LAMBDA st, c : call(st, c).s, NoStream(NodeMax), rewriteStreamObject(s))} :
       /\ Live(t) = Live(s) /\ t.length = s.length /\ t.first = s.first
       /\ t.last = s.last /\ t.added = s.added /\ t.maxdel = s.maxdel
       /\ \A g \in Groups :
            /\ t.groups[g].there = s.groups[g].there /\ t.groups[g].last = s.groups[g].last /\ t.groups[g].read = s.groups[g].read
            /\ \A i \in Live(s) : t.groups[g].owner[i] = s.groups[g].owner[i]
            /\ \A c \in s.groups[g].consumers : s.groups[g].pel[c] \subseteq Live(s) => c \in t.groups[g].consumers
=============================================================================
