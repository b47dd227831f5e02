---------------------------- MODULE RedisAclRules ---------------------------
(***************************************************************************)
(* acl.c: the rules of ACL users.  A selector says which commands, keys    *)
(* and channels it permits; rules change it one by one, and it is written  *)
(* back as rules that give the same selector.                              *)
(*                                                                         *)
(* A rule is [t, c, a]: its kind, the command, category, pattern or        *)
(* password it names, and the set of key permissions or the first argument *)
(* it adds.  Bits of commands are a set; the reserved last bit is "future".*)
(***************************************************************************)
EXTENDS Integers, Sequences, FiniteSets, SequencesExt

CONSTANTS Commands,      \* command names, containers before their subcommands
          Container,     \* the container of a subcommand, or "none"
          Categories,    \* the categories of every command
          CategoryList,  \* ACLCommandCategories, in order
          ModuleCommands,
          Matching,      \* the keys and channels each pattern matches
          PubsubDefault  \* acl_pubsub_default: new selectors may use all channels

Op(t, c, a) == [t |-> t, c |-> c, a |-> a]
Rule(t) == Op(t, "", {})

Commandset == ToSet(Commands)
Subcommands(cmd) == {s \in Commandset : Container[s] = cmd}
IsContainer(cmd) == Subcommands(cmd) # {}

ACLCreateSelector ==
    [allkeys |-> FALSE, allchannels |-> PubsubDefault, allcommands |-> FALSE,
     cmds |-> {}, first |-> {}, patterns |-> <<>>, channels |-> <<>>]

-----------------------------------------------------------------------------
(* Commands of a selector *)

ACLSetSelectorCommandBit(s, id, on) ==
    IF on THEN [s EXCEPT !.cmds = @ \cup {id}]
    ELSE [s EXCEPT !.cmds = @ \ {id}, !.allcommands = FALSE]

ACLResetFirstArgsForCommand(s, cmd) == [s EXCEPT !.first = {f \in @ : f[1] # cmd}]

ACLChangeSelectorPerm(s, cmd, on) ==
    LET t == ACLResetFirstArgsForCommand(ACLSetSelectorCommandBit(s, cmd, on), cmd)
    IN  FoldLeft(LAMBDA r, sub : ACLSetSelectorCommandBit(r, sub, on), t, SetToSeq(Subcommands(cmd)))

\* Containers first, so that a subcommand's own category comes last.
ACLSetSelectorCommandBitsForCategory(s, cat, on) ==
    FoldLeft(LAMBDA r, cmd : IF cmd \in ModuleCommands \/ cat \notin Categories[cmd] THEN r
                             ELSE ACLChangeSelectorPerm(r, cmd, on),
             s, Commands)

\* A pattern that is there already gets the new permissions on top.
PatternSeq(ps, op) ==
    LET known == \E i \in DOMAIN ps : ps[i].pat = op.c
    IN  IF ~known THEN Append(ps, [pat |-> op.c, perms |-> op.a])
        ELSE [i \in DOMAIN ps |-> IF ps[i].pat = op.c THEN [ps[i] EXCEPT !.perms = @ \cup op.a] ELSE ps[i]]

Ok(s) == [s |-> s, err |-> "ok"]
Err(s, e) == [s |-> s, err |-> e]

ResetChannels(s) == [s EXCEPT !.allchannels = FALSE, !.channels = <<>>]

ACLSetSelector(s, op) ==
    CASE op.t = "allkeys"       -> Ok([s EXCEPT !.allkeys = TRUE, !.patterns = <<>>])
      [] op.t = "resetkeys"     -> Ok([s EXCEPT !.allkeys = FALSE, !.patterns = <<>>])
      [] op.t = "allchannels"   -> Ok([s EXCEPT !.allchannels = TRUE, !.channels = <<>>])
      [] op.t = "resetchannels" -> Ok(ResetChannels(s))
      [] op.t = "+@all" -> Ok([s EXCEPT !.cmds = Commandset \cup {"future"}, !.allcommands = TRUE, !.first = {}])
      [] op.t = "-@all" -> Ok([s EXCEPT !.cmds = {}, !.allcommands = FALSE, !.first = {}])
      [] op.t = "key" -> IF s.allkeys THEN Err(s, "EEXIST") ELSE Ok([s EXCEPT !.patterns = PatternSeq(@, op)])
      [] op.t = "channel" ->
            IF s.allchannels THEN Err(s, "EISDIR")
            ELSE Ok([s EXCEPT !.channels = IF Contains(@, op.c) THEN @ ELSE Append(@, op.c)])
      [] op.t \in {"+", "-"} ->
            IF op.c \in Commandset THEN Ok(ACLChangeSelectorPerm(s, op.c, op.t = "+")) ELSE Err(s, "ENOENT")
      [] op.t = "+|" ->
            IF op.c \notin Commandset THEN Err(s, "ENOENT")
            ELSE IF Container[op.c] # "none" THEN Err(s, "ECHILD")
            ELSE IF IsContainer(op.c) THEN Err(s, "ENOENT")
            ELSE Ok([s EXCEPT !.first = @ \cup {<<op.c, f>> : f \in op.a}])
      [] op.t \in {"+@", "-@"} ->
            IF op.c \in ToSet(CategoryList) THEN Ok(ACLSetSelectorCommandBitsForCategory(s, op.c, op.t = "+@"))
            ELSE Err(s, "ENOENT")
      [] OTHER -> Err(s, "EINVAL")

\* Rules one after the other, until one is refused.
Apply(s, ops, Step(_, _)) == FoldLeft(LAMBDA r, op : IF r.err = "ok" THEN Step(r.s, op) ELSE r, Ok(s), ops)

aclCreateSelectorFromOpSet(ops) == Apply(ACLCreateSelector, ops, ACLSetSelector)

-----------------------------------------------------------------------------
(* Describing a selector *)

ACLCountCategoryBitsForSelector(s, cat) ==
    LET of == {cmd \in Commandset : cat \in Categories[cmd]}
    IN  [on |-> Cardinality(of \cap s.cmds), off |-> Cardinality(of \ s.cmds)]

\* The category that comes nearest, of those not applied yet; the first of the best ones.
BestCategory(temp, additive, applied) ==
    LET diff(j) == LET n == ACLCountCategoryBitsForSelector(temp, CategoryList[j]) IN IF additive THEN n.off ELSE n.on
        same(j) == LET n == ACLCountCategoryBitsForSelector(temp, CategoryList[j]) IN IF additive THEN n.on ELSE n.off
        fit     == {j \in DOMAIN CategoryList : j \notin applied /\ same(j) > diff(j)}
        best    == {j \in fit : \A k \in fit : \/ diff(j) < diff(k)
                                               \/ diff(j) = diff(k) /\ same(j) > same(k)
                                               \/ diff(j) = diff(k) /\ same(j) = same(k) /\ j <= k}
    IN  IF fit = {} THEN 0 ELSE CHOOSE j \in best : TRUE

RECURSIVE DescribeCategories(_, _, _, _, _)
DescribeCategories(fake, temp, additive, applied, rules) ==
    LET do == IF additive THEN "+@" ELSE "-@"
        un == IF additive THEN "-@" ELSE "+@"
        next(j) == IF j = 0 THEN [fake |-> fake, rules |-> rules]
                   ELSE DescribeCategories(ACLSetSelector(fake, Op(do, CategoryList[j], {})).s,
                                           ACLSetSelector(temp, Op(un, CategoryList[j], {})).s,
                                           additive, applied \cup {j}, Append(rules, Op(do, CategoryList[j], {})))
    IN  next(BestCategory(temp, additive, applied))

ACLDescribeSelectorCommandRulesSingleCommands(s, d) ==
    FoldLeft(LAMBDA r, cmd :
        LET bit   == cmd \in s.cmds
            fixed == IF bit = (cmd \in r.fake.cmds) THEN r
                     ELSE [fake  |-> ACLChangeSelectorPerm(r.fake, cmd, bit),
                           rules |-> Append(r.rules, Op(IF bit THEN "+" ELSE "-", cmd, {}))]
            first == {f[2] : f \in {g \in s.first : g[1] = cmd}}
            with(w) == IF bit \/ first = {} THEN w ELSE [w EXCEPT !.rules = Append(@, Op("+|", cmd, first))]
        IN  with(fixed),
        d, Commands)

\* The rules, and the selector they were tried on.
ACLDescribeSelectorCommandRules(s) ==
    LET additive == "future" \notin s.cmds
        start    == IF additive THEN "-@all" ELSE "+@all"
        d        == DescribeCategories(ACLSetSelector(ACLCreateSelector, Rule(start)).s, s, additive, {}, <<Rule(start)>>)
    IN  ACLDescribeSelectorCommandRulesSingleCommands(s, d)

\* A pattern that permits nothing cannot be written.
sdsCatPatternString(p) == IF p.perms = {} THEN Rule("panic") ELSE Op("key", p.pat, p.perms)

ACLDescribeSelector(s) ==
    (IF s.allkeys THEN <<Rule("allkeys")>> ELSE [i \in DOMAIN s.patterns |-> sdsCatPatternString(s.patterns[i])])
    \o (IF s.allchannels THEN <<Rule("allchannels")>>
        ELSE <<Rule("resetchannels")>> \o [i \in DOMAIN s.channels |-> Op("channel", s.channels[i], {})])
    \o ACLDescribeSelectorCommandRules(s).rules

-----------------------------------------------------------------------------
(* Checks.  A call is [cmd, arg, keys, chans]: keys are pairs of a key and *)
(* the permissions it needs, chans pairs of a channel and whether it is a  *)
(* pattern.                                                                *)

ACLSelectorCheckKey(s, k) ==
    s.allkeys \/ \E i \in DOMAIN s.patterns : k[2] \subseteq s.patterns[i].perms /\ k[1] \in Matching[s.patterns[i].pat]

ACLCheckChannelAgainstList(channels, ch) ==
    \E i \in DOMAIN channels : IF ch[2] THEN channels[i] = ch[1] ELSE ch[1] \in Matching[channels[i]]

ACLSelectorCheckCmd(s, call) ==
    IF ~s.allcommands /\ call.cmd \notin s.cmds /\ <<call.cmd, call.arg>> \notin s.first THEN "cmd"
    ELSE IF \E k \in call.keys : ~ACLSelectorCheckKey(s, k) THEN "key"
    ELSE IF ~s.allchannels /\ \E ch \in call.chans : ~ACLCheckChannelAgainstList(s.channels, ch) THEN "channel"
    ELSE "ok"

Severity(e) == CASE e = "cmd" -> 1 [] e = "key" -> 2 [] e = "channel" -> 4 [] OTHER -> 0

\* Some selector must permit the whole call; otherwise the gravest reason is given.
ACLCheckAllUserCommandPerm(u, call) ==
    LET results == {ACLSelectorCheckCmd(u.selectors[i], call) : i \in DOMAIN u.selectors}
    IN  IF "ok" \in results THEN "ok"
        ELSE CHOOSE e \in results : \A f \in results : Severity(f) <= Severity(e)

-----------------------------------------------------------------------------
(* Users *)

\* As ACLCreateUser leaves it.
NewUser == [on |-> FALSE, nopass |-> FALSE, sanitize |-> "unset", passwords |-> <<>>, selectors |-> <<ACLCreateSelector>>]

ResetUser(u) ==
    LET root == ACLSetSelector([u.selectors[1] EXCEPT !.allkeys = FALSE, !.patterns = <<>>, !.channels = <<>>,
                                                      !.allchannels = PubsubDefault], Rule("-@all")).s
    IN  [on |-> FALSE, nopass |-> FALSE, sanitize |-> "sanitize", passwords |-> <<>>, selectors |-> <<root>>]

ACLSetUser(u, op) ==
    LET more(sub)  == IF sub.err = "ok" THEN Ok([u EXCEPT !.selectors = Append(@, sub.s)]) ELSE Err(u, sub.err)
        with(root) == [s |-> [u EXCEPT !.selectors[1] = root.s], err |-> root.err]
    IN  CASE op.t = "on"        -> Ok([u EXCEPT !.on = TRUE])
          [] op.t = "off"       -> Ok([u EXCEPT !.on = FALSE])
          [] op.t \in {"sanitize", "skip"} -> Ok([u EXCEPT !.sanitize = op.t])
          [] op.t = "nopass"    -> Ok([u EXCEPT !.nopass = TRUE, !.passwords = <<>>])
          [] op.t = "resetpass" -> Ok([u EXCEPT !.nopass = FALSE, !.passwords = <<>>])
          [] op.t = "pass"      ->
                Ok([u EXCEPT !.nopass = FALSE, !.passwords = IF Contains(@, op.c) THEN @ ELSE Append(@, op.c)])
          [] op.t = "delpass"   ->
                IF Contains(u.passwords, op.c) THEN Ok([u EXCEPT !.passwords = SelectSeq(@, LAMBDA p : p # op.c)])
                ELSE Err(u, "ENODEV")
          [] op.t = "("         -> more(aclCreateSelectorFromOpSet(op.a))
          [] op.t = "clearselectors" -> Ok([u EXCEPT !.selectors = <<@[1]>>])
          [] op.t = "reset"     -> Ok(ResetUser(u))
          [] OTHER -> with(ACLSetSelector(u.selectors[1], op))

\* The rules of a user as one line: selectors behind the root one are in brackets.
ACLDescribeUser(u) ==
    <<Rule(IF u.on THEN "on" ELSE "off")>>
    \o (IF u.nopass THEN <<Rule("nopass")>> ELSE <<>>)
    \o (IF u.sanitize = "unset" THEN <<>> ELSE <<Rule(u.sanitize)>>)
    \o [i \in DOMAIN u.passwords |-> Op("pass", u.passwords[i], {})]
    \o ACLDescribeSelector(u.selectors[1])
    \o [i \in 1..(Len(u.selectors) - 1) |-> Op("(", "", ACLDescribeSelector(u.selectors[i + 1]))]

\* What users can do is the same: a first argument of a command that is allowed as a whole
\* does not matter.
SameSelector(s, t) ==
    /\ [s EXCEPT !.first = {}, !.allcommands = FALSE] = [t EXCEPT !.first = {}, !.allcommands = FALSE]
    /\ {f \in s.first : f[1] \notin s.cmds} = {f \in t.first : f[1] \notin t.cmds}
    /\ s.allcommands => Commandset \subseteq t.cmds
    /\ t.allcommands => Commandset \subseteq s.cmds
=============================================================================
