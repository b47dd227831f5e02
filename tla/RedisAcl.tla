------------------------------ MODULE RedisAcl ------------------------------
(***************************************************************************)
(* acl.c: the table of users, the connections that act as them, and the    *)
(* file the users are saved in.  ACL SETUSER, DELUSER, LOAD and SAVE, AUTH,*)
(* the requirepass parameter and SUBSCRIBE run in any order; the server    *)
(* ends and starts again from its file.                                    *)
(*                                                                         *)
(* A rule as text is a token [open, shut, op]: whether an opening bracket  *)
(* stands before it and a closing one behind it.  Patterns whose own name  *)
(* ends in a closing bracket are in the domain of Strip.                   *)
(***************************************************************************)
EXTENDS RedisAclRules

CONSTANTS Names,         \* user names, "default" among them
          Targets,       \* users that are changed by ACL SETUSER
          Clients,
          Changes,       \* argument lists of ACL SETUSER
          Passwords,
          Channels,      \* channels that are subscribed to
          Strip,         \* patterns ending in a bracket, without it
          MaxSelectors,  \* bound on the selectors of a user
          Features       \* which of "file", "requirepass", "subscribe", "del" happen

VARIABLES users,    \* Users: the rules of every user that exists
          clients,  \* connections: state, user, authenticated, subscribed channels
          file,     \* lines of the ACL file
          server    \* "up", "exited" or "crashed"

vars == <<users, clients, file, server>>

Token(op) == [open |-> FALSE, shut |-> FALSE, op |-> op]
EndsInBracket(tok) == tok.shut \/ tok.op.c \in DOMAIN Strip
Gone == [st |-> "gone", user |-> "default", auth |-> FALSE, subs |-> {}]

ACLCreateDefaultUser ==
    Apply(NewUser, <<Rule("+@all"), Rule("allkeys"), Rule("allchannels"), Rule("on"), Rule("nopass")>>, ACLSetUser).s

Init ==
    /\ users = [n \in {"default"} |-> ACLCreateDefaultUser]
    /\ clients = [c \in Clients |-> Gone]
    /\ file = <<>>
    /\ server = "up"

-----------------------------------------------------------------------------
(* Text of rules *)

\* A selector is written in brackets around its rules.
SelectorTokens(rules) ==
    [i \in DOMAIN rules |-> [open |-> i = 1, shut |-> i = Len(rules), op |-> rules[i]]]

Describe(u) ==
    FoldLeft(LAMBDA toks, op : toks \o (IF op.t = "(" THEN SelectorTokens(op.a) ELSE <<Token(op)>>),
             <<>>, ACLDescribeUser(u))

\* The last character of a selector is taken for its bracket, whatever it was meant to be.
LastRule(tok) == IF tok.shut THEN tok.op ELSE [tok.op EXCEPT !.c = Strip[@]]
BracketRule(toks) == Op("(", "", [i \in DOMAIN toks |-> IF i = Len(toks) THEN LastRule(toks[i]) ELSE toks[i].op])

\* The merged arguments; open is the selector that was not closed.
ACLMergeSelectorArguments(toks) ==
    FoldLeft(LAMBDA r, tok :
        IF tok.open /\ ~EndsInBracket(tok) THEN [r EXCEPT !.open = <<tok>>]
        ELSE IF r.open # <<>> THEN
            IF EndsInBracket(tok) THEN [args |-> Append(r.args, BracketRule(Append(r.open, tok))), open |-> <<>>]
            ELSE [r EXCEPT !.open = Append(@, tok)]
        ELSE [r EXCEPT !.args = Append(@, IF tok.open THEN BracketRule(<<tok>>) ELSE tok.op)],
        [args |-> <<>>, open |-> <<>>], toks)

-----------------------------------------------------------------------------
(* Users and their connections *)

\* The user object is freed: its connections go to the default user, unauthenticated,
\* and are closed; the one that runs the command is closed after its reply.
ACLFreeUserAndKillClients(cs, name) ==
    [c \in Clients |-> IF cs[c].st = "open" /\ cs[c].user = name
                       THEN [cs[c] EXCEPT !.user = "default", !.auth = FALSE, !.st = "closing"] ELSE cs[c]]

\* Mutant: the connections of a user that is deleted live on.
FreeOnly(cs, names) == cs

FreeUsers(cs, names) == FoldLeft(ACLFreeUserAndKillClients, cs, SetToSeq(names))

AllChannelsOf(u) == \E i \in DOMAIN u.selectors : u.selectors[i].allchannels
ChannelsOf(u) == FoldLeft(LAMBDA l, s : l \o s.channels, <<>>, u.selectors)

\* The lists of the two users hold different copies of the names, so that a channel of the
\* old user is never found among the new ones: only an old user without channels is let off.
ACLKillPubsubClientsIfNeeded(cs, name, new) ==
    IF AllChannelsOf(new) \/ ChannelsOf(users[name]) = <<>> THEN cs
    ELSE [c \in Clients |->
            IF cs[c].user = name /\ \E ch \in cs[c].subs : ~ACLCheckChannelAgainstList(ChannelsOf(new), ch)
            THEN Gone ELSE cs[c]]

Open(c) == server = "up" /\ clients[c].st = "open"

authRequired(c) == (~users["default"].nopass \/ ~users["default"].on) /\ ~clients[c].auth

\* processCommand: authentication first, then the rules of the user; connections that have
\* subscribed can only subscribe.
Permitted(c, call) ==
    /\ Open(c)
    /\ ~authRequired(c)
    /\ clients[c].subs # {} => call.chans # {}
    /\ ACLCheckAllUserCommandPerm(users[clients[c].user], call) = "ok"

AclCall == [cmd |-> "acl", arg |-> "", keys |-> {}, chans |-> {}]

createClient(c) ==
    /\ server = "up"
    /\ clients[c].st = "gone"
    /\ clients' = [clients EXCEPT ![c] = [st |-> "open", user |-> "default", subs |-> {},
                                          auth |-> users["default"].nopass /\ users["default"].on]]
    /\ UNCHANGED <<users, file, server>>

freeClient(c) ==
    /\ clients[c].st # "gone"
    /\ clients' = [clients EXCEPT ![c] = Gone]
    /\ UNCHANGED <<users, file, server>>

ACLCheckUserCredentials(name, pass) ==
    /\ name \in DOMAIN users
    /\ users[name].on
    /\ users[name].nopass \/ Contains(users[name].passwords, pass)

\* Subscribed connections cannot run AUTH.  The form without a name is an error when
\* the default user has no password.
authCommand(c, name, pass) ==
    /\ Open(c)
    /\ clients[c].subs = {}
    /\ ACLCheckUserCredentials(name, pass)
    /\ clients' = [clients EXCEPT ![c].user = name, ![c].auth = TRUE]
    /\ UNCHANGED <<users, file, server>>

subscribeCommand(c, ch) ==
    /\ "subscribe" \in Features
    /\ Permitted(c, [cmd |-> "subscribe", arg |-> ch[1], keys |-> {}, chans |-> {ch}])
    /\ clients' = [clients EXCEPT ![c].subs = @ \cup {ch}]
    /\ UNCHANGED <<users, file, server>>

-----------------------------------------------------------------------------
(* ACL SETUSER, DELUSER *)

Staged(name, ops) == Apply(IF name \in DOMAIN users THEN users[name] ELSE NewUser, ops, ACLSetUser)

\* Everything is tried on a temporary user first.
setuserCommand(c, name, toks) ==
    /\ Permitted(c, AclCall)
    /\ \E merged \in {ACLMergeSelectorArguments(toks)} :
        /\ merged.open = <<>>
        /\ \E staged \in {Staged(name, merged.args)} :
            /\ staged.err = "ok"
            /\ Len(staged.s.selectors) <= MaxSelectors
            /\ users' = [n \in DOMAIN users \cup {name} |-> IF n = name THEN staged.s ELSE users[n]]
            /\ clients' = IF name \in DOMAIN users THEN ACLKillPubsubClientsIfNeeded(clients, name, staged.s) ELSE clients
    /\ UNCHANGED <<file, server>>

deluserCommand(c, names) ==
    /\ "del" \in Features
    /\ Permitted(c, AclCall)
    /\ "default" \notin names
    /\ users' = [n \in DOMAIN users \ names |-> users[n]]
    /\ clients' = FreeUsers(clients, names \cap DOMAIN users)
    /\ UNCHANGED <<file, server>>

\* CONFIG SET requirepass; pass is "none" for an empty one.
ACLUpdateDefaultUserPassword(c, pass) ==
    LET ops == <<Rule("resetpass"), IF pass = "none" THEN Rule("nopass") ELSE Op("pass", pass, {})>>
    IN  /\ "requirepass" \in Features
        /\ Permitted(c, AclCall)
        /\ users' = [users EXCEPT !["default"] = Apply(@, ops, ACLSetUser).s]
        /\ UNCHANGED <<clients, file, server>>

-----------------------------------------------------------------------------
(* The file *)

\* Users are written in the order of their names to a temporary file that replaces the old
\* one; when a step fails the old file stays.
Written ==
    LET lines(names) == [i \in DOMAIN names |-> [name |-> names[i], toks |-> Describe(users[names[i]])]]
    IN  lines(SetToSortSeq(DOMAIN users, LAMBDA a, b : a = "default" /\ b # "default"))

ACLSaveToFile(c) ==
    /\ "file" \in Features
    /\ Permitted(c, AclCall)
    /\ file' = Written
    /\ UNCHANGED <<users, clients, server>>

\* One line: the errors are collected, and rules behind a wrong one are still tried.  The
\* arguments of a line with an open selector are gone when they are used.
LoadLine(r, line) ==
    LET one(a, n) == [s |-> n.s, err |-> IF n.err = "ok" THEN a.err ELSE n.err]
        steps(ops) == FoldLeft(LAMBDA a, op : one(a, ACLSetUser(a.s, op)), Ok(NewUser), ops)
        add(u) == [r EXCEPT !.users = @ @@ (line.name :> u.s), !.errors = @ \/ u.err # "ok"]
        load(merged) == CASE merged.open # <<>> /\ merged.args = <<>> -> [r EXCEPT !.errors = TRUE]
                          [] merged.open # <<>> -> [r EXCEPT !.crash = TRUE]
                          [] OTHER -> add(steps(merged.args))
    IN  IF line.name \in DOMAIN r.users THEN [r EXCEPT !.errors = TRUE] ELSE load(ACLMergeSelectorArguments(line.toks))

LoadLines(lines) == FoldLeft(LoadLine, [users |-> <<>>, errors |-> FALSE, crash |-> FALSE], lines)

\* All or nothing.  The object of the default user stays and takes the new rules; all other
\* objects are new, also those of users that were there before.
ACLLoadFromFile(lines) ==
    LET all(r) == [ok |-> ~r.errors /\ ~r.crash, crash |-> r.crash,
                   users |-> IF "default" \in DOMAIN r.users THEN r.users ELSE r.users @@ ("default" :> ACLCreateDefaultUser)]
    IN  all(LoadLines(lines))

loadCommand(c) ==
    /\ "file" \in Features
    /\ Permitted(c, AclCall)
    /\ \E r \in {ACLLoadFromFile(file)} :
        \/ r.ok /\ users' = r.users /\ clients' = FreeUsers(clients, DOMAIN users \ {"default"}) /\ UNCHANGED server
        \/ r.crash /\ server' = "crashed" /\ UNCHANGED <<users, clients>>
    /\ UNCHANGED file

\* The file is edited by hand, with lines such as an administrator may write.
EditFile(name, toks) ==
    /\ "edit" \in Features
    /\ server = "up"
    /\ file' = <<[name |-> name, toks |-> toks]>>
    /\ UNCHANGED <<users, clients, server>>

\* The server ends and starts again.
Restart ==
    /\ "file" \in Features
    /\ server = "up"
    /\ clients' = [c \in Clients |-> Gone]
    /\ \E r \in {ACLLoadFromFile(file)} :
        /\ users' = IF r.ok THEN r.users ELSE users
        /\ server' = IF r.ok THEN "up" ELSE IF r.crash THEN "crashed" ELSE "exited"
    /\ UNCHANGED file

Next ==
    \/ \E c \in Clients :
        \/ createClient(c)
        \/ freeClient(c)
        \/ \E name \in Names, pass \in Passwords : authCommand(c, name, pass)
        \/ \E ch \in Channels : subscribeCommand(c, ch)
        \/ \E name \in Targets, toks \in Changes : setuserCommand(c, name, toks)
        \/ \E names \in SUBSET Names : deluserCommand(c, names)
        \/ \E pass \in Passwords \cup {"none"} : ACLUpdateDefaultUserPassword(c, pass)
        \/ ACLSaveToFile(c)
        \/ loadCommand(c)
    \/ \E name \in Names, toks \in Changes : EditFile(name, toks)
    \/ Restart

Spec == Init /\ [][Next]_vars

-----------------------------------------------------------------------------

\* Connections that run commands act as users that exist; a connection whose user is freed
\* (ACL DELUSER, ACL LOAD) is closed, also when a user of that name is there again.
NoFreedUser == \A c \in Clients : clients[c].st = "open" => clients[c].user \in DOMAIN users

\* A connection that has to authenticate does not keep the identity of another user: not
\* authenticated is only who acts as the default user.
UnauthenticatedIsDefault == \A c \in Clients : clients[c].st # "gone" /\ ~clients[c].auth => clients[c].user = "default"

\* A connection listens only to channels that its user may use now: ACL SETUSER closes the
\* connections that have lost one (the default user changes under LOAD without this).
SubscribersPermitted ==
    \A c \in Clients : clients[c].st = "open" =>
        \A ch \in clients[c].subs :
            LET u == users[clients[c].user]
            IN  \E i \in DOMAIN u.selectors : u.selectors[i].allchannels \/ ACLCheckChannelAgainstList(u.selectors[i].channels, ch)

\* What ACL SAVE would write now, ACL LOAD accepts and gives the same users: the rules
\* of all selectors survive the way through text and back.
SaveLoadSame ==
    server = "up" =>
    \A again \in {LoadLines(Written)} :
        /\ ~again.errors /\ ~again.crash
        /\ DOMAIN again.users = DOMAIN users
        /\ \A n \in DOMAIN users : \A u \in {users[n]}, v \in {again.users[n]} :
                /\ [u EXCEPT !.selectors = <<>>] = [v EXCEPT !.selectors = <<>>]
                /\ Len(u.selectors) = Len(v.selectors)
                /\ \A i \in DOMAIN u.selectors : SameSelector(u.selectors[i], v.selectors[i])

\* ACL SETUSER applies all of its rules or none: the users that exist have always been left
\* in a state that a whole argument list gives.  Here skip-sanitize-payload stands only in
\* lists that are refused because of a later rule.
NoHalfChange == \A n \in DOMAIN users : users[n].sanitize # "skip"
=============================================================================
