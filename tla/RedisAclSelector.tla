--------------------------- MODULE RedisAclSelector -------------------------
(***************************************************************************)
(* A selector under all sequences of rules, compared with what the rules   *)
(* are documented to mean.                                                 *)
(***************************************************************************)
EXTENDS RedisAclRules

CONSTANTS Rules,         \* rules that are tried
          Calls,         \* commands with arguments that are checked
          MaxRules       \* bound on the rules given to a selector

VARIABLES sel, given

vars == <<sel, given>>

Init == sel = ACLCreateSelector /\ given = <<>>

SetRule == \E op \in Rules :
    LET r == ACLSetSelector(sel, op)
    IN  /\ Len(given) < MaxRules
        /\ r.err = "ok"
        /\ sel' = r.s
        /\ given' = Append(given, op)

Next == SetRule

Spec == Init /\ [][Next]_vars

-----------------------------------------------------------------------------

\* The rule names the command: itself, its container, a category of either, or all.
Mentions(op, cmd) ==
    \/ op.t \in {"+@all", "-@all"}
    \/ op.t \in {"+", "-"} /\ op.c \in {cmd, Container[cmd]}
    \/ op.t \in {"+@", "-@"} /\ cmd \notin ModuleCommands
         /\ (op.c \in Categories[cmd] \/ (Container[cmd] # "none" /\ op.c \in Categories[Container[cmd]]))

\* The place of the last rule with the property, 0 if there is none.
LastThat(P(_)) == LET S == {i \in DOMAIN given : P(given[i])} IN IF S = {} THEN 0 ELSE CHOOSE i \in S : \A j \in S : j <= i

Allowed(cmd, arg) ==
    LET i == LastThat(LAMBDA op : Mentions(op, cmd))
    IN  \/ i # 0 /\ given[i].t \in {"+@all", "+", "+@"}
        \/ \E j \in (i + 1)..Len(given) : given[j].t = "+|" /\ given[j].c = cmd /\ arg \in given[j].a

KeyAllowed(k) ==
    LET i == LastThat(LAMBDA op : op.t \in {"allkeys", "resetkeys"})
    IN  \/ i # 0 /\ given[i].t = "allkeys"
        \/ \E pat \in DOMAIN Matching :
              /\ k[1] \in Matching[pat]
              /\ \E j \in (i + 1)..Len(given) : given[j].t = "key" /\ given[j].c = pat
              /\ k[2] \subseteq UNION {given[j].a : j \in {n \in (i + 1)..Len(given) : given[n].t = "key" /\ given[n].c = pat}}

ChannelAllowed(ch) ==
    LET i == LastThat(LAMBDA op : op.t \in {"allchannels", "resetchannels"})
    IN  \/ IF i = 0 THEN PubsubDefault ELSE given[i].t = "allchannels"
        \/ \E j \in (i + 1)..Len(given) : given[j].t = "channel"
                                          /\ IF ch[2] THEN given[j].c = ch[1] ELSE ch[1] \in Matching[given[j].c]

\* A command is allowed exactly when the last rule that names it allows it, or a later
\* rule allows its first argument; keys and channels are those named since the last
\* reset, with the permissions of all rules for a pattern put together.  The flag that
\* lets everything pass, the bits, the categories and the containers always agree.
LastRuleWins ==
    \A call \in Calls :
        (ACLSelectorCheckCmd(sel, call) = "ok") =
            (/\ Allowed(call.cmd, call.arg)
             /\ \A k \in call.keys : KeyAllowed(k)
             /\ \A ch \in call.chans : ChannelAllowed(ch))

\* ACLDescribeSelectorCommandRules finds rules for exactly the bitmap (it ends the server
\* otherwise), and a fresh selector that is given the description permits the same.
DescribedExactly ==
    LET again == Apply(ACLCreateSelector, ACLDescribeSelector(sel), ACLSetSelector)
    IN  /\ ACLDescribeSelectorCommandRules(sel).fake.cmds = sel.cmds
        /\ again.err = "ok"
        /\ SameSelector(again.s, sel)

=============================================================================
