----------------------- MODULE TokenRevocationProofs -----------------------
(***************************************************************************)
(* Proofs about TokenRevocation, for any number of users and threads, any  *)
(* lifetime of the tokens and any bounds.                                  *)
(***************************************************************************)
EXTENDS TokenRevocation, TLAPS

LEMMA TypeInit == Init => TypeOK
<1> SUFFICES ASSUME Init PROVE TypeOK
  OBVIOUS
<1>1. jti \in [Users -> Nat] /\ lastJti \in Nat
  BY TokenAssumption DEF Init, Users
<1>2. DOMAIN rows \subseteq 1..rowSeq /\ rows \in [DOMAIN rows -> Row]
  BY DEF Init
<1>3. req \in [Threads -> Request] /\ \A r \in Threads : req[r].pc = "idle"
  BY DEF Init, Request, Idle
<1>4. past \in BOOLEAN
  BY DEF Init
<1> QED
  BY <1>1, <1>2, <1>3, <1>4 DEF Init, TypeOK

LEMMA TypeStep == TypeOK /\ [Next]_vars => TypeOK'
<1> SUFFICES ASSUME TypeOK, [Next]_vars PROVE TypeOK'
  OBVIOUS
<1> USE DEF TypeOK
<1>1. CASE Tick
  <2>1. sec' \in Nat
    BY <1>1 DEF Tick
  <2>2. past' \in BOOLEAN
    BY <1>1, Zenon DEF Tick
  <2> QED
    BY <1>1, <2>1, <2>2 DEF Tick
<1>2. CASE ClearExpired
  BY <1>2 DEF ClearExpired
<1>3. ASSUME NEW r \in Threads, NEW u \in Users, LoginFind(r, u) PROVE TypeOK'
  <2>1. [pc |-> "issue", user |-> u, jti |-> jti[u]] \in Request
    BY DEF Request
  <2> QED
    BY <1>3, <2>1 DEF LoginFind
<1>4. ASSUME NEW r \in Threads, LoginIssue(r) PROVE TypeOK'
  <2>1. req[r].user \in Users /\ req[r].jti \in Nat
    BY <1>4 DEF LoginIssue, Request, Idle
  <2>2. tokens' \subseteq Token
    BY <1>4, <2>1, TokenAssumption DEF LoginIssue, Token
  <2>3. req' \in [Threads -> Request]
    BY <1>4 DEF LoginIssue, Request
  <2>4. tokens \subseteq tokens'
    BY <1>4 DEF LoginIssue
  <2>5. \A s \in Threads : req'[s].pc \in {"record", "revoke"} => req'[s].token \in tokens'
    BY <1>4, <2>4 DEF LoginIssue, Idle
  <2> QED
    BY <1>4, <2>2, <2>3, <2>4, <2>5 DEF LoginIssue
<1>5. ASSUME NEW r \in Threads, NEW t \in tokens, LogoutDecode(r, t) PROVE TypeOK'
  <2>1. \A p \in {"record", "revoke"} : [pc |-> p, token |-> t] \in Request
    BY DEF Request
  <2> QED
    BY <1>5, <2>1 DEF LogoutDecode
<1>6. ASSUME NEW r \in Threads, LogoutRecord(r) PROVE TypeOK'
  <2> DEFINE t == req[r].token
  <2>1. t \in tokens /\ t.jti \in Nat /\ t.exp \in Nat
    BY <1>6 DEF LogoutRecord, Token
  <2>2. CASE Blacklisted(t.jti)
    BY <1>6, <2>2 DEF LogoutRecord, Request, Idle
  <2>3. CASE ~Blacklisted(t.jti)
    <3>1. req' = [req EXCEPT ![r].pc = "revoke"] /\ AddRow(t) /\ loggedOut' = loggedOut \cup {t}
      BY <1>6, <2>3 DEF LogoutRecord
    <3>2. req'[r] \in Request /\ req'[r].token = t
      BY <1>6, <3>1 DEF LogoutRecord, Request, Idle
    <3>3. /\ rowSeq' \in Nat /\ DOMAIN rows' \subseteq 1..rowSeq'
          /\ rows' \in [DOMAIN rows' -> Row]
      BY <2>1, <3>1 DEF AddRow, Row
    <3> QED
      BY <1>6, <2>1, <3>1, <3>2, <3>3 DEF LogoutRecord
  <2> QED
    BY <2>2, <2>3
<1>7. ASSUME NEW r \in Threads, LogoutRevoke(r) PROVE TypeOK'
  <2>1. req[r].token.user \in Users
    BY <1>7 DEF LogoutRevoke, Token
  <2> QED
    BY <1>7, <2>1 DEF LogoutRevoke, Request, Idle
<1>8. ASSUME NEW r \in Threads, Fail(r) PROVE TypeOK'
  <2>1. req[r].pc = "revoke" => req[r].token.user \in Users
    BY DEF Token
  <2> QED
    BY <1>8, <2>1 DEF Fail, Request, Idle
<1>9. CASE UNCHANGED vars
  BY <1>9 DEF vars
<1> QED
  BY <1>1, <1>2, <1>3, <1>4, <1>5, <1>6, <1>7, <1>8, <1>9 DEF Next

\* Tokens, rows and requests are well formed in every reachable state.
THEOREM TokenTypeCorrect == Spec => []TypeOK
BY TypeInit, TypeStep, PTL DEF Spec

-----------------------------------------------------------------------------
(* Which jtis are whose.  A body token shares its jti with nothing; a jti   *)
(* that is a user's current one is only in header tokens of that user.     *)

JtiBounds ==
  /\ \A u \in Users : jti[u] <= lastJti
  /\ \A t \in tokens : t.jti <= lastJti
  /\ \A r \in Threads : req[r].pc = "issue" => req[r].jti <= lastJti

JtiOwners ==
  /\ \A u, v \in Users : jti[u] = jti[v] => u = v
  /\ \A t \in tokens : \A u \in Users : t.jti = jti[u] => t.kind = "header" /\ t.user = u
  /\ \A r \in Threads : req[r].pc = "issue" =>
       \A u \in Users : req[r].jti = jti[u] => req[r].user = u
  /\ \A r \in Threads : req[r].pc = "issue" =>
       \A t \in tokens : t.kind = "body" => req[r].jti # t.jti
  /\ \A s, t \in tokens : s.kind = "body" /\ s.jti = t.jti => s = t

JtiInv == TypeOK /\ JtiBounds /\ JtiOwners

LEMMA JtiInit == Init => JtiInv
<1> SUFFICES ASSUME Init PROVE JtiBounds /\ JtiOwners
  BY TypeInit DEF JtiInv
<1>1. \A u \in Users : jti[u] = u /\ u <= lastJti
  BY TokenAssumption DEF Init, Users
<1>2. tokens = {} /\ \A r \in Threads : req[r].pc = "idle"
  BY DEF Init, Idle
<1> QED
  BY <1>1, <1>2 DEF JtiBounds, JtiOwners

LEMMA JtiStep == JtiInv /\ [Next]_vars => JtiInv'
<1> SUFFICES ASSUME JtiInv, [Next]_vars PROVE JtiBounds' /\ JtiOwners'
  BY TypeStep DEF JtiInv
<1>0. /\ lastJti \in Nat /\ jti \in [Users -> Nat] /\ tokens \subseteq Token
      /\ req \in [Threads -> Request]
  BY DEF JtiInv, TypeOK
<1>1. ASSUME UNCHANGED <<lastJti, jti, tokens>>,
             \A s \in Threads : req'[s].pc = "issue" => req'[s] = req[s]
      PROVE  JtiBounds' /\ JtiOwners'
  BY <1>1 DEF JtiInv, JtiBounds, JtiOwners
<1>2. CASE Tick \/ ClearExpired \/ UNCHANGED vars
  BY <1>1, <1>2 DEF Tick, ClearExpired, vars
<1>3. ASSUME NEW r \in Threads, NEW u \in Users, LoginFind(r, u) PROVE JtiBounds' /\ JtiOwners'
  <2>1. \A s \in Threads : s # r => req'[s] = req[s]
    BY <1>0, <1>3 DEF LoginFind
  <2>2. req'[r].pc = "issue" /\ req'[r].user = u /\ req'[r].jti = jti[u]
    BY <1>0, <1>3 DEF LoginFind
  <2> QED
    BY <1>0, <1>3, <2>1, <2>2 DEF LoginFind, JtiInv, JtiBounds, JtiOwners
<1>4. ASSUME NEW r \in Threads, LoginIssue(r) PROVE JtiBounds' /\ JtiOwners'
  <2> DEFINE h == [kind |-> "header", user |-> req[r].user, jti |-> req[r].jti, exp |-> sec + Lifetime]
             b == [kind |-> "body", user |-> req[r].user, jti |-> lastJti + 1, exp |-> sec + Lifetime]
  <2>1. tokens' = tokens \cup {h, b} /\ lastJti' = lastJti + 1 /\ jti' = jti /\ req[r].pc = "issue"
    BY <1>4 DEF LoginIssue
  <2>2. \A s \in Threads : req'[s].pc = "issue" => req'[s] = req[s]
    BY <1>0, <1>4 DEF LoginIssue, Idle
  <2>3. /\ h.kind = "header" /\ h.user = req[r].user /\ h.jti = req[r].jti
        /\ b.kind = "body" /\ b.jti = lastJti + 1
    OBVIOUS
  <2>4. \A t \in tokens : t.jti \in Nat /\ t.jti <= lastJti
    BY <1>0 DEF JtiInv, JtiBounds, Token
  <2>5. \A u \in Users : jti[u] \in Nat /\ jti[u] <= lastJti
    BY <1>0 DEF JtiInv, JtiBounds
  <2>6. \A s \in Threads : req[s].pc = "issue" => req[s].jti \in Nat /\ req[s].jti <= lastJti
    BY <1>0 DEF JtiInv, JtiBounds, Request, Idle
  <2> HIDE DEF h, b
  <2>7. JtiBounds'
    BY <1>0, <2>1, <2>2, <2>3, <2>4, <2>5, <2>6 DEF JtiBounds
  <2>8. JtiOwners'
    <3>1. \A t \in tokens' : \A u \in Users : t.jti = jti[u] => t.kind = "header" /\ t.user = u
      BY <1>0, <2>1, <2>3, <2>5 DEF JtiInv, JtiOwners
    <3>2. \A s \in Threads : req'[s].pc = "issue" =>
            \A t \in tokens' : t.kind = "body" => req'[s].jti # t.jti
      BY <1>0, <2>1, <2>2, <2>3, <2>6 DEF JtiInv, JtiOwners
    <3>3. \A s, t \in tokens' : s.kind = "body" /\ s.jti = t.jti => s = t
      BY <1>0, <2>1, <2>3, <2>4, <2>6 DEF JtiInv, JtiOwners
    <3> QED
      BY <2>1, <2>2, <3>1, <3>2, <3>3 DEF JtiInv, JtiOwners
  <2> QED
    BY <2>7, <2>8
<1>5. ASSUME NEW r \in Threads, NEW t \in tokens, LogoutDecode(r, t) PROVE JtiBounds' /\ JtiOwners'
  BY <1>0, <1>1, <1>5 DEF LogoutDecode
<1>6. ASSUME NEW r \in Threads, LogoutRecord(r) PROVE JtiBounds' /\ JtiOwners'
  <2>1. \A s \in Threads : req'[s].pc = "issue" => req'[s] = req[s]
    BY <1>0, <1>6 DEF LogoutRecord, Idle, Request
  <2> QED
    BY <1>1, <1>6, <2>1 DEF LogoutRecord
<1>7. ASSUME NEW r \in Threads, LogoutRevoke(r) PROVE JtiBounds' /\ JtiOwners'
  <2> DEFINE u == req[r].token.user
  <2>1. \A s \in Threads : req'[s].pc = "issue" => req'[s] = req[s]
    BY <1>0, <1>7 DEF LogoutRevoke, Idle
  <2>2. tokens' = tokens
    BY <1>7 DEF LogoutRevoke
  <2>3. CASE UNCHANGED <<lastJti, jti>>
    BY <1>1, <2>1, <2>2, <2>3
  <2>4. CASE lastJti' = lastJti + 1 /\ jti' = [jti EXCEPT ![u] = lastJti + 1]
    <3>1. \A v \in Users : jti'[v] = (IF v = u THEN lastJti + 1 ELSE jti[v])
      BY <1>0, <2>4
    <3>2. \A t \in tokens : t.jti \in Nat /\ t.jti <= lastJti
      BY <1>0 DEF JtiInv, JtiBounds, Token
    <3>3. \A s \in Threads : req[s].pc = "issue" => req[s].jti \in Nat /\ req[s].jti <= lastJti
      BY <1>0 DEF JtiInv, JtiBounds, Request, Idle
    <3>4. \A v \in Users : jti[v] \in Nat /\ jti[v] <= lastJti
      BY <1>0 DEF JtiInv, JtiBounds
    <3> HIDE DEF u
    <3>5. JtiBounds'
      BY <1>0, <2>1, <2>2, <2>4, <3>1, <3>2, <3>3, <3>4 DEF JtiBounds
    <3>6. JtiOwners'
      BY <1>0, <2>1, <2>2, <2>4, <3>1, <3>2, <3>3, <3>4 DEF JtiInv, JtiOwners
    <3> QED
      BY <3>5, <3>6
  <2> QED
    BY <1>7, <2>3, <2>4 DEF LogoutRevoke
<1>8. ASSUME NEW r \in Threads, Fail(r) PROVE JtiBounds' /\ JtiOwners'
  BY <1>0, <1>1, <1>8 DEF Fail, Idle
<1> QED
  BY <1>2, <1>3, <1>4, <1>5, <1>6, <1>7, <1>8 DEF Next

-----------------------------------------------------------------------------
(* The blacklist.  Its row for a body token has the token's own exp, and    *)
(* the row of a token that was logged out stays until the token expires.   *)

RowJtis == \A i \in DOMAIN rows : rows[i].jti <= lastJti

RowsOfBodyTokens ==
  \A i \in DOMAIN rows : \A t \in tokens :
    t.kind = "body" /\ rows[i].jti = t.jti => rows[i].exp = t.exp

RowsOutlastTokens ==
  \A t \in loggedOut : t.exp <= sec \/ \E i \in DOMAIN rows : rows[i] = [jti |-> t.jti, exp |-> t.exp]

RevocationInv ==
  /\ JtiInv /\ sec <= MaxSec
  /\ RowJtis /\ RowsOfBodyTokens /\ RowsOutlastTokens
  /\ BlacklistUnique /\ CurrentJtiIsUsable

LEMMA RevocationInit == Init => RevocationInv
<1> SUFFICES ASSUME Init PROVE RevocationInv
  OBVIOUS
<1>1. sec = 0 /\ DOMAIN rows = {} /\ loggedOut = {}
  BY DEF Init
<1> QED
  BY <1>1, JtiInit, TokenAssumption
  DEF RevocationInv, RowJtis, RowsOfBodyTokens, RowsOutlastTokens, BlacklistUnique, CurrentJtiIsUsable

\* What a step can do to the rows: nothing, one new row, or a clean-up.
LEMMA ClearStep ==
  ASSUME RevocationInv, ClearExpired
  PROVE  /\ DOMAIN rows' \subseteq DOMAIN rows
         /\ \A i \in DOMAIN rows' : rows'[i] = rows[i]
         /\ \A i \in DOMAIN rows : i \notin DOMAIN rows' => rows[i].exp <= sec
<1>1. sec \in Int /\ \A i \in DOMAIN rows : rows[i].exp \in Int
  BY DEF RevocationInv, JtiInv, TypeOK, Row
<1> QED
  BY <1>1 DEF ClearExpired, RowExpired

LEMMA AddStep ==
  ASSUME TypeOK, NEW t \in Token, AddRow(t)
  PROVE  LET i == rowSeq + 1
         IN  /\ i \notin DOMAIN rows
             /\ DOMAIN rows' = DOMAIN rows \cup {i}
             /\ rows'[i] = [jti |-> t.jti, exp |-> t.exp]
             /\ \A k \in DOMAIN rows : rows'[k] = rows[k]
BY DEF AddRow, TypeOK

LEMMA RowsStep ==
  ASSUME RevocationInv, [Next]_vars
  PROVE  (RowJtis /\ RowsOfBodyTokens /\ RowsOutlastTokens /\ BlacklistUnique)' /\ sec' <= MaxSec
<1> DEFINE Goal == /\ (RowJtis /\ RowsOfBodyTokens /\ RowsOutlastTokens /\ BlacklistUnique)'
                   /\ sec' <= MaxSec
<1> USE DEF RowJtis, RowsOfBodyTokens, RowsOutlastTokens, BlacklistUnique
<1>0. /\ sec \in Nat /\ lastJti \in Nat /\ tokens \subseteq Token
      /\ rows \in [DOMAIN rows -> Row] /\ loggedOut \subseteq tokens
      /\ sec <= MaxSec /\ MaxSec \in Nat
      /\ RowJtis /\ RowsOfBodyTokens /\ RowsOutlastTokens /\ BlacklistUnique
      /\ TypeOK
  BY TokenAssumption DEF RevocationInv, JtiInv, TypeOK
<1>a. /\ \A i \in DOMAIN rows : rows[i].jti \in Nat /\ rows[i].exp \in Nat
      /\ \A t \in tokens : t.jti \in Nat /\ t.exp \in Nat
  BY <1>0 DEF Row, Token
<1>1. CASE Tick
  <2>1. sec' \in Nat /\ sec' >= sec /\ sec' <= MaxSec
    BY <1>0, <1>1 DEF Tick
  <2> QED
    BY <1>0, <1>1, <1>a, <2>1 DEF Tick
<1>2. CASE ClearExpired
  <2>1. /\ DOMAIN rows' \subseteq DOMAIN rows
        /\ \A i \in DOMAIN rows' : rows'[i] = rows[i]
        /\ \A i \in DOMAIN rows : i \notin DOMAIN rows' => rows[i].exp <= sec
    BY <1>2, ClearStep
  <2>2. UNCHANGED <<sec, lastJti, tokens, loggedOut>>
    BY <1>2 DEF ClearExpired
  <2>3. ASSUME NEW t \in loggedOut, ~(t.exp <= sec)
        PROVE  \E i \in DOMAIN rows' : rows'[i] = [jti |-> t.jti, exp |-> t.exp]
    BY <1>0, <2>1, <2>3
  <2> QED
    BY <1>0, <2>1, <2>2, <2>3
<1>3. ASSUME NEW r \in Threads, LoginIssue(r) PROVE Goal
  <2> DEFINE h == [kind |-> "header", user |-> req[r].user, jti |-> req[r].jti, exp |-> sec + Lifetime]
             b == [kind |-> "body", user |-> req[r].user, jti |-> lastJti + 1, exp |-> sec + Lifetime]
  <2>1. tokens' = tokens \cup {h, b} /\ lastJti' = lastJti + 1 /\ UNCHANGED <<sec, rows, loggedOut>>
    BY <1>3 DEF LoginIssue
  <2>2. h.kind = "header" /\ b.jti = lastJti + 1
    OBVIOUS
  <2> HIDE DEF h, b
  <2>3. RowsOfBodyTokens'
    BY <1>0, <1>a, <2>1, <2>2
  <2>4. RowJtis'
    BY <1>0, <1>a, <2>1
  <2> QED
    BY <1>0, <2>1, <2>3, <2>4
<1>4. ASSUME NEW r \in Threads, LogoutRecord(r) PROVE Goal
  <2> DEFINE t == req[r].token
  <2>1. t \in tokens /\ t \in Token /\ UNCHANGED <<sec, lastJti, tokens>>
    BY <1>0, <1>4 DEF LogoutRecord, TypeOK
  <2>2. CASE UNCHANGED <<rows, loggedOut>>
    BY <1>0, <2>1, <2>2
  <2>3. CASE ~Blacklisted(t.jti) /\ AddRow(t) /\ loggedOut' = loggedOut \cup {t}
    <3> DEFINE i == rowSeq + 1
    <3>1. /\ i \notin DOMAIN rows
          /\ DOMAIN rows' = DOMAIN rows \cup {i}
          /\ rows'[i] = [jti |-> t.jti, exp |-> t.exp]
          /\ \A k \in DOMAIN rows : rows'[k] = rows[k]
      BY <1>0, <2>1, <2>3, AddStep
    <3>2. \A k \in DOMAIN rows : rows[k].jti # t.jti
      BY <2>3 DEF Blacklisted
    <3>3. t.jti <= lastJti /\ \A s \in tokens : s.kind = "body" /\ s.jti = t.jti => s = t
      BY <2>1 DEF RevocationInv, JtiInv, JtiBounds, JtiOwners
    <3> HIDE DEF i, t
    <3>4. RowJtis' /\ RowsOfBodyTokens' /\ BlacklistUnique'
      BY <1>0, <2>1, <3>1, <3>2, <3>3
    <3>5. RowsOutlastTokens'
      BY <1>0, <2>1, <2>3, <3>1
    <3> QED
      BY <1>0, <2>1, <3>4, <3>5
  <2> QED
    BY <1>4, <2>2, <2>3 DEF LogoutRecord
<1>5. ASSUME NEW r \in Threads, LogoutRevoke(r) PROVE Goal
  <2>1. lastJti' \in Nat /\ lastJti' >= lastJti /\ UNCHANGED <<sec, tokens, rows, loggedOut>>
    BY <1>0, <1>5 DEF LogoutRevoke
  <2> QED
    BY <1>0, <1>a, <2>1
<1>6. CASE UNCHANGED <<sec, lastJti, tokens, rows, loggedOut>>
  BY <1>0, <1>6
<1>7. CASE UNCHANGED vars
  BY <1>6, <1>7 DEF vars
<1>8. ASSUME NEW r \in Threads, NEW u \in Users, LoginFind(r, u) PROVE Goal
  BY <1>6, <1>8 DEF LoginFind
<1>9. ASSUME NEW r \in Threads, NEW t \in tokens, LogoutDecode(r, t) PROVE Goal
  BY <1>6, <1>9 DEF LogoutDecode
<1>10. ASSUME NEW r \in Threads, Fail(r) PROVE Goal
  BY <1>6, <1>10 DEF Fail
<1> QED
  BY <1>1, <1>2, <1>3, <1>4, <1>5, <1>7, <1>8, <1>9, <1>10 DEF Next

\* A logout that is to replace the jti of u, and wrote row e.
Pending(r, u, e) ==
  /\ req[r].pc = "revoke"
  /\ req[r].token.user = u
  /\ req[r].token.jti = jti[u]
  /\ req[r].token.exp = e

LEMMA CurrentJtiStep ==
  ASSUME RevocationInv, [Next]_vars
  PROVE  CurrentJtiIsUsable'
<1>0. /\ sec \in Nat /\ lastJti \in Nat /\ tokens \subseteq Token
      /\ jti \in [Users -> Nat] /\ req \in [Threads -> Request]
      /\ rows \in [DOMAIN rows -> Row] /\ TypeOK /\ RowJtis
  BY DEF RevocationInv, JtiInv, TypeOK
<1>a. \A u \in Users : \A i \in DOMAIN rows : rows[i].jti = jti[u] /\ rows[i].exp > sec =>
        u \in lost \/ \E r \in Threads : Pending(r, u, rows[i].exp)
  BY DEF RevocationInv, CurrentJtiIsUsable, Pending
<1>b. SUFFICES ASSUME NEW u \in Users, NEW i \in DOMAIN rows', NEW e,
                      e = rows'[i].exp, rows'[i].jti = jti'[u], e > sec'
               PROVE  u \in lost' \/ \E r \in Threads : Pending(r, u, e)'
  BY DEF CurrentJtiIsUsable, Pending
<1>c. \A r \in Threads : req[r].pc = "revoke" =>
        /\ req[r].token \in tokens
        /\ req[r].token.jti = jti[u] => req[r].token.kind = "header" /\ req[r].token.user = u
  BY <1>0 DEF TypeOK, RevocationInv, JtiInv, JtiOwners
\* Steps that leave rows, jtis and pending logouts alone.
<1>1. ASSUME i \in DOMAIN rows, rows'[i] = rows[i], jti'[u] = jti[u], sec' >= sec, sec' \in Nat,
             lost \subseteq lost',
             \A r \in Threads : req[r].pc = "revoke" => req'[r] = req[r]
      PROVE  u \in lost' \/ \E r \in Threads : Pending(r, u, e)'
  <2>1. rows[i].exp = e /\ e > sec /\ rows[i].jti = jti[u]
    BY <1>0, <1>1, <1>b DEF Row
  <2>2. CASE u \in lost
    BY <1>1, <2>2
  <2>3. ASSUME NEW r \in Threads, Pending(r, u, e) PROVE Pending(r, u, e)'
    BY <1>1, <2>3 DEF Pending
  <2> QED
    BY <1>1, <1>a, <2>1, <2>2, <2>3
<1>2. CASE Tick
  BY <1>0, <1>1, <1>2, <1>b DEF Tick
<1>3. CASE ClearExpired
  <2>1. i \in DOMAIN rows /\ rows'[i] = rows[i]
    BY <1>3, <1>b, ClearStep
  <2> QED
    BY <1>0, <1>1, <1>3, <2>1 DEF ClearExpired
<1>4. CASE UNCHANGED vars
  BY <1>0, <1>1, <1>4, <1>b DEF vars
<1>5. ASSUME NEW r \in Threads, NEW v \in Users, LoginFind(r, v)
      PROVE  u \in lost' \/ \E s \in Threads : Pending(s, u, e)'
  BY <1>0, <1>1, <1>5, <1>b DEF LoginFind, Idle
<1>6. ASSUME NEW r \in Threads, LoginIssue(r)
      PROVE  u \in lost' \/ \E s \in Threads : Pending(s, u, e)'
  BY <1>0, <1>1, <1>6, <1>b DEF LoginIssue
<1>7. ASSUME NEW r \in Threads, NEW t \in tokens, LogoutDecode(r, t)
      PROVE  u \in lost' \/ \E s \in Threads : Pending(s, u, e)'
  BY <1>0, <1>1, <1>7, <1>b DEF LogoutDecode, Idle
<1>8. ASSUME NEW r \in Threads, LogoutRecord(r)
      PROVE  u \in lost' \/ \E s \in Threads : Pending(s, u, e)'
  <2> DEFINE t == req[r].token
  <2>1. /\ req[r].pc = "record" /\ t \in tokens /\ t \in Token
        /\ UNCHANGED <<sec, jti, lost>>
        /\ \A s \in Threads : s # r => req'[s] = req[s]
    BY <1>0, <1>8 DEF LogoutRecord, TypeOK
  <2>2. CASE i \in DOMAIN rows /\ rows'[i] = rows[i]
    <3>1. \A s \in Threads : req[s].pc = "revoke" => req'[s] = req[s]
      BY <2>1
    <3> QED
      BY <1>0, <1>1, <2>1, <2>2, <3>1
  <2>3. CASE AddRow(t) /\ req' = [req EXCEPT ![r].pc = "revoke"]
    <3>1. /\ DOMAIN rows' = DOMAIN rows \cup {rowSeq + 1}
          /\ rows'[rowSeq + 1] = [jti |-> t.jti, exp |-> t.exp]
          /\ \A k \in DOMAIN rows : rows'[k] = rows[k]
      BY <1>0, <2>1, <2>3, AddStep
    <3>2. CASE i \in DOMAIN rows
      BY <2>2, <3>1, <3>2
    <3>3. CASE i = rowSeq + 1
      <4>1. rows'[i].jti = t.jti /\ e = t.exp
        BY <1>b, <3>1, <3>3
      <4>2. t.user = u
        BY <1>b, <2>1, <4>1 DEF RevocationInv, JtiInv, JtiOwners
      <4>3. req'[r].pc = "revoke" /\ req'[r].token = t
        BY <1>0, <2>1, <2>3 DEF Request, Idle
      <4>4. Pending(r, u, e)'
        BY <1>b, <2>1, <4>1, <4>2, <4>3 DEF Pending
      <4> QED
        BY <4>4
    <3> QED
      BY <1>b, <3>1, <3>2, <3>3
  <2>4. CASE UNCHANGED rows
    BY <1>b, <2>2, <2>4
  <2> QED
    BY <1>8, <2>3, <2>4 DEF LogoutRecord
<1>9. ASSUME NEW r \in Threads, LogoutRevoke(r)
      PROVE  u \in lost' \/ \E s \in Threads : Pending(s, u, e)'
  <2> DEFINE t == req[r].token
  <2>1. /\ req[r].pc = "revoke" /\ t \in tokens /\ t \in Token
        /\ UNCHANGED <<sec, rows, lost>>
        /\ \A s \in Threads : s # r => req'[s] = req[s]
    BY <1>0, <1>9 DEF LogoutRevoke, TypeOK
  <2>2. i \in DOMAIN rows /\ rows'[i] = rows[i] /\ rows[i].jti \in Nat /\ rows[i].exp = e /\ e \in Nat
    BY <1>0, <1>b, <2>1 DEF Row
  <2>3. CASE lastJti' = lastJti + 1 /\ jti' = [jti EXCEPT ![t.user] = lastJti + 1]
    <3>1. u # t.user /\ jti'[u] = jti[u]
      BY <1>0, <1>b, <2>1, <2>2, <2>3 DEF RowJtis, Token
    <3>2. u \in lost \/ \E s \in Threads : Pending(s, u, e)
      BY <1>a, <1>b, <2>1, <2>2, <3>1
    <3>3. ASSUME NEW s \in Threads, Pending(s, u, e)
          PROVE  Pending(s, u, e)'
      BY <2>1, <2>2, <3>1, <3>3 DEF Pending
    <3> QED
      BY <2>1, <3>2, <3>3
  <2>4. CASE (t.kind = "body" \/ Expired(t)) /\ jti' = jti
    <3>1. u \in lost \/ \E s \in Threads : Pending(s, u, e)
      BY <1>a, <1>b, <2>1, <2>2, <2>4
    <3>2. ASSUME NEW s \in Threads, Pending(s, u, e)
          PROVE  Pending(s, u, e)'
      <4>1. s # r
        BY <1>0, <1>b, <1>c, <2>1, <2>2, <2>4, <3>2 DEF Pending, Expired
      <4> QED
        BY <2>1, <2>2, <2>4, <3>2, <4>1 DEF Pending
    <3> QED
      BY <2>1, <3>1, <3>2
  <2> QED
    BY <1>9, <2>3, <2>4 DEF LogoutRevoke
<1>10. ASSUME NEW r \in Threads, Fail(r)
      PROVE  u \in lost' \/ \E s \in Threads : Pending(s, u, e)'
  <2>1. /\ UNCHANGED <<sec, rows, jti>>
        /\ \A s \in Threads : s # r => req'[s] = req[s]
        /\ lost \subseteq lost'
        /\ req[r].pc = "revoke" /\ req[r].token.kind = "header" => req[r].token.user \in lost'
    BY <1>0, <1>10 DEF Fail
  <2>2. u \in lost \/ \E s \in Threads : Pending(s, u, e)
    BY <1>a, <1>b, <2>1
  <2>3. Pending(r, u, e) => u \in lost'
    BY <1>c, <2>1 DEF Pending
  <2>4. ASSUME NEW s \in Threads, s # r, Pending(s, u, e)
        PROVE  Pending(s, u, e)'
    BY <2>1, <2>4 DEF Pending
  <2> QED
    BY <2>1, <2>2, <2>3, <2>4
<1> QED
  BY <1>2, <1>3, <1>4, <1>5, <1>6, <1>7, <1>8, <1>9, <1>10 DEF Next

\* The inductive invariant holds in every reachable state.
THEOREM RevocationInvariant == Spec => []RevocationInv
<1>1. RevocationInv /\ [Next]_vars => RevocationInv'
  <2> SUFFICES ASSUME RevocationInv, [Next]_vars PROVE RevocationInv'
    OBVIOUS
  <2>1. JtiInv'
    BY JtiStep DEF RevocationInv
  <2> QED
    BY <2>1, RowsStep, CurrentJtiStep DEF RevocationInv
<1> QED
  BY <1>1, RevocationInit, PTL DEF Spec

\* A token whose logout succeeded is never accepted again.
THEOREM LogoutIsFinal == Spec => []LoggedOutStaysOut
<1>1. RevocationInv => LoggedOutStaysOut
  BY DEF RevocationInv, RowsOutlastTokens, LoggedOutStaysOut, Accepts, Expired, Blacklisted
<1> QED
  BY <1>1, RevocationInvariant, PTL

\* No jti is ever blacklisted twice.
THEOREM OneRowPerJti == Spec => []BlacklistUnique
<1>1. RevocationInv => BlacklistUnique
  BY DEF RevocationInv
<1> QED
  BY <1>1, RevocationInvariant, PTL

\* The jti of the next login is usable, unless a logout of the user is under
\* way or died.
THEOREM NextLoginUsable == Spec => []CurrentJtiIsUsable
<1>1. RevocationInv => CurrentJtiIsUsable
  BY DEF RevocationInv
<1> QED
  BY <1>1, RevocationInvariant, PTL

\* A header token that stopped identifying its user never starts again.
THEOREM IdentityIsFinal == Spec => IdentityNeverReturns
<1>1. ASSUME RevocationInv, Next, NEW t \in tokens, ~Identifies(t) PROVE ~Identifies(t)'
  <2>0. /\ sec \in Nat /\ lastJti \in Nat /\ jti \in [Users -> Nat]
        /\ t \in Token /\ t.user \in Users /\ t.exp \in Nat /\ t.jti \in Nat /\ t.jti <= lastJti
    BY <1>1 DEF RevocationInv, JtiInv, JtiBounds, TypeOK, Token
  <2>1. /\ sec' \in Nat /\ sec' >= sec
        /\ jti'[t.user] = jti[t.user] \/ jti'[t.user] = lastJti + 1
    <3>1. ASSUME NEW r \in Threads, LogoutRevoke(r)
          PROVE  jti'[t.user] = jti[t.user] \/ jti'[t.user] = lastJti + 1
      BY <2>0, <3>1 DEF LogoutRevoke
    <3>2. \A r \in Threads : LogoutRevoke(r) => sec' = sec
      BY DEF LogoutRevoke
    <3>3. CASE Tick
      BY <2>0, <3>3 DEF Tick
    <3> QED
      BY <1>1, <2>0, <3>1, <3>2, <3>3
      DEF Next, ClearExpired, LoginFind, LoginIssue, LogoutDecode, LogoutRecord, Fail
  <2> QED
    BY <1>1, <2>0, <2>1 DEF Identifies, Expired
<1>2. RevocationInv /\ [Next]_vars => [\A t \in tokens : ~Identifies(t) => ~Identifies(t)']_vars
  BY <1>1
<1> QED
  BY <1>2, RevocationInvariant, PTL DEF Spec, IdentityNeverReturns

-----------------------------------------------------------------------------
(* Body tokens implement DenyList.                                         *)

\* A body token that is rejected stays rejected.
LEMMA BodyTokenStaysDead ==
  ASSUME RevocationInv, Next, NEW t \in tokens, t.kind = "body", ~Accepts(t)
  PROVE  ~Accepts(t)'
<1>0. /\ sec \in Nat /\ t \in Token /\ t.exp \in Nat /\ TypeOK
  BY DEF RevocationInv, JtiInv, TypeOK, Token
<1>1. CASE Tick
  <2>1. sec' \in Nat /\ sec' >= sec /\ rows' = rows
    BY <1>0, <1>1 DEF Tick
  <2> QED
    BY <1>0, <2>1 DEF Accepts, Expired, Blacklisted
<1>2. CASE ClearExpired
  <2>1. sec' = sec
    BY <1>2 DEF ClearExpired
  <2>2. CASE Expired(t)
    BY <2>1, <2>2 DEF Accepts, Expired
  <2>3. ASSUME NEW i \in DOMAIN rows, rows[i].jti = t.jti PROVE ~Accepts(t)'
    <3>1. rows[i].exp = t.exp
      BY <2>3 DEF RevocationInv, RowsOfBodyTokens
    <3>2. CASE i \in DOMAIN rows'
      BY <1>2, <2>3, <3>2, ClearStep DEF Accepts, Blacklisted
    <3>3. CASE i \notin DOMAIN rows'
      BY <1>2, <2>1, <2>3, <3>1, <3>3, ClearStep DEF Accepts, Expired
    <3> QED
      BY <3>2, <3>3
  <2> QED
    BY <2>2, <2>3 DEF Accepts, Blacklisted
<1>3. ASSUME sec' = sec, \A i \in DOMAIN rows : i \in DOMAIN rows' /\ rows'[i] = rows[i]
      PROVE  ~Accepts(t)'
  BY <1>3 DEF Accepts, Expired, Blacklisted
<1>4. ASSUME NEW r \in Threads, LogoutRecord(r) PROVE ~Accepts(t)'
  <2>1. req[r].token \in Token /\ sec' = sec
    BY <1>0, <1>4 DEF LogoutRecord, TypeOK
  <2>2. \A i \in DOMAIN rows : i \in DOMAIN rows' /\ rows'[i] = rows[i]
    BY <1>0, <1>4, <2>1, AddStep DEF LogoutRecord
  <2> QED
    BY <1>3, <2>1, <2>2
<1>5. CASE UNCHANGED <<sec, rows>>
  BY <1>3, <1>5
<1> QED
  BY <1>1, <1>2, <1>4, <1>5 DEF Next, LoginFind, LoginIssue, LogoutDecode, LogoutRevoke, Fail

\* A body token works from the moment it is issued.
LEMMA BodyTokenIssuedAlive ==
  ASSUME RevocationInv, NEW r \in Threads, LoginIssue(r)
  PROVE  \E b \in BodyToken :
           /\ b \notin bodyTokens
           /\ bodyTokens' = bodyTokens \cup {b}
           /\ Accepts(b)'
           /\ \A t \in bodyTokens : Accepts(t)' <=> Accepts(t)
<1>a. PICK b : b = [kind |-> "body", user |-> req[r].user, jti |-> lastJti + 1, exp |-> sec + Lifetime]
  OBVIOUS
<1> DEFINE h == [kind |-> "header", user |-> req[r].user, jti |-> req[r].jti, exp |-> sec + Lifetime]
<1>0. /\ sec \in Nat /\ lastJti \in Nat /\ sec <= MaxSec /\ lastJti < MaxJti /\ req[r].user \in Users
      /\ rows \in [DOMAIN rows -> Row]
  BY DEF RevocationInv, JtiInv, TypeOK, LoginIssue, Request, Idle
<1>1. b \in BodyToken
  BY <1>0, <1>a, TokenAssumption DEF BodyToken
<1>2. b.jti = lastJti + 1 /\ b.exp = sec + Lifetime /\ b.kind = "body" /\ h.kind = "header"
  BY <1>a
<1>3. tokens' = tokens \cup {h, b} /\ UNCHANGED <<sec, rows>>
  BY <1>a DEF LoginIssue
<1> HIDE DEF h
<1>4. b \notin bodyTokens
  BY <1>0, <1>2 DEF RevocationInv, JtiInv, JtiBounds, bodyTokens
<1>5. bodyTokens' = bodyTokens \cup {b}
  BY <1>2, <1>3 DEF bodyTokens
<1>6. \A i \in DOMAIN rows : rows[i].jti # b.jti
  BY <1>0, <1>2 DEF RevocationInv, RowJtis, Row
<1>7. Accepts(b)'
  BY <1>0, <1>2, <1>3, <1>6, TokenAssumption DEF Accepts, Expired, Blacklisted
<1>8. \A t \in bodyTokens : Accepts(t)' <=> Accepts(t)
  BY <1>3 DEF Accepts, Expired, Blacklisted
<1> QED
  BY <1>1, <1>4, <1>5, <1>7, <1>8

\* Body tokens work when issued, and once rejected are rejected for ever.
THEOREM BodyTokensImplementDenyList == Spec => BodyTokensDenied
<1> DEFINE Dead == {t \in bodyTokens : ~Accepts(t)}
<1>1. Init => Promise!Init
  BY DEF Init, Promise!Init, bodyTokens
<1>2. ASSUME RevocationInv, [Next]_vars
      PROVE  [Promise!Next]_<<bodyTokens, Dead>>
  <2>1. CASE UNCHANGED vars
    BY <2>1 DEF vars, bodyTokens, Accepts, Expired, Blacklisted
  <2>2. ASSUME NEW r \in Threads, LoginIssue(r) PROVE Promise!Next
    <3>1. PICK b \in BodyToken : /\ b \notin bodyTokens
                                 /\ bodyTokens' = bodyTokens \cup {b}
                                 /\ Accepts(b)'
                                 /\ \A t \in bodyTokens : Accepts(t)' <=> Accepts(t)
      BY <1>2, <2>2, BodyTokenIssuedAlive
    <3>2. Dead' = Dead
      BY <3>1
    <3> QED
      BY <3>1, <3>2 DEF Promise!Next, Promise!Issue
  <2>3. ASSUME Next, tokens' = tokens PROVE Promise!Next
    <3>1. bodyTokens' = bodyTokens
      BY <2>3 DEF bodyTokens
    <3>2. \A t \in bodyTokens : ~Accepts(t) => ~Accepts(t)'
      BY <1>2, <2>3, BodyTokenStaysDead DEF bodyTokens
    <3> QED
      BY <3>1, <3>2 DEF Promise!Next, Promise!Die
  <2> QED
    BY <1>2, <2>1, <2>2, <2>3
    DEF Next, Tick, ClearExpired, LoginFind, LogoutDecode, LogoutRecord, LogoutRevoke, Fail
<1> QED
  BY <1>1, <1>2, RevocationInvariant, PTL DEF Spec, BodyTokensDenied, Promise!Spec
=============================================================================
