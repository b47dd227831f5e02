-------------------------- MODULE TokenRevocation --------------------------
(***************************************************************************)
(* Login, logout and the clean-up of revoked tokens.                       *)
(*                                                                         *)
(* A login hands out two tokens signed with the same key: one in the body, *)
(* from JwtTokenService.encode, with a jti of its own, and one in the      *)
(* Authorization header, from devise-jwt, with the jti column of the user. *)
(* Before every action, authenticate_user! accepts either kind until it    *)
(* expires or its jti is in jwt_blacklists; current_user is found through  *)
(* a header token only while users.jti is still the token's jti.           *)
(*                                                                         *)
(* A logout is three steps: decode the token, insert its jti, and (in the  *)
(* middleware, after the action) give the user a new jti.                  *)
(*                                                                         *)
(* Time is a second and whether some part of it has passed: tokens are     *)
(* compared with whole seconds, rows of the blacklist with fractions.      *)
(***************************************************************************)
EXTENDS Integers

CONSTANTS
  NumUsers, Threads,  \* users, and Puma threads that serve their requests
  Lifetime,           \* seconds a token is valid
  MaxSec, MaxJti      \* bounds on the clock and on the jtis generated

ASSUME TokenAssumption ==
  /\ NumUsers \in Nat \ {0}
  /\ Lifetime \in Nat \ {0}
  /\ MaxSec \in Nat
  /\ MaxJti \in Nat

VARIABLES
  sec, past,  \* the clock
  lastJti,    \* SecureRandom.uuid: a jti is one more than the last
  jti,        \* users.jti
  tokens,     \* the tokens handed out
  rows,       \* jwt_blacklists, a function from ids to rows
  rowSeq,     \* its AUTOINCREMENT counter
  req,        \* what each thread is doing
  loggedOut,  \* tokens whose logout rendered success
  lost        \* users whose jti was not replaced because a worker died

vars == <<sec, past, lastJti, jti, tokens, rows, rowSeq, req, loggedOut, lost>>

-----------------------------------------------------------------------------
Users == 1..NumUsers

Token == [kind : {"body", "header"}, user : Users, jti : Nat, exp : Nat]

Row == [jti : Nat, exp : Nat]

\* A request: a login that has read its user (and jti), a logout that has
\* decoded its token, or one whose token the middleware is to revoke.
Idle == [pc |-> "idle"]

Request ==
  {Idle} \cup [pc : {"issue"}, user : Users, jti : Nat]
         \cup [pc : {"record", "revoke"}, token : Token]

Init ==
  /\ sec = 0 /\ past = FALSE
  /\ lastJti = NumUsers
  /\ jti = [u \in Users |-> u]
  /\ tokens = {}
  /\ rows = [i \in {} |-> i]
  /\ rowSeq = 0
  /\ req = [r \in Threads |-> Idle]
  /\ loggedOut = {}
  /\ lost = {}

-----------------------------------------------------------------------------
(* Time.                                                                   *)

Tick ==
  /\ IF past
       THEN sec < MaxSec /\ sec' = sec + 1 /\ past' = FALSE
       ELSE sec' = sec /\ past' = TRUE
  /\ UNCHANGED <<lastJti, jti, tokens, rows, rowSeq, req, loggedOut, lost>>

\* JWT.decode raises ExpiredSignature from the second exp on.
Expired(t) == t.exp <= sec

\* where('exp < ?', Time.current)
RowExpired(e) == IF past THEN e <= sec ELSE e < sec

-----------------------------------------------------------------------------
(* JwtTokenService.decode and current_user.                                *)

Blacklisted(j) == \E i \in DOMAIN rows : rows[i].jti = j

Accepts(t) == ~Expired(t) /\ ~Blacklisted(t.jti)

\* The JWT strategy of devise: the token names the user's current jti.
Identifies(t) == t.kind = "header" /\ ~Expired(t) /\ t.jti = jti[t.user]

-----------------------------------------------------------------------------
(* POST /login                                                             *)

\* User.find_by(email:) and valid_password?
LoginFind(r, u) ==
  /\ req[r] = Idle
  /\ req' = [req EXCEPT ![r] = [pc |-> "issue", user |-> u, jti |-> jti[u]]]
  /\ UNCHANGED <<sec, past, lastJti, jti, tokens, rows, rowSeq, loggedOut, lost>>

\* Mutant: sign_in saves the user it read, jti included.
LoginIssueSaves(r) ==
  /\ req[r].pc = "issue"
  /\ lastJti < MaxJti
  /\ lastJti' = lastJti + 1
  /\ tokens' = tokens \cup
       {[kind |-> "header", user |-> req[r].user, jti |-> req[r].jti, exp |-> sec + Lifetime]}
  /\ jti' = [jti EXCEPT ![req[r].user] = req[r].jti]
  /\ req' = [req EXCEPT ![r] = Idle]
  /\ UNCHANGED <<sec, past, rows, rowSeq, loggedOut, lost>>

\* sign_in dispatches a header token with the jti read before;
\* JwtTokenService.encode makes the body token.
LoginIssue(r) ==
  /\ req[r].pc = "issue"
  /\ lastJti < MaxJti
  /\ lastJti' = lastJti + 1
  /\ tokens' = tokens \cup
       {[kind |-> "header", user |-> req[r].user, jti |-> req[r].jti, exp |-> sec + Lifetime],
        [kind |-> "body", user |-> req[r].user, jti |-> lastJti + 1, exp |-> sec + Lifetime]}
  /\ req' = [req EXCEPT ![r] = Idle]
  /\ UNCHANGED <<sec, past, jti, rows, rowSeq, loggedOut, lost>>

-----------------------------------------------------------------------------
(* DELETE /logout                                                          *)

\* decode.  A token it rejects is answered with 401, but the middleware
\* still revokes it when it is a header token that has not expired.
LogoutDecode(r, t) ==
  /\ req[r] = Idle
  /\ \/ Accepts(t) /\ req' = [req EXCEPT ![r] = [pc |-> "record", token |-> t]]
     \/ /\ ~Accepts(t) /\ ~Expired(t) /\ t.kind = "header"
        /\ req' = [req EXCEPT ![r] = [pc |-> "revoke", token |-> t]]
  /\ UNCHANGED <<sec, past, lastJti, jti, tokens, rows, rowSeq, loggedOut, lost>>

\* Mutant: the row expires when the logout happens.
AddRowNow(t) ==
  /\ rows' = [i \in DOMAIN rows \cup {rowSeq + 1} |->
                IF i = rowSeq + 1 THEN [jti |-> t.jti, exp |-> sec] ELSE rows[i]]
  /\ rowSeq' = rowSeq + 1

\* Mutant: the counter of the ids is not advanced.
AddRowNoCount(t) ==
  /\ rows' = [i \in DOMAIN rows \cup {rowSeq + 1} |->
                IF i = rowSeq + 1 THEN [jti |-> t.jti, exp |-> t.exp] ELSE rows[i]]
  /\ UNCHANGED rowSeq

AddRow(t) ==
  /\ rows' = [i \in DOMAIN rows \cup {rowSeq + 1} |->
                IF i = rowSeq + 1 THEN [jti |-> t.jti, exp |-> t.exp] ELSE rows[i]]
  /\ rowSeq' = rowSeq + 1

\* Mutant: no uniqueness validation.
LogoutRecordUnchecked(r) ==
  /\ req[r].pc = "record"
  /\ AddRow(req[r].token)
  /\ loggedOut' = loggedOut \cup {req[r].token}
  /\ req' = [req EXCEPT ![r].pc = "revoke"]
  /\ UNCHANGED <<sec, past, lastJti, jti, tokens, lost>>

\* JwtBlacklist.create!, one transaction with its uniqueness validation: a
\* second logout with the same jti raises RecordInvalid, and an exception
\* passes the middleware by.
LogoutRecord(r) ==
  LET t == req[r].token
  IN  /\ req[r].pc = "record"
      /\ \/ /\ ~Blacklisted(t.jti)
            /\ AddRow(t)
            /\ loggedOut' = loggedOut \cup {t}
            /\ req' = [req EXCEPT ![r].pc = "revoke"]
         \/ /\ Blacklisted(t.jti)
            /\ req' = [req EXCEPT ![r] = Idle]
            /\ UNCHANGED <<rows, rowSeq, loggedOut>>
      /\ UNCHANGED <<sec, past, lastJti, jti, tokens, lost>>

\* Mutant: no revocation_requests, the jti stays.
LogoutRevokeNothing(r) ==
  /\ req[r].pc = "revoke"
  /\ req' = [req EXCEPT ![r] = Idle]
  /\ UNCHANGED <<sec, past, lastJti, jti, tokens, rows, rowSeq, loggedOut, lost>>

\* The middleware of devise-jwt: JTIMatcher.revoke_jwt gives the user a new
\* jti.  It stops at an expired token, and at one it did not make.
LogoutRevoke(r) ==
  LET t == req[r].token
  IN  /\ req[r].pc = "revoke"
      /\ \/ /\ t.kind = "header" /\ ~Expired(t)
            /\ lastJti < MaxJti
            /\ lastJti' = lastJti + 1
            /\ jti' = [jti EXCEPT ![t.user] = lastJti + 1]
         \/ /\ t.kind = "body" \/ Expired(t)
            /\ UNCHANGED <<lastJti, jti>>
      /\ req' = [req EXCEPT ![r] = Idle]
      /\ UNCHANGED <<sec, past, tokens, rows, rowSeq, loggedOut, lost>>

\* A worker dies, or a transaction finds the database busy.
Fail(r) ==
  /\ req[r] # Idle
  /\ req' = [req EXCEPT ![r] = Idle]
  /\ lost' = IF req[r].pc = "revoke" /\ req[r].token.kind = "header"
               THEN lost \cup {req[r].token.user}
               ELSE lost
  /\ UNCHANGED <<sec, past, lastJti, jti, tokens, rows, rowSeq, loggedOut>>

-----------------------------------------------------------------------------
(* rake jwt:clear_expired                                                  *)

\* Mutant: the clean-up runs a second early.
ClearExpiredEarly ==
  /\ rows' = [i \in {k \in DOMAIN rows : rows[k].exp > sec + 1} |-> rows[i]]
  /\ UNCHANGED <<sec, past, lastJti, jti, tokens, rowSeq, req, loggedOut, lost>>

\* JwtBlacklist.expired.delete_all
ClearExpired ==
  /\ rows' = [i \in {k \in DOMAIN rows : ~RowExpired(rows[k].exp)} |-> rows[i]]
  /\ UNCHANGED <<sec, past, lastJti, jti, tokens, rowSeq, req, loggedOut, lost>>

-----------------------------------------------------------------------------
Next ==
  \/ Tick
  \/ ClearExpired
  \/ \E r \in Threads :
       \/ \E u \in Users : LoginFind(r, u)
       \/ LoginIssue(r)
       \/ \E t \in tokens : LogoutDecode(r, t)
       \/ LogoutRecord(r) \/ LogoutRevoke(r)
       \/ Fail(r)

Spec == Init /\ [][Next]_vars

-----------------------------------------------------------------------------
(* Properties.                                                             *)

\* The tokens, rows and requests have their fields, and rows the ids of
\* their counter (app/models/jwt_blacklist.rb, db/schema.rb).
TypeOK ==
  /\ sec \in Nat /\ past \in BOOLEAN
  /\ lastJti \in Nat
  /\ jti \in [Users -> Nat]
  /\ tokens \subseteq Token
  /\ rowSeq \in Nat
  /\ DOMAIN rows \subseteq 1..rowSeq /\ rows \in [DOMAIN rows -> Row]
  /\ req \in [Threads -> Request]
  /\ \A r \in Threads : req[r].pc \in {"record", "revoke"} => req[r].token \in tokens
  /\ loggedOut \subseteq tokens
  /\ lost \subseteq Users

\* "Logged out successfully" (Users::SessionsController) is final for the
\* token: authenticate_user! never accepts it again, although the clean-up
\* deletes its row and compares other times than JWT.decode does.
LoggedOutStaysOut == \A t \in loggedOut : ~Accepts(t)

\* The blacklist has one row per jti although its index is not unique and
\* two logouts may both decode the token before either inserts it.
BlacklistUnique ==
  \A i, k \in DOMAIN rows : rows[i].jti = rows[k].jti => i = k

\* A user's current jti, which the next login puts into a header token, is
\* blacklisted by an unexpired row only while the logout that did it has yet
\* to replace the jti, or when that logout died before it could.
CurrentJtiIsUsable ==
  \A u \in Users : \A i \in DOMAIN rows : rows[i].jti = jti[u] /\ rows[i].exp > sec =>
    \/ u \in lost
    \/ \E r \in Threads : /\ req[r].pc = "revoke"
                          /\ req[r].token.user = u
                          /\ req[r].token.jti = jti[u]
                          /\ req[r].token.exp = rows[i].exp

\* A header token that does not identify its user any more never does again,
\* however logins and logouts of the user interleave.
IdentityNeverReturns ==
  [][\A t \in tokens : ~Identifies(t) => ~Identifies(t)']_vars

\* Body tokens are revoked as DenyList promises: they work when issued, and
\* one that was rejected once is rejected for ever.
BodyToken == [kind : {"body"}, user : Users, jti : 1..MaxJti, exp : 1..(MaxSec + Lifetime)]

bodyTokens == {t \in tokens : t.kind = "body"}

Promise == INSTANCE DenyList WITH
             Token <- BodyToken,
             issued <- bodyTokens,
             dead <- {t \in bodyTokens : ~Accepts(t)}

BodyTokensDenied == Promise!Spec

\* app/models/jwt_blacklist.rb: the scope is there "to remove expired tokens
\* from the blacklist".  A token that leaves the blacklist has expired.
ClearedTokensExpired ==
  [][\A t \in tokens : Blacklisted(t.jti) /\ ~Blacklisted(t.jti)' => Expired(t)]_vars
=============================================================================
