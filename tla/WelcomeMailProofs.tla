-------------------------- MODULE WelcomeMailProofs --------------------------
(***************************************************************************)
(* The welcome mail for any number of accounts, jobs, workers, retries and *)
(* faults: no welcome is forgotten, none goes to an account that was never *)
(* created, and a job mails at most once more than it was disturbed.       *)
(***************************************************************************)
EXTENDS WelcomeMail, TLAPS, FiniteSetTheorems, SequenceTheorems

-----------------------------------------------------------------------------
(* Sequences of jobs.                                                      *)

Distinct(s) == \A p, q \in DOMAIN s : s[p].jid = s[q].jid => p = q

\* LPUSH: a job is added behind the queue.
LEMMA Pushed ==
  ASSUME NEW s \in Seq(Job), NEW e \in Job
  PROVE  /\ Append(s, e) \in Seq(Job)
         /\ JobsIn(Append(s, e)) = JobsIn(s) \cup {e}
         /\ Distinct(s) /\ (\A x \in JobsIn(s) : x.jid # e.jid) => Distinct(Append(s, e))
<1>1. /\ Append(s, e) \in Seq(Job) /\ Len(Append(s, e)) = Len(s) + 1
      /\ \A i \in 1..Len(s) : Append(s, e)[i] = s[i]
      /\ Append(s, e)[Len(s) + 1] = e
      /\ DOMAIN Append(s, e) = 1..(Len(s) + 1)
      /\ DOMAIN s = 1..Len(s) /\ Len(s) \in Nat
  OBVIOUS
<1>2. JobsIn(Append(s, e)) = JobsIn(s) \cup {e}
  BY <1>1 DEF JobsIn
<1>3. ASSUME Distinct(s), \A x \in JobsIn(s) : x.jid # e.jid PROVE Distinct(Append(s, e))
  <2> SUFFICES ASSUME NEW p \in 1..(Len(s) + 1), NEW q \in 1..(Len(s) + 1),
                      Append(s, e)[p].jid = Append(s, e)[q].jid
               PROVE  p = q
    BY <1>1 DEF Distinct
  <2>1. \A i \in 1..Len(s) : s[i].jid # e.jid
    BY <1>1, <1>3 DEF JobsIn
  <2>2. CASE p \in 1..Len(s) /\ q \in 1..Len(s)
    BY <1>1, <1>3, <2>2 DEF Distinct
  <2>3. CASE p = Len(s) + 1 /\ q \in 1..Len(s)
    BY <1>1, <2>1, <2>3
  <2>4. CASE q = Len(s) + 1 /\ p \in 1..Len(s)
    BY <1>1, <2>1, <2>4
  <2> QED BY <1>1, <2>2, <2>3, <2>4
<1> QED BY <1>1, <1>2, <1>3

\* BRPOP: a job is taken from the front.
LEMMA Popped ==
  ASSUME NEW s \in Seq(Job), s # <<>>
  PROVE  /\ Head(s) \in Job /\ Tail(s) \in Seq(Job)
         /\ JobsIn(s) = JobsIn(Tail(s)) \cup {Head(s)}
         /\ Distinct(s) => Distinct(Tail(s)) /\ \A x \in JobsIn(Tail(s)) : x.jid # Head(s).jid
<1>1. /\ Tail(s) \in Seq(Job) /\ Len(Tail(s)) = Len(s) - 1 /\ Len(s) \in Nat \ {0}
      /\ \A i \in 1..(Len(s) - 1) : Tail(s)[i] = s[i + 1]
      /\ DOMAIN Tail(s) = 1..(Len(s) - 1) /\ DOMAIN s = 1..Len(s)
      /\ Head(s) = s[1] /\ s[1] \in Job
  OBVIOUS
<1>2. JobsIn(s) = JobsIn(Tail(s)) \cup {Head(s)}
  <2>1. ASSUME NEW x \in JobsIn(s) PROVE x \in JobsIn(Tail(s)) \cup {Head(s)}
    <3>1. PICK i \in 1..Len(s) : x = s[i]
      BY <1>1 DEF JobsIn
    <3>2. CASE i = 1
      BY <1>1, <3>1, <3>2
    <3>3. CASE i # 1
      <4>1. i - 1 \in 1..(Len(s) - 1) /\ x = Tail(s)[i - 1]
        BY <1>1, <3>1, <3>3
      <4> QED BY <1>1, <4>1 DEF JobsIn
    <3> QED BY <3>2, <3>3
  <2>2. ASSUME NEW x \in JobsIn(Tail(s)) PROVE x \in JobsIn(s)
    <3>1. PICK i \in 1..(Len(s) - 1) : x = Tail(s)[i]
      BY <1>1, <2>2 DEF JobsIn
    <3>2. i + 1 \in 1..Len(s) /\ x = s[i + 1]
      BY <1>1, <3>1
    <3> QED BY <1>1, <3>2 DEF JobsIn
  <2>3. Head(s) \in JobsIn(s)
    BY <1>1 DEF JobsIn
  <2> QED BY <2>1, <2>2, <2>3
<1>3. ASSUME Distinct(s) PROVE Distinct(Tail(s)) /\ \A x \in JobsIn(Tail(s)) : x.jid # Head(s).jid
  <2>1. \A p, q \in 1..Len(s) : s[p].jid = s[q].jid => p = q
    BY <1>1, <1>3 DEF Distinct
  <2>2. Distinct(Tail(s))
    <3> SUFFICES ASSUME NEW p \in 1..(Len(s) - 1), NEW q \in 1..(Len(s) - 1),
                        Tail(s)[p].jid = Tail(s)[q].jid
                 PROVE  p = q
      BY <1>1 DEF Distinct
    <3>1. p + 1 \in 1..Len(s) /\ q + 1 \in 1..Len(s) /\ s[p + 1].jid = s[q + 1].jid
      BY <1>1
    <3> QED BY <2>1, <3>1
  <2>3. ASSUME NEW i \in 1..(Len(s) - 1) PROVE Tail(s)[i].jid # Head(s).jid
    <3>1. i + 1 \in 1..Len(s) /\ 1 \in 1..Len(s) /\ i + 1 # 1
      BY <1>1
    <3> QED BY <1>1, <2>1, <3>1
  <2> QED BY <1>1, <2>2, <2>3 DEF JobsIn
<1> QED BY <1>1, <1>2, <1>3

\* RPUSH of a shutdown: a job is put back at the front.
LEMMA PushedBack ==
  ASSUME NEW s \in Seq(Job), NEW e \in Job
  PROVE  /\ <<e>> \o s \in Seq(Job)
         /\ JobsIn(<<e>> \o s) = JobsIn(s) \cup {e}
         /\ Distinct(s) /\ (\A x \in JobsIn(s) : x.jid # e.jid) => Distinct(<<e>> \o s)
<1> DEFINE t == <<e>> \o s
<1>1. /\ t \in Seq(Job) /\ Len(t) = Len(s) + 1 /\ Len(s) \in Nat
      /\ DOMAIN t = 1..(Len(s) + 1) /\ DOMAIN s = 1..Len(s)
      /\ t[1] = e
      /\ \A i \in 1..Len(s) : t[i + 1] = s[i]
  <2>1. <<e>> \in Seq(Job) /\ Len(<<e>>) = 1 /\ <<e>>[1] = e
    OBVIOUS
  <2>2. /\ t \in Seq(Job) /\ Len(t) = Len(<<e>>) + Len(s)
        /\ \A i \in 1..(Len(<<e>>) + Len(s)) : t[i] =
             IF i <= Len(<<e>>) THEN <<e>>[i] ELSE s[i - Len(<<e>>)]
    BY <2>1, ConcatProperties
  <2>3. Len(s) \in Nat /\ DOMAIN s = 1..Len(s) /\ DOMAIN t = 1..Len(t)
    BY <2>2
  <2>4. ASSUME NEW i \in 1..Len(s) PROVE t[i + 1] = s[i]
    <3>1. i + 1 \in 1..(1 + Len(s)) /\ ~(i + 1 <= 1) /\ (i + 1) - 1 = i
      BY <2>3
    <3> HIDE DEF t
    <3> QED BY <2>1, <2>2, <3>1
  <2> HIDE DEF t
  <2> QED BY <2>1, <2>2, <2>3, <2>4
<1> HIDE DEF t
<1>2. JobsIn(t) = JobsIn(s) \cup {e}
  <2>1. ASSUME NEW x \in JobsIn(t) PROVE x \in JobsIn(s) \cup {e}
    <3>1. PICK i \in 1..(Len(s) + 1) : x = t[i]
      BY <1>1, <2>1 DEF JobsIn
    <3>2. CASE i = 1
      BY <1>1, <3>1, <3>2
    <3>3. CASE i # 1
      <4>1. i - 1 \in 1..Len(s) /\ (i - 1) + 1 = i
        BY <1>1, <3>1, <3>3
      <4> QED BY <1>1, <3>1, <4>1, ZenonT(30) DEF JobsIn
    <3> QED BY <3>2, <3>3
  <2>2. ASSUME NEW x \in JobsIn(s) PROVE x \in JobsIn(t)
    <3>1. PICK i \in 1..Len(s) : x = s[i]
      BY <1>1, <2>2 DEF JobsIn
    <3>2. i + 1 \in 1..(Len(s) + 1) /\ x = t[i + 1]
      BY <1>1, <3>1
    <3> QED BY <1>1, <3>2 DEF JobsIn
  <2>3. e \in JobsIn(t)
    BY <1>1 DEF JobsIn
  <2> QED BY <2>1, <2>2, <2>3
<1>3. ASSUME Distinct(s), \A x \in JobsIn(s) : x.jid # e.jid PROVE Distinct(t)
  <2> SUFFICES ASSUME NEW p \in 1..(Len(s) + 1), NEW q \in 1..(Len(s) + 1), t[p].jid = t[q].jid
               PROVE  p = q
    BY <1>1 DEF Distinct
  <2>1. \A i \in 1..Len(s) : s[i].jid # e.jid
    BY <1>1, <1>3 DEF JobsIn
  <2>2. \A i \in 2..(Len(s) + 1) : i - 1 \in 1..Len(s) /\ t[i] = s[i - 1]
    <3> SUFFICES ASSUME NEW i \in 2..(Len(s) + 1) PROVE i - 1 \in 1..Len(s) /\ t[i] = s[i - 1]
      OBVIOUS
    <3>1. i - 1 \in 1..Len(s) /\ (i - 1) + 1 = i
      BY <1>1
    <3> QED BY <1>1, <3>1
  <2>3. CASE p = 1 /\ q # 1
    BY <1>1, <2>1, <2>2, <2>3, SMTT(30)
  <2>4. CASE q = 1 /\ p # 1
    BY <1>1, <2>1, <2>2, <2>4, SMTT(30)
  <2>5. CASE p # 1 /\ q # 1
    <3>1. p - 1 \in 1..Len(s) /\ q - 1 \in 1..Len(s) /\ s[p - 1].jid = s[q - 1].jid
      BY <1>1, <2>2, <2>5, SMTT(30)
    <3>2. p - 1 = q - 1
      BY <1>1, <1>3, <3>1 DEF Distinct
    <3> QED BY <1>1, <3>2
  <2> QED BY <2>3, <2>4, <2>5
<1> QED BY <1>1, <1>2, <1>3 DEF t

-----------------------------------------------------------------------------
(* Types.                                                                  *)

\* An open sign-up is about the next id and the youngest account.
TxnInv ==
  txn # NoTxn => txn.id = userSeq + 1 /\ txn.account = accounts /\ userSeq < accounts

\* Finitely many mails were sent, so they can be counted.
TypeInv == TypeOK /\ TxnInv /\ IsFiniteSet(mails)

LEMMA TypeInit == Init => TypeInv
BY MailAssumption, FS_EmptySet DEF Init, TypeInv, TypeOK, TxnInv, Txn, NoTxn, Held, Free

LEMMA HeldJob ==
  ASSUME TypeOK, NEW w \in Workers
  PROVE  /\ working[w] # Free => working[w].job \in Job /\ working[w].pc \in {"perform", "deliver", "done"}
         /\ working[w] = Free => working[w].pc = "free"
         /\ working[w].pc = "deliver" =>
              working[w].to \in 1..MaxAccounts /\ working[w].job \in Job /\ working[w] # Free
         /\ working[w].pc \in {"perform", "done"} => working[w].job \in Job /\ working[w] # Free
BY DEF TypeOK, Held, Free

\* A job that failed keeps its jid, id and account.
LEMMA Retried ==
  ASSUME NEW job \in Job, Retry(job), retries \subseteq Job, dead \subseteq Job
  PROVE  \E again \in Job :
           /\ again.jid = job.jid /\ again.id = job.id
           /\ \/ retries' = retries \cup {again} /\ dead' = dead
              \/ retries' = retries /\ dead' = dead \cup {again}
<1>1. CASE job.count < MaxRetry /\ retries' = retries \cup {[job EXCEPT !.count = @ + 1]} /\ dead' = dead
  <2>1. [job EXCEPT !.count = @ + 1] \in Job
    BY <1>1, MailAssumption DEF Job
  <2>2. [job EXCEPT !.count = @ + 1].jid = job.jid /\ [job EXCEPT !.count = @ + 1].id = job.id
    BY DEF Job
  <2> QED BY <1>1, <2>1, <2>2
<1>2. CASE job.count = MaxRetry /\ dead' = dead \cup {job} /\ retries' = retries
  BY <1>2
<1> QED BY <1>1, <1>2 DEF Retry

\* One mail more, to the account the worker found.
LEMMA Mailing ==
  ASSUME TypeInv, NEW w \in Workers, working[w].pc = "deliver", Mail(w)
  PROVE  /\ mails' \subseteq (1..MaxJobs) \X (1..MaxAccounts) \X (Nat \ {0})
         /\ IsFiniteSet(mails')
         /\ \E n \in Nat \ {0} :
              LET m == <<working[w].job.jid, working[w].to, n>>
              IN  mails' = mails \cup {m}
<1>1. Cardinality({m \in mails : m[1] = working[w].job.jid}) \in Nat
  BY FS_Subset, FS_CardinalityType DEF TypeInv
<1>2. working[w].job.jid \in 1..MaxJobs /\ working[w].to \in 1..MaxAccounts
  BY HeldJob DEF TypeInv, Job
<1>3. PICK n \in Nat \ {0} : mails' = mails \cup {<<working[w].job.jid, working[w].to, n>>}
  BY <1>1 DEF Mail
<1>4. IsFiniteSet(mails')
  BY <1>3, FS_AddElement DEF TypeInv
<1> QED BY <1>2, <1>3, <1>4 DEF TypeInv, TypeOK

LEMMA TypeStep == TypeInv /\ [Next]_vars => TypeInv'
<1> SUFFICES ASSUME TypeInv, [Next]_vars PROVE TypeInv'
  OBVIOUS
<1> USE MailAssumption
<1>1. CASE SignUpInsert
  <2>1. txn' \in Txn /\ TxnInv'
    BY <1>1 DEF TypeInv, TypeOK, TxnInv, SignUpInsert, Txn
  <2>2. accounts' \in 0..MaxAccounts /\ userSeq \in 0..accounts' /\ 1..accounts \subseteq 1..accounts'
    BY <1>1 DEF TypeInv, TypeOK, SignUpInsert
  <2>3. users \in [DOMAIN users -> 1..accounts'] /\ committed \subseteq 1..accounts'
    BY <2>2 DEF TypeInv, TypeOK
  <2> QED BY <1>1, <2>1, <2>2, <2>3 DEF TypeInv, TypeOK, SignUpInsert
<1>2. CASE SendWelcomeEmail
  <2>1. txn # NoTxn /\ txn.id \in 1..MaxAccounts /\ txn.account \in 1..MaxAccounts
        /\ txn.id = userSeq + 1 /\ txn.account = accounts /\ userSeq < accounts
        /\ txn \in [pc : {"insert", "commit"}, id : 1..MaxAccounts, account : 1..MaxAccounts]
    BY <1>2 DEF TypeInv, TypeOK, TxnInv, SendWelcomeEmail, Txn, NoTxn
  <2>2. [jid |-> jobs + 1, id |-> txn.id, account |-> txn.account, count |-> 0] \in Job /\ jobs' \in 0..MaxJobs
    BY <1>2, <2>1 DEF TypeInv, TypeOK, SendWelcomeEmail, Push, Job
  <2>3. queue' \in Seq(Job)
    BY <1>2, <2>2, Pushed DEF TypeInv, TypeOK, SendWelcomeEmail, Push
  <2>4. txn' \in Txn /\ txn'.id = txn.id /\ txn'.account = txn.account
    BY <1>2, <2>1 DEF SendWelcomeEmail, Txn
  <2> QED BY <1>2, <2>1, <2>2, <2>3, <2>4 DEF TypeInv, TypeOK, TxnInv, SendWelcomeEmail
<1>3. CASE SignUpCommit
  <2>1. txn # NoTxn /\ txn.id = userSeq + 1 /\ txn.account = accounts /\ userSeq < accounts
    BY <1>3 DEF TypeInv, TxnInv, SignUpCommit, NoTxn
  <2>2. userSeq' \in 0..accounts /\ DOMAIN users' \subseteq 1..userSeq' /\ users' \in [DOMAIN users' -> 1..accounts]
    BY <1>3, <2>1 DEF TypeInv, TypeOK, SignUpCommit
  <2> QED BY <1>3, <2>1, <2>2 DEF TypeInv, TypeOK, TxnInv, SignUpCommit, Txn
<1>4. CASE SignUpRollback
  BY <1>4 DEF TypeInv, TypeOK, TxnInv, SignUpRollback, Txn
<1>5. ASSUME NEW i \in DOMAIN users, LoginPush(i) PROVE TypeInv'
  <2>2. [jid |-> jobs + 1, id |-> i, account |-> users[i], count |-> 0] \in Job /\ jobs' \in 0..MaxJobs
    BY <1>5 DEF TypeInv, TypeOK, LoginPush, Push, Job
  <2>3. queue' \in Seq(Job)
    BY <1>5, <2>2, Pushed DEF TypeInv, TypeOK, LoginPush, Push
  <2> QED BY <1>5, <2>2, <2>3 DEF TypeInv, TypeOK, TxnInv, LoginPush
<1>6. ASSUME NEW i \in DOMAIN users, UserDestroy(i) PROVE TypeInv'
  BY <1>6 DEF TypeInv, TypeOK, TxnInv, UserDestroy
<1>7. ASSUME NEW w \in Workers, Fetch(w) PROVE TypeInv'
  <2>1. Head(queue) \in Job /\ Tail(queue) \in Seq(Job)
    BY <1>7, Popped DEF TypeInv, TypeOK, Fetch
  <2>2. working' \in [Workers -> Held]
    BY <1>7, <2>1 DEF TypeInv, TypeOK, Fetch, Held
  <2> QED BY <1>7, <2>1, <2>2 DEF TypeInv, TypeOK, TxnInv, Fetch, appVars
<1>8. ASSUME NEW w \in Workers, Perform(w) PROVE TypeInv'
  <2>1. working[w].job \in Job
    BY <1>8, HeldJob DEF TypeInv, Perform
  <2>2. working' \in [Workers -> Held] /\ retries' \subseteq Job /\ dead' \subseteq Job
    <3>1. CASE working[w].job.id \in DOMAIN users
      <4>1. [pc |-> "deliver", job |-> working[w].job, to |-> users[working[w].job.id]] \in Held
        BY <2>1, <3>1 DEF TypeInv, TypeOK, Held
      <4> QED BY <1>8, <3>1, <4>1 DEF TypeInv, TypeOK, Perform
    <3>2. CASE working[w].job.id \notin DOMAIN users
      <4>1. Retry(working[w].job) /\ working' = [working EXCEPT ![w] = Free]
        BY <1>8, <3>2 DEF Perform
      <4>2. retries' \subseteq Job /\ dead' \subseteq Job
        BY <2>1, <4>1, Retried DEF TypeInv, TypeOK
      <4> QED BY <4>1, <4>2 DEF TypeInv, TypeOK, Held
    <3> QED BY <3>1, <3>2
  <2> QED BY <1>8, <2>2 DEF TypeInv, TypeOK, TxnInv, Perform, appVars
<1>9. ASSUME NEW w \in Workers, Deliver(w) PROVE TypeInv'
  <2>1. mails' \subseteq (1..MaxJobs) \X (1..MaxAccounts) \X (Nat \ {0}) /\ IsFiniteSet(mails')
    BY <1>9, Mailing DEF Deliver
  <2>2. working' \in [Workers -> Held]
    BY <1>9, HeldJob DEF TypeInv, TypeOK, Deliver, Held
  <2> QED BY <1>9, <2>1, <2>2 DEF TypeInv, TypeOK, TxnInv, Deliver, appVars
<1>10. ASSUME NEW w \in Workers, DeliverFails(w) PROVE TypeInv'
  <2>1. mails' \subseteq (1..MaxJobs) \X (1..MaxAccounts) \X (Nat \ {0}) /\ IsFiniteSet(mails')
    BY <1>10, Mailing DEF DeliverFails, TypeInv, TypeOK
  <2>2. retries' \subseteq Job /\ dead' \subseteq Job
    <3>1. working[w].job \in Job /\ Retry(working[w].job)
      BY <1>10, HeldJob DEF TypeInv, DeliverFails
    <3> QED BY <3>1, Retried DEF TypeInv, TypeOK
  <2>3. working' \in [Workers -> Held]
    BY <1>10 DEF TypeInv, TypeOK, DeliverFails, Held
  <2> QED BY <1>10, <2>1, <2>2, <2>3 DEF TypeInv, TypeOK, TxnInv, DeliverFails, appVars
<1>11. ASSUME NEW w \in Workers, Acknowledge(w) PROVE TypeInv'
  <2>1. working' \in [Workers -> Held]
    BY <1>11 DEF TypeInv, TypeOK, Acknowledge, Held
  <2> QED BY <1>11, <2>1 DEF TypeInv, TypeOK, TxnInv, Acknowledge, appVars
<1>12. CASE RetryDue
  <2>1. PICK job \in retries : retries' = retries \ {job} /\ queue' = Append(queue, job)
                               /\ UNCHANGED <<appVars, working, dead, lost, mails, faults>>
    BY <1>12 DEF RetryDue
  <2>2. queue' \in Seq(Job)
    BY <2>1, Pushed DEF TypeInv, TypeOK
  <2> QED BY <2>1, <2>2 DEF TypeInv, TypeOK, TxnInv, appVars
<1>13. ASSUME NEW w \in Workers, Shutdown(w) PROVE TypeInv'
  <2>1. queue' \in Seq(Job)
    <3>1. working[w].job \in Job /\ queue' = <<working[w].job>> \o queue
      BY <1>13, HeldJob DEF TypeInv, Shutdown
    <3> QED BY <3>1, PushedBack DEF TypeInv, TypeOK
  <2>2. working' \in [Workers -> Held]
    BY <1>13 DEF TypeInv, TypeOK, Shutdown, Held
  <2>3. faults' \in 0..MaxFaults /\ UNCHANGED <<appVars, retries, dead, lost, mails>>
    BY <1>13 DEF TypeInv, TypeOK, Shutdown
  <2> QED BY <2>1, <2>2, <2>3 DEF TypeInv, TypeOK, TxnInv, appVars
<1>14. ASSUME NEW w \in Workers, Kill(w) PROVE TypeInv'
  <2>1. lost' \subseteq Job
    BY <1>14, HeldJob DEF TypeInv, TypeOK, Kill
  <2>2. working' \in [Workers -> Held]
    BY <1>14 DEF TypeInv, TypeOK, Kill, Held
  <2> QED BY <1>14, <2>1, <2>2 DEF TypeInv, TypeOK, TxnInv, Kill, appVars
<1>15. CASE UNCHANGED vars
  BY <1>15 DEF TypeInv, TypeOK, TxnInv, vars
<1> QED BY <1>1, <1>2, <1>3, <1>4, <1>5, <1>6, <1>7, <1>8, <1>9, <1>10, <1>11, <1>12, <1>13, <1>14, <1>15
        DEF Next, SignUpStep, WorkerStep

\* Every variable has its type in every reachable state: rows have ids that the
\* counter handed out, jobs the ids of sign-ups (app/models/user.rb).
THEOREM MailTypeCorrect == Spec => []TypeOK
<1>1. TypeInv => TypeOK
  BY DEF TypeInv
<1> QED BY <1>1, TypeInit, TypeStep, PTL DEF Spec

-----------------------------------------------------------------------------
(* Mails go to accounts that were created.                                 *)

\* Also the mails that workers are about to send.
CommittedInv ==
  /\ \A i \in DOMAIN users : users[i] \in committed
  /\ \A w \in Workers : working[w].pc = "deliver" => working[w].to \in committed
  /\ MailedWereUsers

LEMMA CommittedInit == Init => CommittedInv
BY DEF Init, CommittedInv, MailedWereUsers, Free

LEMMA CommittedStep == TypeInv /\ CommittedInv /\ [Next]_vars => CommittedInv'
<1> SUFFICES ASSUME TypeInv, CommittedInv, [Next]_vars PROVE CommittedInv'
  OBVIOUS
<1> USE DEF CommittedInv, MailedWereUsers, TypeInv, TypeOK
<1>1. CASE SignUpInsert
  BY <1>1 DEF SignUpInsert
<1>2. CASE SendWelcomeEmail
  BY <1>2 DEF SendWelcomeEmail
<1>3. CASE SignUpCommit
  BY <1>3 DEF SignUpCommit
<1>4. CASE SignUpRollback
  BY <1>4 DEF SignUpRollback
<1>5. ASSUME NEW i \in DOMAIN users, LoginPush(i) PROVE CommittedInv'
  BY <1>5 DEF LoginPush
<1>6. ASSUME NEW i \in DOMAIN users, UserDestroy(i) PROVE CommittedInv'
  BY <1>6 DEF UserDestroy
<1>7. ASSUME NEW w \in Workers, Fetch(w) PROVE CommittedInv'
  BY <1>7 DEF Fetch, appVars
<1>8. ASSUME NEW w \in Workers, Perform(w) PROVE CommittedInv'
  BY <1>8 DEF Perform, appVars, Free
<1>9. ASSUME NEW w \in Workers, working[w].pc = "deliver", Mail(w), UNCHANGED committed
      PROVE  MailedWereUsers'
  <2>1. PICK n \in Nat \ {0} : mails' = mails \cup {<<working[w].job.jid, working[w].to, n>>}
    BY <1>9, Mailing
  <2> QED BY <1>9, <2>1
<1>10. ASSUME NEW w \in Workers, Deliver(w) PROVE CommittedInv'
  BY <1>9, <1>10 DEF Deliver, appVars
<1>11. ASSUME NEW w \in Workers, DeliverFails(w) PROVE CommittedInv'
  <2>1. MailedWereUsers'
    BY <1>9, <1>11 DEF DeliverFails, appVars
  <2> QED BY <1>11, <2>1 DEF DeliverFails, appVars, Free
<1>12. ASSUME NEW w \in Workers, Acknowledge(w) PROVE CommittedInv'
  BY <1>12 DEF Acknowledge, appVars, Free
<1>13. CASE RetryDue
  BY <1>13 DEF RetryDue, appVars
<1>14. ASSUME NEW w \in Workers, Shutdown(w) PROVE CommittedInv'
  BY <1>14 DEF Shutdown, appVars, Free
<1>15. ASSUME NEW w \in Workers, Kill(w) PROVE CommittedInv'
  BY <1>15 DEF Kill, appVars, Free
<1>16. CASE UNCHANGED vars
  BY <1>16 DEF vars
<1> QED BY <1>1, <1>2, <1>3, <1>4, <1>5, <1>6, <1>7, <1>8, <1>10, <1>11, <1>12, <1>13, <1>14, <1>15, <1>16
        DEF Next, SignUpStep, WorkerStep

\* A mail only goes to an account whose sign-up was committed, although jobs of
\* sign-ups that were rolled back run too, and their ids are used again
\* (UserMailerJob#perform, User#send_welcome_email).
THEOREM MailsGoToUsers == Spec => []MailedWereUsers
<1>1. CommittedInv => MailedWereUsers
  BY DEF CommittedInv
<1> QED BY <1>1, TypeInit, TypeStep, CommittedInit, CommittedStep, PTL DEF Spec

-----------------------------------------------------------------------------
(* No welcome is forgotten.                                                *)

Accounted(i) == \E job \in Alive \cup dead \cup lost : job.id = i

\* A sign-up that is about to commit has its job; who delivers looked up an id
\* that was committed, and has its account, or the row is gone; who is done has
\* mailed it.
WelcomeInv ==
  /\ txn.pc = "commit" => Accounted(txn.id)
  /\ \A w \in Workers :
       /\ working[w].pc \in {"deliver", "done"} => working[w].job.id <= userSeq
       /\ working[w].pc = "deliver" /\ working[w].job.id \in DOMAIN users =>
            working[w].to = users[working[w].job.id]
       /\ working[w].pc = "done" /\ working[w].job.id \in DOMAIN users =>
            Mailed(users[working[w].job.id])
  /\ WelcomeAccountedFor

\* Mails are never taken back.
LEMMA MailsStay == ASSUME TypeInv, [Next]_vars PROVE mails \subseteq mails'
BY DEF vars, Next, SignUpInsert, SignUpStep, SendWelcomeEmail, SignUpCommit, SignUpRollback, LoginPush,
       UserDestroy, WorkerStep, Fetch, Perform, Deliver, DeliverFails, Mail, Acknowledge, RetryDue, Shutdown, Kill

\* Where a job is found.
LEMMA Found ==
  ASSUME NEW job
  PROVE  job \in Alive \cup dead \cup lost <=>
           \/ job \in JobsIn(queue) \/ job \in retries \/ job \in dead \/ job \in lost
           \/ \E w \in Workers : working[w] # Free /\ job = working[w].job
BY DEF Alive

\* A job for an id stays somewhere until a worker is done with it.
LEMMA JobsStay ==
  ASSUME TypeInv, [Next]_vars, NEW i, Accounted(i)
  PROVE  Accounted(i)' \/ \E w \in Workers : working[w].pc = "done" /\ working[w].job.id = i
<1>1. PICK job \in Alive \cup dead \cup lost : job.id = i
  BY DEF Accounted
<1> USE DEF TypeInv, TypeOK
<1> DEFINE Somewhere(x) == \/ x \in JobsIn(queue) \/ x \in retries \/ x \in dead \/ x \in lost
                          \/ \E w \in Workers : working[w] # Free /\ x = working[w].job
<1>2. Somewhere(job)
  BY <1>1, Found
<1>3. ASSUME NEW x, Somewhere(x)', x.id = i PROVE Accounted(i)'
  BY <1>3 DEF Accounted, Alive
<1> HIDE DEF Somewhere
<1>4. CASE queue' = queue /\ working' = working /\ retries' = retries /\ dead' = dead /\ lost' = lost
  BY <1>1, <1>2, <1>3, <1>4 DEF Somewhere
<1>5. ASSUME NEW e \in Job, queue' = Append(queue, e), UNCHANGED <<working, retries, dead, lost>>
      PROVE  Accounted(i)'
  <2>1. JobsIn(queue') = JobsIn(queue) \cup {e}
    BY <1>5, Pushed
  <2> QED BY <1>1, <1>2, <1>3, <1>5, <2>1 DEF Somewhere
<1>6. CASE SignUpInsert \/ SignUpCommit \/ SignUpRollback \/ UNCHANGED vars \/ (\E k \in DOMAIN users : UserDestroy(k))
  BY <1>4, <1>6 DEF SignUpInsert, SignUpCommit, SignUpRollback, UserDestroy, vars
<1>7. CASE SendWelcomeEmail \/ (\E k \in DOMAIN users : LoginPush(k))
  <2>1. PICK e : queue' = Append(queue, e) /\ UNCHANGED <<working, retries, dead, lost>>
    BY <1>7 DEF SendWelcomeEmail, LoginPush, Push
  <2>2. e \in Job
    <3>1. queue' \in Seq(Job) /\ queue \in Seq(Job)
      BY TypeStep
    <3>2. queue'[Len(queue) + 1] = e /\ Len(queue) + 1 \in 1..Len(queue')
      BY <2>1, <3>1
    <3> QED BY <3>1, <3>2
  <2> QED BY <1>5, <2>1, <2>2
<1>8. ASSUME NEW w \in Workers, Fetch(w) PROVE Accounted(i)'
  <2>1. JobsIn(queue) = JobsIn(queue') \cup {Head(queue)}
    BY <1>8, Popped DEF Fetch
  <2>2. working'[w].job = Head(queue) /\ working'[w] # Free /\ \A v \in Workers : v # w => working'[v] = working[v]
    BY <1>8 DEF Fetch, Free
  <2> QED BY <1>1, <1>2, <1>3, <1>8, <2>1, <2>2 DEF Somewhere, Fetch
<1>9. ASSUME NEW w \in Workers, NEW again, again.id = working[w].job.id,
             again \in retries' \cup dead' \cup lost' \cup JobsIn(queue'),
             JobsIn(queue) \subseteq JobsIn(queue'), retries \subseteq retries', dead \subseteq dead', lost \subseteq lost',
             \A v \in Workers : v # w => working'[v] = working[v]
      PROVE  Accounted(i)'
  <2>1. CASE working[w] # Free /\ job = working[w].job
    BY <1>1, <1>3, <1>9, <2>1 DEF Somewhere
  <2>2. CASE ~(working[w] # Free /\ job = working[w].job)
    BY <1>1, <1>2, <1>3, <1>9, <2>2 DEF Somewhere
  <2> QED BY <2>1, <2>2
<1>10. ASSUME NEW w \in Workers, working'[w] # Free, working'[w].job = working[w].job,
              \A v \in Workers : v # w => working'[v] = working[v],
              UNCHANGED <<queue, retries, dead, lost>>
       PROVE  Accounted(i)'
  BY <1>1, <1>2, <1>3, <1>10 DEF Somewhere
<1>11. ASSUME NEW w \in Workers, Perform(w) PROVE Accounted(i)'
  <2>1. CASE working[w].job.id \in DOMAIN users
    BY <1>10, <1>11, <2>1 DEF Perform, Free
  <2>2. CASE working[w].job.id \notin DOMAIN users
    <3>1. working[w].job \in Job /\ Retry(working[w].job)
      BY <1>11, <2>2, HeldJob DEF Perform
    <3>2. PICK again \in Job :
            /\ again.id = working[w].job.id
            /\ \/ retries' = retries \cup {again} /\ dead' = dead
               \/ retries' = retries /\ dead' = dead \cup {again}
      BY <3>1, Retried
    <3> QED BY <1>9, <1>11, <2>2, <3>2 DEF Perform
  <2> QED BY <2>1, <2>2
<1>12. ASSUME NEW w \in Workers, Deliver(w) PROVE Accounted(i)'
  BY <1>10, <1>12 DEF Deliver, Free
<1>13. ASSUME NEW w \in Workers, DeliverFails(w) PROVE Accounted(i)'
  <2>1. working[w].job \in Job /\ Retry(working[w].job)
    BY <1>13, HeldJob DEF DeliverFails
  <2>2. PICK again \in Job :
          /\ again.id = working[w].job.id
          /\ \/ retries' = retries \cup {again} /\ dead' = dead
             \/ retries' = retries /\ dead' = dead \cup {again}
    BY <2>1, Retried
  <2> QED BY <1>9, <1>13, <2>2 DEF DeliverFails
<1>14. ASSUME NEW w \in Workers, Acknowledge(w)
       PROVE  Accounted(i)' \/ (working[w].pc = "done" /\ working[w].job.id = i)
  <2>1. CASE working[w] # Free /\ job = working[w].job
    BY <1>1, <1>14, <2>1 DEF Acknowledge
  <2>2. CASE ~(working[w] # Free /\ job = working[w].job)
    <3>1. queue' = queue /\ retries' = retries /\ dead' = dead /\ lost' = lost
          /\ \A v \in Workers : v # w => working'[v] = working[v]
      BY <1>14 DEF Acknowledge
    <3>2. Somewhere(job)'
      BY <1>2, <2>2, <3>1 DEF Somewhere
    <3> QED BY <1>1, <1>3, <3>2
  <2> QED BY <2>1, <2>2
<1>15. CASE RetryDue
  <2>1. PICK due \in retries : retries' = retries \ {due} /\ queue' = Append(queue, due)
                               /\ UNCHANGED <<working, dead, lost>>
    BY <1>15 DEF RetryDue
  <2>2. JobsIn(queue') = JobsIn(queue) \cup {due}
    BY <2>1, Pushed
  <2> QED BY <1>1, <1>2, <1>3, <2>1, <2>2 DEF Somewhere
<1>16. ASSUME NEW w \in Workers, Shutdown(w) PROVE Accounted(i)'
  <2>1. working[w].job \in Job /\ queue' = <<working[w].job>> \o queue
    BY <1>16, HeldJob DEF Shutdown
  <2>2. JobsIn(queue') = JobsIn(queue) \cup {working[w].job}
    BY <2>1, PushedBack
  <2>3. UNCHANGED <<retries, dead, lost>> /\ \A v \in Workers : v # w => working'[v] = working[v]
    BY <1>16 DEF Shutdown
  <2> QED BY <1>9, <2>2, <2>3
<1>17. ASSUME NEW w \in Workers, Kill(w) PROVE Accounted(i)'
  BY <1>9, <1>17 DEF Kill
<1> QED BY <1>6, <1>7, <1>8, <1>11, <1>12, <1>13, <1>14, <1>15, <1>16, <1>17
        DEF Next, SignUpStep, WorkerStep

LEMMA WelcomeInit == Init => WelcomeInv
BY DEF Init, WelcomeInv, WelcomeAccountedFor, NoTxn, Free

\* Rows are only added above the counter, and their accounts never change.
LEMMA Rows ==
  ASSUME TypeInv, [Next]_vars
  PROVE  /\ userSeq' \in Nat /\ userSeq <= userSeq'
         /\ \A k \in DOMAIN users' : k <= userSeq => k \in DOMAIN users /\ users'[k] = users[k]
         /\ \A k \in DOMAIN users' : ~(k <= userSeq) => txn.pc = "commit" /\ k = txn.id
<1> USE DEF TypeInv, TypeOK
<1>1. CASE SignUpCommit
  <2>1. txn.id = userSeq + 1
    BY <1>1 DEF TxnInv, SignUpCommit, NoTxn
  <2> QED BY <1>1, <2>1 DEF SignUpCommit
<1>2. ASSUME NEW i \in DOMAIN users, UserDestroy(i)
      PROVE  userSeq' = userSeq /\ DOMAIN users' \subseteq DOMAIN users /\ \A k \in DOMAIN users' : users'[k] = users[k]
  BY <1>2 DEF UserDestroy
<1>3. CASE SignUpInsert \/ SendWelcomeEmail \/ SignUpRollback \/ (\E i \in DOMAIN users : LoginPush(i))
  BY <1>3 DEF SignUpInsert, SendWelcomeEmail, SignUpRollback, LoginPush
<1>4. CASE RetryDue \/ \E w \in Workers : WorkerStep(w) \/ DeliverFails(w) \/ Shutdown(w) \/ Kill(w)
  <2>1. users' = users /\ userSeq' = userSeq
    BY <1>4 DEF appVars, WorkerStep, Fetch, Perform, Deliver, DeliverFails, Acknowledge, RetryDue, Shutdown, Kill
  <2> QED BY <2>1
<1>5. CASE UNCHANGED vars
  BY <1>5 DEF vars
<1> QED BY <1>1, <1>2, <1>3, <1>4, <1>5 DEF Next, SignUpStep

LEMMA WelcomeStep == TypeInv /\ WelcomeInv /\ [Next]_vars => WelcomeInv'
<1> SUFFICES ASSUME TypeInv, WelcomeInv, [Next]_vars PROVE WelcomeInv'
  OBVIOUS
<1> DEFINE Holds(w) ==
      /\ working[w].pc \in {"deliver", "done"} => working[w].job.id <= userSeq
      /\ working[w].pc = "deliver" /\ working[w].job.id \in DOMAIN users =>
           working[w].to = users[working[w].job.id]
      /\ working[w].pc = "done" /\ working[w].job.id \in DOMAIN users =>
           Mailed(users[working[w].job.id])
<1>1. mails \subseteq mails'
  BY MailsStay
<1>3. \A w \in Workers : Holds(w)
  BY DEF WelcomeInv
<1>4. userSeq \in Nat /\ \A w \in Workers : working[w].pc \in {"deliver", "done"} => working[w].job.id \in Nat
  <2>1. \A w \in Workers : working[w].pc \in {"deliver", "done"} => working[w].job \in Job
    BY HeldJob DEF TypeInv
  <2>2. \A x \in Job : x.id \in Nat
    BY MailAssumption DEF Job
  <2>3. userSeq \in Nat
    BY MailAssumption DEF TypeInv, TypeOK
  <2> QED BY <2>1, <2>2, <2>3
<1>5. \A w \in Workers : working'[w] = working[w] => Holds(w)'
  BY <1>1, <1>3, <1>4, Rows DEF Mailed
<1>6. \A w \in Workers : working'[w].pc \in {"free", "perform"} => Holds(w)'
  OBVIOUS
<1>7. \A w \in Workers : Holds(w)'
  <2> USE DEF TypeInv, TypeOK
  <2>1. ASSUME NEW w \in Workers, Perform(w) PROVE \A v \in Workers : Holds(v)'
    <3>1. CASE working[w].job.id \in DOMAIN users
      <4>1. working'[w] = [pc |-> "deliver", job |-> working[w].job, to |-> users[working[w].job.id]]
            /\ users' = users /\ userSeq' = userSeq
        BY <2>1, <3>1 DEF Perform, appVars
      <4>2. Holds(w)'
        BY <3>1, <4>1
      <4> QED BY <1>5, <2>1, <3>1, <4>2 DEF Perform
    <3>2. CASE working[w].job.id \notin DOMAIN users
      BY <1>5, <1>6, <2>1, <3>2 DEF Perform, Free
    <3> QED BY <3>1, <3>2
  <2>2. ASSUME NEW w \in Workers, Deliver(w) PROVE \A v \in Workers : Holds(v)'
    <3>1. PICK n : mails' = mails \cup {<<working[w].job.jid, working[w].to, n>>}
      BY <2>2, Mailing DEF Deliver
    <3>2. working' = [working EXCEPT ![w] = [pc |-> "done", job |-> @.job]] /\ users' = users /\ userSeq' = userSeq
      BY <2>2 DEF Deliver, appVars
    <3>3. working'[w].pc = "done" /\ working'[w].job = working[w].job
      BY <3>2
    <3>4. \E m \in mails' : m[2] = working[w].to
      <4>1. <<working[w].job.jid, working[w].to, n>> \in mails'
        BY <3>1
      <4>2. <<working[w].job.jid, working[w].to, n>>[2] = working[w].to
        OBVIOUS
      <4> QED BY <4>1, <4>2, Zenon
    <3>5. working[w].pc = "deliver"
      BY <2>2 DEF Deliver
    <3>6. Holds(w)'
      BY <1>3, <3>2, <3>3, <3>4, <3>5 DEF Mailed
    <3> QED BY <1>5, <3>2, <3>6
  <2>3. ASSUME NEW w \in Workers, Fetch(w) PROVE \A v \in Workers : Holds(v)'
    BY <1>5, <1>6, <2>3 DEF Fetch
  <2>4. ASSUME NEW w \in Workers, Acknowledge(w) \/ DeliverFails(w) \/ Shutdown(w) \/ Kill(w)
        PROVE  \A v \in Workers : Holds(v)'
    <3>1. working' = [working EXCEPT ![w] = Free]
      BY <2>4 DEF Acknowledge, DeliverFails, Shutdown, Kill
    <3> QED BY <1>5, <1>6, <3>1 DEF Free
  <2>5. CASE SignUpInsert \/ SignUpStep \/ SignUpRollback \/ RetryDue \/ UNCHANGED vars
             \/ \E i \in DOMAIN users : LoginPush(i) \/ UserDestroy(i)
    <3>1. working' = working
      BY <2>5 DEF SignUpInsert, SignUpStep, SendWelcomeEmail, SignUpCommit, SignUpRollback, RetryDue, LoginPush,
                  UserDestroy, vars
    <3> QED BY <1>5, <3>1
  <2> HIDE DEF Holds
  <2> QED BY <2>1, <2>2, <2>3, <2>4, <2>5 DEF Next, WorkerStep
<1>8. ASSUME txn.pc = "commit" PROVE \A i : i = txn.id => Accounted(i)'
  <2> SUFFICES ASSUME NEW i, i = txn.id PROVE Accounted(i)'
    OBVIOUS
  <2>1. Accounted(i)
    BY <1>8 DEF WelcomeInv
  <2>2. i = userSeq + 1
    BY <1>8 DEF TypeInv, TxnInv, NoTxn
  <2> QED BY <1>3, <1>4, <2>1, <2>2, JobsStay
<1>9. txn'.pc = "commit" => Accounted(txn.id)'
  <2>1. CASE SendWelcomeEmail
    <3>1. txn'.id = txn.id /\ txn.id \in 1..MaxAccounts /\ txn.account \in 1..MaxAccounts
      BY <2>1 DEF SendWelcomeEmail, TypeInv, TypeOK, Txn, NoTxn
    <3>2. PICK e : e = [jid |-> jobs + 1, id |-> txn.id, account |-> txn.account, count |-> 0]
      OBVIOUS
    <3>3. e \in Job /\ queue' = Append(queue, e)
      BY <2>1, <3>1, <3>2, MailAssumption DEF SendWelcomeEmail, Push, Job, TypeInv, TypeOK
    <3>4. e \in JobsIn(queue')
      BY <3>3, Pushed DEF TypeInv, TypeOK
    <3> QED BY <3>1, <3>2, <3>4 DEF Accounted, Alive
  <2>2. CASE ~SendWelcomeEmail
    <3>1. txn'.pc = "commit" => txn' = txn
      <4>1. CASE RetryDue \/ UNCHANGED vars \/ (\E i \in DOMAIN users : LoginPush(i) \/ UserDestroy(i))
        BY <4>1 DEF RetryDue, LoginPush, UserDestroy, appVars, vars
      <4>2. ASSUME NEW w \in Workers, WorkerStep(w) \/ DeliverFails(w) \/ Shutdown(w) \/ Kill(w) PROVE txn' = txn
        BY <4>2 DEF WorkerStep, Fetch, Perform, Deliver, DeliverFails, Acknowledge, Shutdown, Kill, appVars
      <4>3. CASE SignUpInsert \/ SignUpCommit \/ SignUpRollback
        BY <4>3 DEF SignUpInsert, SignUpCommit, SignUpRollback, NoTxn
      <4> QED BY <2>2, <4>1, <4>2, <4>3 DEF Next, SignUpStep
    <3> QED BY <1>8, <3>1 DEF Accounted
  <2> QED BY <2>1, <2>2
<1>10. ASSUME NEW k \in DOMAIN users' PROVE Mailed(users[k])' \/ Accounted(k)'
  <2>1. CASE k <= userSeq
    <3>1. k \in DOMAIN users /\ users'[k] = users[k]
      BY <1>10, <2>1, Rows
    <3>2. Mailed(users[k]) \/ Accounted(k)
      BY <3>1 DEF WelcomeInv, WelcomeAccountedFor, Accounted
    <3>3. CASE Mailed(users[k])
      BY <1>1, <3>1, <3>3 DEF Mailed
    <3>4. CASE Accounted(k)
      <4>1. Accounted(k)' \/ \E w \in Workers : working[w].pc = "done" /\ working[w].job.id = k
        BY <3>4, JobsStay
      <4>2. ASSUME NEW w \in Workers, working[w].pc = "done", working[w].job.id = k PROVE Mailed(users[k])'
        BY <1>1, <1>3, <3>1, <4>2 DEF Mailed
      <4> QED BY <4>1, <4>2
    <3> QED BY <3>2, <3>3, <3>4
  <2>2. CASE ~(k <= userSeq)
    BY <1>8, <1>10, <2>2, Rows
  <2> QED BY <2>1, <2>2
<1> HIDE DEF Holds
<1>11. WelcomeAccountedFor'
  BY <1>10 DEF WelcomeAccountedFor, Accounted
<1> QED BY <1>7, <1>9, <1>11 DEF WelcomeInv, Holds

\* A user that exists and was not mailed has a job somewhere, whatever order
\* commits, rollbacks, deletions and the workers' steps come in
\* (User#send_welcome_email, UserMailerJob, ApplicationJob without discard_on).
THEOREM NoWelcomeForgotten == Spec => []WelcomeAccountedFor
<1>1. WelcomeInv => WelcomeAccountedFor
  BY DEF WelcomeInv
<1> QED BY <1>1, TypeInit, TypeStep, WelcomeInit, WelcomeStep, PTL DEF Spec

-----------------------------------------------------------------------------
(* How often a job mails.                                                  *)

\* A job is in one place only, and new ones have new jids.
OnePlace ==
  /\ Distinct(queue)
  /\ \A a, b \in retries : a.jid = b.jid => a = b
  /\ \A v, w \in Workers :
       working[v] # Free /\ working[w] # Free /\ working[v].job.jid = working[w].job.jid => v = w
  /\ \A a \in JobsIn(queue), b \in retries : a.jid # b.jid
  /\ \A a \in JobsIn(queue) \cup retries, w \in Workers :
       working[w] # Free => a.jid # working[w].job.jid
  /\ \A a \in JobsIn(queue) \cup retries : a.jid <= jobs
  /\ \A w \in Workers : working[w] # Free => working[w].job.jid <= jobs
  /\ \A m \in mails : m[1] <= jobs

Sent(j) == Cardinality({m \in mails : m[1] = j})

\* A job that may still run has mailed at most as often as there were faults.
CountInv ==
  /\ \A a \in JobsIn(queue) \cup retries : Sent(a.jid) <= faults
  /\ \A w \in Workers : working[w].pc \in {"perform", "deliver"} => Sent(working[w].job.jid) <= faults
  /\ \A j \in Nat : Sent(j) <= faults + 1

LEMMA OnePlaceInit == Init => OnePlace
BY DEF Init, OnePlace, Distinct, JobsIn, Free

\* A new job gets a jid above all others.
LEMMA PushKeeps ==
  ASSUME TypeInv, OnePlace, NEW e \in Job, e.jid = jobs + 1, jobs' = jobs + 1, queue' = Append(queue, e),
         UNCHANGED <<working, retries, mails>>
  PROVE  OnePlace'
<1> USE DEF TypeInv, TypeOK
<1>1. JobsIn(queue') = JobsIn(queue) \cup {e}
  BY Pushed
<1>2. \A x \in Job : x.jid \in Nat
  BY MailAssumption, SMTT(30) DEF Job
<1>3. jobs \in Nat /\ JobsIn(queue) \subseteq Job
  BY DEF JobsIn
<1>4. \A x \in JobsIn(queue) \cup retries : x.jid # e.jid
  BY <1>2, <1>3 DEF OnePlace
<1>5. Distinct(queue')
  BY <1>4, Pushed DEF OnePlace
<1>6. \A w \in Workers : working[w] # Free => working[w].job.jid # e.jid /\ working[w].job.jid \in Nat
  <2>1. \A w \in Workers : working[w] # Free => working[w].job \in Job
    BY HeldJob
  <2>2. \A w \in Workers : working[w] # Free => working[w].job.jid <= jobs
    BY DEF OnePlace
  <2> HIDE DEF TypeInv, TypeOK
  <2> QED BY <1>2, <1>3, <2>1, <2>2
<1>7. \A m \in mails : m[1] \in Nat
  BY MailAssumption, SMTT(30)
<1> QED BY <1>1, <1>2, <1>3, <1>4, <1>5, <1>6, <1>7 DEF OnePlace

\* A worker's job goes to the retries, or nowhere where it is run again.
LEMMA ReleaseKeeps ==
  ASSUME TypeInv, OnePlace, NEW w \in Workers, working[w] # Free,
         working' = [working EXCEPT ![w] = Free], jobs' = jobs, queue' = queue,
         \A m \in mails' : m[1] <= jobs,
         \/ retries' = retries
         \/ \E again \in Job : again.jid = working[w].job.jid /\ retries' = retries \cup {again}
  PROVE  OnePlace'
<1>1. working'[w] = Free /\ \A v \in Workers : v # w => working'[v] = working[v]
  BY DEF TypeInv, TypeOK
<1>2. CASE retries' = retries
  BY <1>1, <1>2 DEF OnePlace
<1>3. ASSUME NEW again \in Job, again.jid = working[w].job.jid, retries' = retries \cup {again} PROVE OnePlace'
  <2>1. \A a \in JobsIn(queue) \cup retries : a.jid # again.jid
    BY <1>3 DEF OnePlace
  <2>2. \A v \in Workers : v # w /\ working[v] # Free => working[v].job.jid # again.jid
    BY <1>3 DEF OnePlace
  <2>3. again.jid <= jobs
    BY <1>3 DEF OnePlace
  <2> QED BY <1>1, <1>3, <2>1, <2>2, <2>3 DEF OnePlace
<1> QED BY <1>2, <1>3

LEMMA OnePlaceStep == TypeInv /\ OnePlace /\ [Next]_vars => OnePlace'
<1> SUFFICES ASSUME TypeInv, OnePlace, [Next]_vars PROVE OnePlace'
  OBVIOUS
<1> USE DEF TypeInv, TypeOK
<1>1. CASE SignUpInsert \/ SignUpCommit \/ SignUpRollback \/ UNCHANGED vars \/ (\E i \in DOMAIN users : UserDestroy(i))
  <2>1. jobs' = jobs /\ queue' = queue /\ working' = working /\ retries' = retries /\ mails' = mails
    BY <1>1 DEF SignUpInsert, SignUpCommit, SignUpRollback, UserDestroy, vars
  <2> QED BY <2>1 DEF OnePlace
<1>2. CASE SendWelcomeEmail
  <2>1. txn.id \in 1..MaxAccounts /\ txn.account \in 1..MaxAccounts
    BY <1>2 DEF SendWelcomeEmail, Txn, NoTxn
  <2>2. [jid |-> jobs + 1, id |-> txn.id, account |-> txn.account, count |-> 0] \in Job
    BY <1>2, <2>1, MailAssumption DEF SendWelcomeEmail, Push, Job
  <2> QED BY <1>2, <2>2, PushKeeps DEF SendWelcomeEmail, Push
<1>3. ASSUME NEW i \in DOMAIN users, LoginPush(i) PROVE OnePlace'
  <2>1. [jid |-> jobs + 1, id |-> i, account |-> users[i], count |-> 0] \in Job
    BY <1>3, MailAssumption DEF LoginPush, Push, Job
  <2> QED BY <1>3, <2>1, PushKeeps DEF LoginPush, Push
<1>4. ASSUME NEW w \in Workers, Fetch(w) PROVE OnePlace'
  <2>1. queue # <<>> /\ queue' = Tail(queue) /\ UNCHANGED <<jobs, retries, mails>> /\ working[w] = Free
    BY <1>4 DEF Fetch, appVars
  <2>2. /\ JobsIn(queue) = JobsIn(queue') \cup {Head(queue)} /\ Distinct(queue')
        /\ \A x \in JobsIn(queue') : x.jid # Head(queue).jid
    BY <2>1, Popped DEF OnePlace
  <2>3. working'[w].job = Head(queue) /\ \A v \in Workers : v # w => working'[v] = working[v]
    BY <1>4 DEF Fetch
  <2> QED BY <2>1, <2>2, <2>3, SMTT(30) DEF OnePlace
<1>5. ASSUME NEW w \in Workers, Perform(w) PROVE OnePlace'
  <2>1. CASE working[w].job.id \in DOMAIN users
    <3>1. /\ working'[w] # Free /\ working[w] # Free /\ working'[w].job = working[w].job
          /\ \A v \in Workers : v # w => working'[v] = working[v]
          /\ jobs' = jobs /\ queue' = queue /\ retries' = retries /\ mails' = mails
      BY <1>5, <2>1, HeldJob, SMTT(30) DEF Perform, Free, appVars
    <3> QED BY <3>1, SMTT(30) DEF OnePlace
  <2>2. CASE working[w].job.id \notin DOMAIN users
    <3>1. working[w] # Free /\ working[w].job \in Job /\ Retry(working[w].job)
          /\ working' = [working EXCEPT ![w] = Free] /\ jobs' = jobs /\ queue' = queue /\ mails' = mails
      BY <1>5, <2>2, HeldJob DEF Perform, appVars
    <3>2. \/ retries' = retries
          \/ \E again \in Job : again.jid = working[w].job.jid /\ retries' = retries \cup {again}
      BY <3>1, Retried
    <3>3. \A m \in mails' : m[1] <= jobs
      BY <3>1 DEF OnePlace
    <3> QED BY <3>1, <3>2, <3>3, ReleaseKeeps
  <2> QED BY <2>1, <2>2
<1>6. ASSUME NEW w \in Workers, working[w].pc = "deliver", Mail(w) PROVE \A m \in mails' : m[1] <= jobs
  <2>1. PICK n \in Nat \ {0} : mails' = mails \cup {<<working[w].job.jid, working[w].to, n>>}
    BY <1>6, Mailing
  <2>2. working[w].job.jid <= jobs
    BY <1>6, HeldJob DEF OnePlace
  <2> QED BY <2>1, <2>2 DEF OnePlace
<1>7. ASSUME NEW w \in Workers, Deliver(w) PROVE OnePlace'
  <2>1. \A m \in mails' : m[1] <= jobs
    BY <1>6, <1>7 DEF Deliver
  <2>2. /\ working'[w] # Free /\ working[w] # Free /\ working'[w].job = working[w].job
        /\ \A v \in Workers : v # w => working'[v] = working[v]
        /\ jobs' = jobs /\ queue' = queue /\ retries' = retries
    BY <1>7, HeldJob DEF Deliver, Free, appVars
  <2> QED BY <2>1, <2>2 DEF OnePlace
<1>8. ASSUME NEW w \in Workers, DeliverFails(w) PROVE OnePlace'
  <2>1. \A m \in mails' : m[1] <= jobs
    BY <1>6, <1>8 DEF DeliverFails, OnePlace
  <2>2. working[w] # Free /\ working[w].job \in Job /\ Retry(working[w].job)
        /\ working' = [working EXCEPT ![w] = Free] /\ jobs' = jobs /\ queue' = queue
    BY <1>8, HeldJob DEF DeliverFails, appVars
  <2>3. \/ retries' = retries
        \/ \E again \in Job : again.jid = working[w].job.jid /\ retries' = retries \cup {again}
    BY <2>2, Retried
  <2> QED BY <2>1, <2>2, <2>3, ReleaseKeeps
<1>9. ASSUME NEW w \in Workers, Acknowledge(w) \/ Kill(w) PROVE OnePlace'
  <2>1. working[w] # Free /\ working' = [working EXCEPT ![w] = Free]
        /\ jobs' = jobs /\ queue' = queue /\ retries' = retries /\ mails' = mails
    BY <1>9, HeldJob DEF Acknowledge, Kill, appVars
  <2>2. \A m \in mails' : m[1] <= jobs
    BY <2>1 DEF OnePlace
  <2> QED BY <2>1, <2>2, ReleaseKeeps
<1>10. CASE RetryDue
  <2>1. PICK due \in retries : retries' = retries \ {due} /\ queue' = Append(queue, due)
                               /\ UNCHANGED <<jobs, working, mails>>
    BY <1>10 DEF RetryDue, appVars
  <2>2. \A x \in JobsIn(queue) : x.jid # due.jid
    BY <2>1 DEF OnePlace
  <2>3. JobsIn(queue') = JobsIn(queue) \cup {due} /\ Distinct(queue')
    BY <2>1, <2>2, Pushed DEF OnePlace
  <2> QED BY <2>1, <2>3 DEF OnePlace
<1>11. ASSUME NEW w \in Workers, Shutdown(w) PROVE OnePlace'
  <2>1. working[w] # Free /\ working[w].job \in Job /\ queue' = <<working[w].job>> \o queue
        /\ working' = [working EXCEPT ![w] = Free] /\ UNCHANGED <<jobs, retries, mails>>
    BY <1>11, HeldJob DEF Shutdown, appVars
  <2>2. \A x \in JobsIn(queue) : x.jid # working[w].job.jid
    BY <2>1 DEF OnePlace
  <2>3. JobsIn(queue') = JobsIn(queue) \cup {working[w].job} /\ Distinct(queue')
    BY <2>1, <2>2, PushedBack DEF OnePlace
  <2>4. working'[w] = Free /\ \A v \in Workers : v # w => working'[v] = working[v]
    BY <2>1
  <2>5. UNCHANGED <<jobs, retries, mails>>
    BY <2>1
  <2> QED BY <2>3, <2>4, <2>5, <2>1 DEF OnePlace
<1> QED BY <1>1, <1>2, <1>3, <1>4, <1>5, <1>7, <1>8, <1>9, <1>10, <1>11 DEF Next, SignUpStep, WorkerStep

LEMMA SentType ==
  ASSUME IsFiniteSet(mails), NEW j
  PROVE  IsFiniteSet({m \in mails : m[1] = j}) /\ Sent(j) \in Nat
<1>1. IsFiniteSet({m \in mails : m[1] = j})
  BY FS_Subset
<1> QED BY <1>1, FS_CardinalityType DEF Sent

\* One mail of one job is counted once, and for that job alone.
LEMMA Counted ==
  ASSUME TypeInv, NEW w \in Workers, working[w].pc = "deliver", Mail(w)
  PROVE  /\ \A j : j # working[w].job.jid => Sent(j)' = Sent(j)
         /\ \A j : Sent(j)' \in Nat /\ Sent(j)' <= Sent(j) + 1
<1>1. PICK n \in Nat \ {0} : mails' = mails \cup {<<working[w].job.jid, working[w].to, n>>}
  BY Mailing
<1>2. PICK m : m = <<working[w].job.jid, working[w].to, n>> /\ m[1] = working[w].job.jid /\ mails' = mails \cup {m}
  BY <1>1
<1>3. ASSUME NEW j, j # m[1] PROVE Sent(j)' = Sent(j)
  <2>1. {x \in mails' : x[1] = j} = {x \in mails : x[1] = j}
    BY <1>2, <1>3
  <2> QED BY <2>1 DEF Sent
<1>4. ASSUME NEW j PROVE Sent(j)' \in Nat /\ Sent(j)' <= Sent(j) + 1
  <2> DEFINE S == {x \in mails : x[1] = j}
  <2>1. IsFiniteSet(S) /\ Cardinality(S) \in Nat
    BY SentType DEF TypeInv, Sent
  <2>2. CASE j = m[1]
    <3>1. {x \in mails' : x[1] = j} = S \cup {m}
      BY <1>2, <2>2
    <3>2. Cardinality(S \cup {m}) \in {Cardinality(S), Cardinality(S) + 1}
      BY <2>1, FS_AddElement
    <3> HIDE DEF S
    <3>3. Sent(j)' = Cardinality(S \cup {m}) /\ Sent(j) = Cardinality(S)
      BY <3>1 DEF Sent, S
    <3> QED BY <2>1, <3>2, <3>3
  <2>3. CASE j # m[1]
    <3>1. Sent(j) = Cardinality(S)
      BY DEF Sent
    <3> HIDE DEF S
    <3> QED BY <1>3, <2>1, <2>3, <3>1
  <2> QED BY <2>2, <2>3
<1> QED BY <1>2, <1>3, <1>4

LEMMA CountInit == Init => CountInv
<1> SUFFICES ASSUME Init PROVE CountInv
  OBVIOUS
<1>1. \A j : {m \in mails : m[1] = j} = {}
  BY DEF Init
<1>2. \A j : Sent(j) = 0
  BY <1>1, FS_EmptySet DEF Sent
<1>3. faults = 0 /\ JobsIn(queue) = {} /\ retries = {} /\ \A w \in Workers : working[w].pc = "free"
  BY DEF Init, JobsIn, Free
<1> QED BY <1>2, <1>3 DEF CountInv

\* Steps without a mail or a fault: no job that may not run any more comes back.
LEMMA NoNewCount ==
  ASSUME TypeInv, CountInv, mails' = mails, faults' \in Nat, faults <= faults',
         \A a \in JobsIn(queue') \cup retries' :
           \/ \E b \in JobsIn(queue) \cup retries : a.jid = b.jid
           \/ \E w \in Workers : working[w].pc \in {"perform", "deliver"} /\ a.jid = working[w].job.jid
           \/ a.jid = jobs + 1 /\ \A m \in mails : m[1] <= jobs
           \/ faults' = faults + 1 /\ a.jid \in Nat,
         \A w \in Workers : working'[w].pc \in {"perform", "deliver"} =>
           \/ working[w].pc \in {"perform", "deliver"} /\ working'[w].job = working[w].job
           \/ working'[w].job \in JobsIn(queue)
  PROVE  CountInv'
<1>1. \A j : Sent(j)' = Sent(j) /\ Sent(j) \in Nat
  BY SentType DEF Sent, TypeInv
<1>2. faults \in Nat /\ jobs \in Nat /\ \A m \in mails : m[1] \in Nat
  BY MailAssumption DEF TypeInv, TypeOK
<1>3. (\A m \in mails : m[1] <= jobs) => Sent(jobs + 1) = 0
  <2>1. (\A m \in mails : m[1] <= jobs) => {m \in mails : m[1] = jobs + 1} = {}
    BY <1>2
  <2> QED BY <2>1, FS_EmptySet DEF Sent
<1>4. ASSUME NEW a \in JobsIn(queue') \cup retries' PROVE Sent(a.jid) <= faults'
  BY <1>1, <1>2, <1>3, <1>4 DEF CountInv
<1>5. ASSUME NEW w \in Workers, working'[w].pc \in {"perform", "deliver"} PROVE Sent(working'[w].job.jid) <= faults'
  BY <1>1, <1>2, <1>5 DEF CountInv
<1>6. \A j \in Nat : Sent(j) <= faults' + 1
  BY <1>1, <1>2 DEF CountInv
<1> QED BY <1>1, <1>4, <1>5, <1>6 DEF CountInv, Sent

LEMMA CountStep == TypeInv /\ OnePlace /\ CountInv /\ [Next]_vars => CountInv'
<1> SUFFICES ASSUME TypeInv, OnePlace, CountInv, [Next]_vars PROVE CountInv'
  OBVIOUS
<1> USE DEF TypeInv, TypeOK
<1>0. faults \in Nat /\ \A x \in Job : x.jid \in Nat
  BY MailAssumption DEF Job
<1>1. CASE SignUpInsert \/ SignUpCommit \/ SignUpRollback \/ UNCHANGED vars \/ (\E i \in DOMAIN users : UserDestroy(i))
  <2>1. queue' = queue /\ working' = working /\ retries' = retries /\ mails' = mails /\ faults' = faults
    BY <1>1 DEF SignUpInsert, SignUpCommit, SignUpRollback, UserDestroy, vars
  <2> QED BY <2>1 DEF CountInv, Sent
<1>2. CASE SendWelcomeEmail \/ (\E i \in DOMAIN users : LoginPush(i))
  <2>1. PICK e : e.jid = jobs + 1 /\ queue' = Append(queue, e) /\ UNCHANGED <<working, retries, mails, faults>>
    BY <1>2 DEF SendWelcomeEmail, LoginPush, Push
  <2>2. JobsIn(queue') = JobsIn(queue) \cup {e}
    <3>1. e \in Job
      <4>1. queue' \in Seq(Job) /\ queue \in Seq(Job)
        BY TypeStep
      <4>2. queue'[Len(queue) + 1] = e /\ Len(queue) + 1 \in 1..Len(queue')
        BY <2>1, <4>1
      <4> QED BY <4>1, <4>2
    <3> QED BY <2>1, <3>1, Pushed
  <2>3. \A m \in mails : m[1] <= jobs
    BY DEF OnePlace
  <2> QED BY <1>0, <2>1, <2>2, <2>3, NoNewCount
<1>3. ASSUME NEW w \in Workers, Fetch(w) PROVE CountInv'
  <2>1. /\ queue # <<>> /\ queue' = Tail(queue) /\ retries' = retries /\ mails' = mails /\ faults' = faults
        /\ working' = [working EXCEPT ![w] = [pc |-> "perform", job |-> Head(queue)]]
    BY <1>3 DEF Fetch
  <2>2. JobsIn(queue) = JobsIn(queue') \cup {Head(queue)}
    BY <2>1, Popped
  <2> QED BY <1>0, <2>1, <2>2, NoNewCount
<1>4. ASSUME NEW w \in Workers, Perform(w) PROVE CountInv'
  <2>1. CASE working[w].job.id \in DOMAIN users
    <3>1. /\ queue' = queue /\ retries' = retries /\ mails' = mails /\ faults' = faults
          /\ working[w].pc = "perform" /\ working'[w].job = working[w].job
          /\ \A v \in Workers : v # w => working'[v] = working[v]
      BY <1>4, <2>1 DEF Perform
    <3> QED BY <1>0, <3>1, NoNewCount
  <2>2. CASE working[w].job.id \notin DOMAIN users
    <3>1. /\ queue' = queue /\ mails' = mails /\ faults' = faults
          /\ working[w].pc = "perform" /\ working' = [working EXCEPT ![w] = Free]
          /\ working[w].job \in Job /\ Retry(working[w].job)
      BY <1>4, <2>2, HeldJob DEF Perform
    <3>2. \/ retries' = retries
          \/ \E again \in Job : again.jid = working[w].job.jid /\ retries' = retries \cup {again}
      BY <3>1, Retried
    <3>3. working'[w].pc = "free" /\ \A v \in Workers : v # w => working'[v] = working[v]
      BY <3>1 DEF Free
    <3> QED BY <1>0, <3>1, <3>2, <3>3, NoNewCount
  <2> QED BY <2>1, <2>2
<1>5. ASSUME NEW w \in Workers, Acknowledge(w) PROVE CountInv'
  <2>1. /\ queue' = queue /\ retries' = retries /\ mails' = mails /\ faults' = faults
        /\ working'[w].pc = "free" /\ \A v \in Workers : v # w => working'[v] = working[v]
    BY <1>5 DEF Acknowledge, Free
  <2> HIDE DEF TypeInv, TypeOK
  <2>2. \A v \in Workers : working'[v].pc \in {"perform", "deliver"} =>
          working[v].pc \in {"perform", "deliver"} /\ working'[v].job = working[v].job
    BY <2>1
  <2>3. JobsIn(queue') \cup retries' = JobsIn(queue) \cup retries /\ faults' \in Nat /\ faults <= faults'
    BY <1>0, <2>1
  <2> QED BY <1>0, <2>1, <2>2, <2>3, NoNewCount
<1>6. CASE RetryDue
  <2>1. PICK due \in retries : retries' = retries \ {due} /\ queue' = Append(queue, due)
                               /\ UNCHANGED <<working, mails, faults>>
    BY <1>6 DEF RetryDue
  <2>2. JobsIn(queue') = JobsIn(queue) \cup {due}
    BY <2>1, Pushed
  <2> QED BY <1>0, <2>1, <2>2, NoNewCount
<1>7. ASSUME NEW w \in Workers, Shutdown(w) PROVE CountInv'
  <2>1. working[w].job \in Job /\ queue' = <<working[w].job>> \o queue
        /\ faults' = faults + 1 /\ UNCHANGED <<retries, mails>>
        /\ working' = [working EXCEPT ![w] = Free]
    BY <1>7, HeldJob DEF Shutdown
  <2>2. JobsIn(queue') = JobsIn(queue) \cup {working[w].job}
    BY <2>1, PushedBack
  <2>3. /\ working'[w].pc = "free" /\ \A v \in Workers : v # w => working'[v] = working[v]
        /\ working[w].job.jid \in Nat /\ faults' = faults + 1 /\ retries' = retries /\ mails' = mails
    BY <1>0, <2>1 DEF Free
  <2> QED BY <1>0, <2>2, <2>3, NoNewCount, SMTT(30)
<1>8. ASSUME NEW w \in Workers, Kill(w) PROVE CountInv'
  <2>1. /\ queue' = queue /\ retries' = retries /\ mails' = mails /\ faults' = faults + 1
        /\ working'[w].pc = "free" /\ \A v \in Workers : v # w => working'[v] = working[v]
    BY <1>8 DEF Kill, Free
  <2> HIDE DEF TypeInv, TypeOK
  <2>2. \A v \in Workers : working'[v].pc \in {"perform", "deliver"} =>
          working[v].pc \in {"perform", "deliver"} /\ working'[v].job = working[v].job
    BY <2>1
  <2>3. JobsIn(queue') \cup retries' = JobsIn(queue) \cup retries /\ faults' \in Nat /\ faults <= faults'
    BY <1>0, <2>1
  <2> QED BY <1>0, <2>1, <2>2, <2>3, NoNewCount
<1>9. ASSUME NEW w \in Workers, Deliver(w) PROVE CountInv'
  <2>1. /\ queue' = queue /\ retries' = retries /\ faults' = faults
        /\ working'[w].pc = "done" /\ \A v \in Workers : v # w => working'[v] = working[v]
        /\ working[w].pc = "deliver" /\ Mail(w) /\ working[w] # Free
    BY <1>9, HeldJob DEF Deliver
  <2>2. /\ \A j : j # working[w].job.jid => Sent(j)' = Sent(j)
        /\ \A j : Sent(j)' \in Nat /\ Sent(j)' <= Sent(j) + 1
    BY <2>1, Counted
  <2>3. \A j : Sent(j) \in Nat
    BY SentType
  <2>4. ASSUME NEW a \in JobsIn(queue') \cup retries' PROVE Sent(a.jid) <= faults /\ a.jid # working[w].job.jid
    BY <2>1, <2>4 DEF CountInv, OnePlace
  <2>5. ASSUME NEW v \in Workers, working'[v].pc \in {"perform", "deliver"}
        PROVE  working'[v] = working[v] /\ Sent(working[v].job.jid) <= faults /\ working[v].job.jid # working[w].job.jid
    <3>1. v # w /\ working'[v] = working[v] /\ working[v].pc \in {"perform", "deliver"}
      BY <2>1, <2>5
    <3>2. working[v] # Free
      BY <3>1, HeldJob
    <3> QED BY <2>1, <3>1, <3>2 DEF CountInv, OnePlace
  <2>6. ASSUME NEW j \in Nat PROVE Sent(j)' <= faults + 1
    <3>1. CASE j = working[w].job.jid
      <4>1. Sent(j) <= faults
        BY <2>1, <3>1 DEF CountInv
      <4>2. Sent(j)' \in Nat /\ Sent(j)' <= Sent(j) + 1 /\ Sent(j) \in Nat
        BY <2>2, <2>3
      <4> QED BY <1>0, <4>1, <4>2
    <3>2. CASE j # working[w].job.jid
      BY <2>2, <3>2 DEF CountInv
    <3> QED BY <3>1, <3>2
  <2> HIDE DEF TypeInv, TypeOK
  <2>7. \A a \in JobsIn(queue') \cup retries' : Sent(a.jid)' <= faults'
    BY <2>1, <2>2, <2>4
  <2>8. \A v \in Workers : working'[v].pc \in {"perform", "deliver"} => Sent(working[v].job.jid)' <= faults'
    BY <2>1, <2>2, <2>5
  <2> QED BY <2>1, <2>6, <2>7, <2>8 DEF CountInv
<1>10. ASSUME NEW w \in Workers, DeliverFails(w) PROVE CountInv'
  <2>1. /\ queue' = queue /\ faults' = faults + 1
        /\ working'[w].pc = "free" /\ \A v \in Workers : v # w => working'[v] = working[v]
        /\ working[w].pc = "deliver" /\ (Mail(w) \/ mails' = mails)
        /\ working[w].job \in Job /\ Retry(working[w].job)
    BY <1>10, HeldJob DEF DeliverFails, Free
  <2>2. \A j : Sent(j)' \in Nat /\ Sent(j)' <= Sent(j) + 1
    <3>1. CASE Mail(w)
      BY <2>1, <3>1, Counted
    <3>2. CASE mails' = mails
      <4>1. \A j : Sent(j)' = Sent(j)
        BY <3>2 DEF Sent
      <4>2. \A j : Sent(j) \in Nat
        BY SentType
      <4> QED BY <4>1, <4>2
    <3> QED BY <2>1, <3>1, <3>2
  <2>3. \A j : Sent(j) \in Nat
    BY SentType
  <2>4. \A a \in JobsIn(queue') \cup retries' : Sent(a.jid) <= faults
    <3>1. \/ retries' = retries
          \/ \E again \in Job : again.jid = working[w].job.jid /\ retries' = retries \cup {again}
      BY <2>1, Retried
    <3> QED BY <2>1, <3>1 DEF CountInv
  <2>5. ASSUME NEW v \in Workers, working'[v].pc \in {"perform", "deliver"}
        PROVE  working'[v] = working[v] /\ Sent(working[v].job.jid) <= faults
    BY <2>1, <2>5 DEF CountInv
  <2>6. ASSUME NEW j \in Nat PROVE Sent(j)' <= faults' + 1
    <3>1. Sent(j) <= faults + 1
      BY DEF CountInv
    <3>2. Sent(j)' \in Nat /\ Sent(j)' <= Sent(j) + 1 /\ Sent(j) \in Nat /\ faults' = faults + 1
      BY <2>1, <2>2, <2>3
    <3> QED BY <1>0, <3>1, <3>2
  <2> HIDE DEF TypeInv, TypeOK
  <2>7. \A a \in JobsIn(queue') \cup retries' : Sent(a.jid)' <= faults'
    BY <1>0, <2>1, <2>2, <2>3, <2>4
  <2>8. \A v \in Workers : working'[v].pc \in {"perform", "deliver"} => Sent(working[v].job.jid)' <= faults'
    BY <1>0, <2>1, <2>2, <2>3, <2>5
  <2> QED BY <2>6, <2>7, <2>8 DEF CountInv
<1> QED BY <1>1, <1>2, <1>3, <1>4, <1>5, <1>6, <1>7, <1>8, <1>9, <1>10 DEF Next, SignUpStep, WorkerStep

\* However jobs are retried, pushed back by a shutdown or delivered by a mail
\* server that failed to say so, a job mails at most once more than there were
\* such faults: a job that ran too early, for a user that was not there yet, is
\* retried without having mailed (UserMailerJob#perform, Sidekiq's retry).
THEOREM FewMailsPerJob == Spec => []MailsPerJob
<1>1. TypeInv /\ CountInv => MailsPerJob
  <2>1. TypeInv => \A m \in mails : m[1] \in Nat
    BY MailAssumption DEF TypeInv, TypeOK
  <2> QED BY <2>1 DEF CountInv, Sent, MailsPerJob
<1> QED BY <1>1, TypeInit, TypeStep, OnePlaceInit, OnePlaceStep, CountInit, CountStep, PTL DEF Spec

=============================================================================
