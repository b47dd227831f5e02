---------------------------- MODULE WelcomeMail ----------------------------
(***************************************************************************)
(* The welcome mail: a job is pushed to Redis by after_create, inside the  *)
(* sign-up transaction, and by every login.  Sidekiq's workers take it,    *)
(* look the user up by its id and mail it.                                 *)
(*                                                                         *)
(* The two stores do not share a transaction.  A worker can hold the job   *)
(* before the user is committed, after the transaction was rolled back,    *)
(* or after the user was destroyed.  discard_on is commented out in        *)
(* ApplicationJob, so a job that does not find its user is retried by      *)
(* Sidekiq and at last put among the dead jobs.                            *)
(*                                                                         *)
(* SQLite has one writer, so one sign-up transaction is open at a time,    *)
(* and a rollback also restores the AUTOINCREMENT counter: the id that a   *)
(* rolled back sign-up left in a job goes to the next account.             *)
(***************************************************************************)
EXTENDS Integers, Sequences, FiniteSets

CONSTANTS
  Workers,     \* threads of the Sidekiq process
  MaxAccounts, \* bound on sign-ups
  MaxJobs,     \* bound on jobs pushed
  MaxFaults,   \* bound on mail server errors, kills and shutdowns
  MaxRetry     \* Sidekiq's max_retries (25)

ASSUME MailAssumption ==
  /\ MaxAccounts \in Nat /\ MaxJobs \in Nat /\ MaxFaults \in Nat /\ MaxRetry \in Nat

VARIABLES
  users,     \* the users table: a function from ids to accounts
  userSeq,   \* its AUTOINCREMENT counter
  accounts,  \* number of sign-ups so far; account n is the n-th of them
  txn,       \* the open sign-up transaction
  jobs,      \* number of jobs pushed so far
  queue,     \* the Redis list queue:default, next job first
  working,   \* what each worker holds
  retries,   \* the Redis sorted set retry
  dead,      \* the Redis sorted set dead
  lost,      \* jobs that died with their worker
  mails,     \* mails accepted by the mail server: <<jid, account, nth>>
  faults,    \* number of faults so far
  committed  \* accounts whose sign-up was committed

vars == <<users, userSeq, accounts, txn, jobs, queue, working, retries, dead,
          lost, mails, faults, committed>>

appVars == <<users, userSeq, accounts, txn, jobs, committed>>

-----------------------------------------------------------------------------
\* The job carries the id of its user (a GlobalID) and counts its retries;
\* account is the one it was pushed for.
Job == [jid : 1..MaxJobs, id : 1..MaxAccounts, account : 1..MaxAccounts, count : 0..MaxRetry]

NoTxn == [pc |-> "none"]

Txn == {NoTxn} \cup [pc : {"insert", "commit"}, id : 1..MaxAccounts, account : 1..MaxAccounts]

Free == [pc |-> "free"]

Held ==
  {Free} \cup [pc : {"perform", "done"}, job : Job]
         \cup [pc : {"deliver"}, job : Job, to : 1..MaxAccounts]

JobsIn(s) == {s[i] : i \in DOMAIN s}

Init ==
  /\ users = [i \in {} |-> i]
  /\ userSeq = 0 /\ accounts = 0
  /\ txn = NoTxn
  /\ jobs = 0
  /\ queue = <<>>
  /\ working = [w \in Workers |-> Free]
  /\ retries = {} /\ dead = {} /\ lost = {} /\ mails = {}
  /\ faults = 0
  /\ committed = {}

-----------------------------------------------------------------------------
(* Sign-up, login and account deletion.                                    *)

\* LPUSH, workers take from the other end.
Push(id, account) ==
  /\ jobs < MaxJobs
  /\ jobs' = jobs + 1
  /\ queue' = Append(queue, [jid |-> jobs + 1, id |-> id, account |-> account, count |-> 0])

\* BEGIN and the INSERT of resource.save.
SignUpInsert ==
  /\ txn = NoTxn
  /\ accounts < MaxAccounts
  /\ accounts' = accounts + 1
  /\ txn' = [pc |-> "insert", id |-> userSeq + 1, account |-> accounts + 1]
  /\ UNCHANGED <<users, userSeq, jobs, queue, working, retries, dead, lost, mails,
                 faults, committed>>

\* after_create: perform_later.
SendWelcomeEmail ==
  /\ txn.pc = "insert"
  /\ Push(txn.id, txn.account)
  /\ txn' = [txn EXCEPT !.pc = "commit"]
  /\ UNCHANGED <<users, userSeq, accounts, working, retries, dead, lost, mails,
                 faults, committed>>

SignUpCommit ==
  /\ txn.pc = "commit"
  /\ users' = [i \in DOMAIN users \cup {txn.id} |->
                 IF i = txn.id THEN txn.account ELSE users[i]]
  /\ userSeq' = txn.id
  /\ committed' = committed \cup {txn.account}
  /\ txn' = NoTxn
  /\ UNCHANGED <<accounts, jobs, queue, working, retries, dead, lost, mails, faults>>

\* Redis does not answer LPUSH, or the Puma worker dies: ROLLBACK.
SignUpRollback ==
  /\ txn # NoTxn
  /\ txn' = NoTxn
  /\ UNCHANGED <<users, userSeq, accounts, jobs, queue, working, retries, dead, lost,
                 mails, faults, committed>>

\* SessionsController#create pushes a job too.
LoginPush(i) ==
  /\ i \in DOMAIN users
  /\ Push(i, users[i])
  /\ UNCHANGED <<users, userSeq, accounts, txn, working, retries, dead, lost, mails,
                 faults, committed>>

\* A write, so it waits for an open sign-up.
UserDestroy(i) ==
  /\ i \in DOMAIN users
  /\ txn = NoTxn
  /\ users' = [k \in DOMAIN users \ {i} |-> users[k]]
  /\ UNCHANGED <<userSeq, accounts, txn, jobs, queue, working, retries, dead, lost,
                 mails, faults, committed>>

-----------------------------------------------------------------------------
(* Sidekiq.                                                                *)

\* BRPOP: from here on the job is only in the worker's memory.
Fetch(w) ==
  /\ working[w] = Free
  /\ queue # <<>>
  /\ working' = [working EXCEPT ![w] = [pc |-> "perform", job |-> Head(queue)]]
  /\ queue' = Tail(queue)
  /\ UNCHANGED <<appVars, retries, dead, lost, mails, faults>>

\* An exception of the job: ZADD retry, or ZADD dead after the last retry.
Retry(job) ==
  \/ /\ job.count < MaxRetry
     /\ retries' = retries \cup {[job EXCEPT !.count = @ + 1]}
     /\ UNCHANGED dead
  \/ /\ job.count = MaxRetry
     /\ dead' = dead \cup {job}
     /\ UNCHANGED retries

\* Mutant: discard_on ActiveJob::DeserializationError.
PerformDiscarding(w) ==
  LET job == working[w].job
  IN  /\ working[w].pc = "perform"
      /\ working' = [working EXCEPT ![w] =
           IF job.id \in DOMAIN users
             THEN [pc |-> "deliver", job |-> job, to |-> users[job.id]]
             ELSE Free]
      /\ UNCHANGED <<appVars, queue, retries, dead, lost, mails, faults>>

\* Mutant: the job carries the user's attributes, not its id.
PerformByValue(w) ==
  LET job == working[w].job
  IN  /\ working[w].pc = "perform"
      /\ working' = [working EXCEPT ![w] =
           [pc |-> "deliver", job |-> job, to |-> job.account]]
      /\ UNCHANGED <<appVars, queue, retries, dead, lost, mails, faults>>

\* Mutant: retry_on ActiveJob::DeserializationError, attempts: :unlimited.
PerformUnlimited(w) ==
  LET job == working[w].job
  IN  /\ working[w].pc = "perform"
      /\ \/ /\ job.id \in DOMAIN users
            /\ working' = [working EXCEPT ![w] =
                 [pc |-> "deliver", job |-> job, to |-> users[job.id]]]
            /\ UNCHANGED retries
         \/ /\ job.id \notin DOMAIN users
            /\ working' = [working EXCEPT ![w] = Free]
            /\ retries' = retries \cup {job}
      /\ UNCHANGED <<appVars, queue, dead, lost, mails, faults>>

\* Deserialization of the argument: User.find in the committed database.
Perform(w) ==
  LET job == working[w].job
  IN  /\ working[w].pc = "perform"
      /\ \/ /\ job.id \in DOMAIN users
            /\ working' = [working EXCEPT ![w] =
                 [pc |-> "deliver", job |-> job, to |-> users[job.id]]]
            /\ UNCHANGED <<retries, dead>>
         \/ /\ job.id \notin DOMAIN users
            /\ working' = [working EXCEPT ![w] = Free]
            /\ Retry(job)
      /\ UNCHANGED <<appVars, queue, lost, mails, faults>>

\* The mail server accepts a mail.
Mail(w) ==
  LET job == working[w].job
  IN  mails' = mails \cup {<<job.jid, working[w].to,
                             Cardinality({m \in mails : m[1] = job.jid}) + 1>>}

\* Mutant: deliver_now is called again when the job is done.
DeliverTwice(w) ==
  /\ working[w].pc = "deliver"
  /\ Mail(w)
  /\ \/ working' = [working EXCEPT ![w] = [pc |-> "done", job |-> @.job]]
     \/ UNCHANGED working
  /\ UNCHANGED <<appVars, queue, retries, dead, lost, faults>>

\* UserMailer.welcome_email(user).deliver_now
Deliver(w) ==
  /\ working[w].pc = "deliver"
  /\ Mail(w)
  /\ working' = [working EXCEPT ![w] = [pc |-> "done", job |-> @.job]]
  /\ UNCHANGED <<appVars, queue, retries, dead, lost, faults>>

\* The mail server refuses, or accepts and its answer is lost.
DeliverFails(w) ==
  /\ working[w].pc = "deliver"
  /\ faults < MaxFaults
  /\ faults' = faults + 1
  /\ Mail(w) \/ UNCHANGED mails
  /\ Retry(working[w].job)
  /\ working' = [working EXCEPT ![w] = Free]
  /\ UNCHANGED <<appVars, queue, lost>>

Acknowledge(w) ==
  /\ working[w].pc = "done"
  /\ working' = [working EXCEPT ![w] = Free]
  /\ UNCHANGED <<appVars, queue, retries, dead, lost, mails, faults>>

\* Sidekiq's poller moves a due job back to its queue.
RetryDue ==
  \E job \in retries :
    /\ retries' = retries \ {job}
    /\ queue' = Append(queue, job)
    /\ UNCHANGED <<appVars, working, dead, lost, mails, faults>>

\* A shutdown pushes the jobs of busy workers back (RPUSH), a mail already
\* sent or not; a kill loses them.
Shutdown(w) ==
  /\ working[w] # Free
  /\ faults < MaxFaults
  /\ faults' = faults + 1
  /\ working' = [working EXCEPT ![w] = Free]
  /\ queue' = <<working[w].job>> \o queue
  /\ UNCHANGED <<appVars, retries, dead, lost, mails>>

Kill(w) ==
  /\ working[w] # Free
  /\ faults < MaxFaults
  /\ faults' = faults + 1
  /\ working' = [working EXCEPT ![w] = Free]
  /\ lost' = lost \cup {working[w].job}
  /\ UNCHANGED <<appVars, queue, retries, dead, mails>>

WorkerStep(w) == Fetch(w) \/ Perform(w) \/ Deliver(w) \/ Acknowledge(w)

SignUpStep == SendWelcomeEmail \/ SignUpCommit

Next ==
  \/ SignUpInsert \/ SignUpStep \/ SignUpRollback
  \/ \E i \in DOMAIN users : LoginPush(i) \/ UserDestroy(i)
  \/ \E w \in Workers : WorkerStep(w) \/ DeliverFails(w) \/ Shutdown(w) \/ Kill(w)
  \/ RetryDue

\* Workers keep running and Sidekiq's poller moves due jobs.
Fairness ==
  /\ \A w \in Workers : WF_vars(WorkerStep(w))
  /\ WF_vars(RetryDue)

Spec == Init /\ [][Next]_vars /\ Fairness

-----------------------------------------------------------------------------
(* Properties.                                                             *)

\* Jobs, transactions and rows have their fields, and rows the ids that the
\* counter handed out (app/models/user.rb, app/jobs/user_mailer_job.rb).
TypeOK ==
  /\ accounts \in 0..MaxAccounts /\ userSeq \in 0..accounts
  /\ DOMAIN users \subseteq 1..userSeq /\ users \in [DOMAIN users -> 1..accounts]
  /\ txn \in Txn
  /\ jobs \in 0..MaxJobs
  /\ queue \in Seq(Job)
  /\ working \in [Workers -> Held]
  /\ retries \subseteq Job /\ dead \subseteq Job /\ lost \subseteq Job
  /\ mails \subseteq (1..MaxJobs) \X (1..MaxAccounts) \X (Nat \ {0})
  /\ faults \in 0..MaxFaults
  /\ committed \subseteq 1..accounts

Alive ==
  JobsIn(queue) \cup retries \cup {working[w].job : w \in {v \in Workers : working[v] # Free}}

Mailed(a) == \E m \in mails : m[2] = a

\* No welcome is forgotten (UserMailerJob without discard_on): a user that
\* exists and was not mailed has a job for its id that waits, runs, will be
\* retried, is among the dead jobs, or died with its worker.  The job may
\* well have run before the user was committed.
WelcomeAccountedFor ==
  \A i \in DOMAIN users :
    Mailed(users[i]) \/ \E job \in Alive \cup dead \cup lost : job.id = i

\* A mail only goes to an account that was really created, although jobs of
\* rolled back sign-ups are in the queue (UserMailerJob#perform).
MailedWereUsers == \A m \in mails : m[2] \in committed

\* A job mails at most once more than the mail server or a shutdown made it
\* run again (UserMailerJob#perform, Sidekiq's retry).
MailsPerJob ==
  \A m \in mails : Cardinality({n \in mails : n[1] = m[1]}) <= faults + 1

\* Every job comes to an end: it is mailed, dead, or lost, however often the
\* user was missing (application_job.rb leaves the retries to Sidekiq).
JobOpen(j) == \E job \in Alive : job.jid = j
JobEnded(j) == (\E m \in mails : m[1] = j) \/ (\E job \in dead \cup lost : job.jid = j)
JobsEnd == \A j \in 1..MaxJobs : JobOpen(j) ~> JobEnded(j)

=============================================================================
