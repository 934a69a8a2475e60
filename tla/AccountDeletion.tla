--------------------------- MODULE AccountDeletion ---------------------------
(* Deletion of accounts across two databases and an external journal:          *)
(* src/api/src/account_lifecycle_worker.js, _journal.js, _journal_runtime.js,  *)
(* _recovery.js, _replay_plan.js and _routes.js, the transaction of a user in  *)
(* db.js, src/db/scripts/lifecycle_journal.js and, on the other side,          *)
(* src/auth/src/services/accountLifecycle.js, with the functions of the schema *)
(* account_lifecycle they call.                                                *)
(*                                                                             *)
(* A request is due after its grace period. A worker then claims it in a       *)
(* transaction, writes the intent to both copies of the journal, saves the     *)
(* checkpoint, commits the denial, and has the other service apply it. The     *)
(* head of a journal is a hash of all it holds, so a head stands for the       *)
(* sequence. Anything may fail or crash at any step; the server may end the    *)
(* session of a claim while its worker writes on; databases are restored from  *)
(* backups, and the operator's tool replays the journal.                       *)
EXTENDS SequencesExt, FiniteSetsExt

CONSTANTS
    Accounts,
    Workers,       \* API processes, each with a worker
    Tool,          \* the operator's lifecycle_journal.js --reconcile
    MaxRequests,   \* bounds the requests ever made
    MaxAttempts,   \* claims before a request is blocked
    JournalCap,    \* MAX_RECORDS
    None

ASSUME WritersAssumption == Tool \notin Workers
ASSUME BoundsAssumption ==
    MaxRequests \in Nat \ {0} /\ MaxAttempts \in Nat \ {0} /\ JournalCap \in Nat \ {0}
ASSUME NoneAssumption == None \notin Nat \cup Seq(Nat)

VARIABLES
    issued,     \* what each request id stands for: account and generation
    due,        \* requests whose grace period is over
    product,    \* the product database
    backup,     \* the backup it would be restored from
    auth,       \* the tombstone of each account in the authentication database
    journal,    \* the two copies, the saved checkpoint and the lock directories
    user,       \* the transaction of each account
    job,        \* what each worker and the tool do
    plan,       \* requests the tool has still to replay
    wire,       \* deletions on their way to the authentication service
    serving     \* worker_enabled and the services, or fenced by the operator

vars == <<issued, due, product, backup, auth, journal, user, job, plan, wire, serving>>

------------------------------------------------------------------------------

Ids == 1 .. MaxRequests
Writers == Workers \cup {Tool}

Request == [status: {"pending", "cancelled", "processing", "completed", "blocked"},
            attempts: 0 .. MaxAttempts, lease: {"none", "live", "over"}]

\* seen: journal_id, journal_sequence and journal_head of account_lifecycle.control.
\* No request, rather than one.
ASSUME RequestAssumption == None \notin Request

Product == [requests: [Ids -> Request \cup {None}],
            tombstone: [Accounts -> Ids \cup {None}],
            seen: Seq(Ids) \cup {None}]

Journal == [a: Seq(Ids), b: Seq(Ids), saved: Seq(Ids), locked: BOOLEAN]

\* late: the grace period was over when the transaction began.
User == [at: {"idle", "begun", "fenced", "admitted"}, late: BOOLEAN]

\* session: the transaction of the claim is open at the server. expected: the
\* position in the journal that append was given.
Job == [at: {"idle", "claimed", "copied", "both", "saved", "durable", "calling",
             "applied", "failed", "planned", "denied", "done"},
        id: Ids \cup {None}, attempt: 0 .. MaxAttempts,
        session: BOOLEAN, expected: Nat]

TypeOK ==
    /\ issued \in Seq([account: Accounts, generation: Ids]) /\ Len(issued) <= MaxRequests
    /\ due \subseteq DOMAIN issued
    /\ product \in Product /\ backup \in Product
    /\ auth \in [Accounts -> Ids \cup {None}]
    /\ journal \in Journal
    /\ user \in [Accounts -> User]
    /\ job \in [Writers -> Job]
    /\ plan \subseteq Ids /\ wire \subseteq Ids
    /\ serving \in BOOLEAN

Resting == [at |-> "idle", id |-> None, attempt |-> 0, session |-> FALSE, expected |-> 0]
Replaying(at, id) == [Resting EXCEPT !.at = at, !.id = id]
Away == [at |-> "idle", late |-> FALSE]
Pending == [status |-> "pending", attempts |-> 0, lease |-> "none"]
Completed(r) == [r EXCEPT !.status = "completed", !.lease = "none"]

Owner(id) == issued[id].account
Held == {id \in Ids : product.requests[id] # None}
\* The request of account a that was not cancelled; account_lifecycle_one_active.
Active(a) == {id \in Held : Owner(id) = a /\ product.requests[id].status # "cancelled"}

\* inspect and head: the copies and the saved checkpoint are the same.
Agreed == journal.a = journal.b /\ journal.a = journal.saved
\* The database has seen all the journal holds.
Ready == Agreed /\ product.seen = journal.saved

\* Workers whose claim is an open transaction: it holds the checkpoint row and the
\* exclusive fence of the account.
Claiming == {w \in Workers : job[w].session}
Fenced(a) == \E w \in Claiming : Owner(job[w].id) = a
\* Mutant: the shared fence is released when assert_access returns.
SharedBriefly(a) == FALSE

\* Transactions that hold the shared fence of their account.
Shared(a) == user[a].at \in {"fenced", "admitted"}

------------------------------------------------------------------------------
\* Transactions of users: withUserClient and the handlers of the routes.

Turn(a, step) == user' = [user EXCEPT ![a].at = step]
Return(a) == user' = [user EXCEPT ![a] = Away]

\* BEGIN fixes what now() is for the whole transaction.
Begin(a) ==
    /\ serving /\ user[a].at = "idle"
    /\ user' = [user EXCEPT ![a] = [at |-> "begun", late |-> Active(a) \cap due # {}]]
    /\ UNCHANGED <<issued, due, product, backup, auth, journal, job, plan, wire, serving>>

\* assert_access waits for the fence and then reads the tombstone.
Access(a) ==
    /\ user[a].at = "begun" /\ ~Fenced(a)
    /\ IF product.tombstone[a] = None THEN Turn(a, "fenced") ELSE Return(a)
    /\ UNCHANGED <<issued, due, product, backup, auth, journal, job, plan, wire, serving>>

\* Mutant: readiness is checked when a process starts, not in each transaction.
AdmitAll(a) ==
    /\ user[a].at = "fenced"
    /\ Turn(a, "admitted")
    /\ UNCHANGED <<issued, due, product, backup, auth, journal, job, plan, wire, serving>>

\* readiness: nobody is admitted while the journal is ahead of the database. Its
\* reads are one step, taken when it reads the first copy.
Admit(a) ==
    /\ user[a].at = "fenced"
    /\ IF Ready THEN Turn(a, "admitted") ELSE Return(a)
    /\ UNCHANGED <<issued, due, product, backup, auth, journal, job, plan, wire, serving>>

Generation(a) ==
    1 + Max({issued[id].generation : id \in {x \in Held : Owner(x) = a}} \cup {0})

\* request_deletion: a request that is being processed is refused, a pending one kept.
RequestDeletion(a) ==
    /\ user[a].at = "admitted"
    /\ \/ /\ Active(a) = {} /\ Len(issued) < MaxRequests
          /\ issued' = Append(issued, [account |-> a, generation |-> Generation(a)])
          /\ product' = [product EXCEPT !.requests[Len(issued')] = Pending]
       \/ /\ Active(a) # {}
          /\ UNCHANGED <<issued, product>>
    /\ Return(a)
    /\ UNCHANGED <<due, backup, auth, journal, job, plan, wire, serving>>

CancelDeletion(a) ==
    /\ user[a].at = "admitted"
    /\ product' = [product EXCEPT !.requests = [id \in Ids |->
            IF /\ id \in Active(a) /\ product.requests[id].status = "pending"
               /\ ~user[a].late
            THEN [product.requests[id] EXCEPT !.status = "cancelled"]
            ELSE product.requests[id]]]
    /\ Return(a)
    /\ UNCHANGED <<issued, due, backup, auth, journal, job, plan, wire, serving>>

\* The transaction is rolled back, or commits what is not part of the model.
Leave(a) ==
    /\ user[a].at # "idle"
    /\ Return(a)
    /\ UNCHANGED <<issued, due, product, backup, auth, journal, job, plan, wire, serving>>

GraceEnds(id) ==
    /\ id \in DOMAIN issued \ due
    /\ due' = due \cup {id}
    /\ UNCHANGED <<issued, product, backup, auth, journal, user, job, plan, wire, serving>>

LeaseEnds(id) ==
    /\ id \in Held /\ product.requests[id].lease = "live"
    /\ product' = [product EXCEPT !.requests[id].lease = "over"]
    /\ UNCHANGED <<issued, due, backup, auth, journal, user, job, plan, wire, serving>>

------------------------------------------------------------------------------
\* The worker: one claim, its journal entry, its commit, the remote call.

\* Mutant: attempts are not counted.
CandidatesForever == {id \in Held \cap due :
                  /\ product.requests[id].status \in {"pending", "processing"}
                  /\ product.requests[id].lease # "live"}

Candidates == {id \in Held \cap due :
                  /\ product.requests[id].status \in {"pending", "processing"}
                  /\ product.requests[id].attempts < MaxAttempts
                  /\ product.requests[id].lease # "live"}

\* claim_due ends with the requests whose last attempt ran out.
Blocked(requests) == [id \in Ids |->
    IF /\ requests[id] # None /\ requests[id].status = "processing"
       /\ requests[id].attempts = MaxAttempts /\ requests[id].lease = "over"
    THEN [requests[id] EXCEPT !.status = "blocked", !.lease = "none"]
    ELSE requests[id]]

\* The checkpoint row is locked without waiting; the journal must be as it says.
Claim(w) ==
    /\ serving /\ job[w].at = "idle" /\ Claiming = {} /\ Ready
    /\ \/ \E id \in Candidates :
            /\ ~Shared(Owner(id))
            /\ job' = [job EXCEPT ![w] = [at |-> "claimed", id |-> id,
                            attempt |-> product.requests[id].attempts + 1,
                            session |-> TRUE, expected |-> Len(journal.saved)]]
            /\ UNCHANGED product
       \/ \* Nothing is due, or the account has a transaction under way.
          /\ \A id \in Candidates : \E c \in Candidates : Shared(Owner(c))
          /\ product' = [product EXCEPT !.requests = Blocked(@)]
          /\ UNCHANGED job
    /\ UNCHANGED <<issued, due, backup, auth, journal, user, plan, wire, serving>>

Go(w, step) == job' = [job EXCEPT ![w].at = step]

\* The server ends the session of a claim: 15 seconds idle in its transaction, a
\* failover, a connection it takes for dead. Row and fence are free; the worker
\* learns of it when it next uses the connection.
LoseSession(w) ==
    /\ w \in Claiming
    /\ job' = [job EXCEPT ![w].session = FALSE]
    /\ UNCHANGED <<issued, due, product, backup, auth, journal, user, plan, wire, serving>>

\* Mutant: append continues the journal it finds, without comparing its position.
CopyOnwards(w) ==
    /\ job[w].at = "claimed"
    /\ ~journal.locked /\ Agreed /\ Len(journal.a) < JournalCap
    /\ journal' = [journal EXCEPT !.locked = TRUE, !.a = Append(@, job[w].id)]
    /\ Go(w, "copied")
    /\ UNCHANGED <<issued, due, product, backup, auth, user, plan, wire, serving>>

\* append: one copy after the other, then the checkpoint, under lock directories.
CopyFirst(w) ==
    /\ job[w].at = "claimed"
    /\ ~journal.locked /\ Agreed /\ Len(journal.a) < JournalCap
    /\ Len(journal.a) = job[w].expected
    /\ journal' = [journal EXCEPT !.locked = TRUE, !.a = Append(@, job[w].id)]
    /\ Go(w, "copied")
    /\ UNCHANGED <<issued, due, product, backup, auth, user, plan, wire, serving>>

CopySecond(w) ==
    /\ job[w].at = "copied"
    /\ journal' = [journal EXCEPT !.b = Append(@, job[w].id)]
    /\ Go(w, "both")
    /\ UNCHANGED <<issued, due, product, backup, auth, user, plan, wire, serving>>

SaveCheckpoint(w) ==
    /\ job[w].at = "both"
    /\ journal' = [journal EXCEPT !.saved = Append(@, job[w].id)]
    /\ Go(w, "saved")
    /\ UNCHANGED <<issued, due, product, backup, auth, user, plan, wire, serving>>

Unlock(w) ==
    /\ job[w].at = "saved"
    /\ journal' = [journal EXCEPT !.locked = FALSE]
    /\ Go(w, IF w = Tool THEN "planned" ELSE "durable")
    /\ UNCHANGED <<issued, due, product, backup, auth, user, plan, wire, serving>>

\* advance_journal and COMMIT, in the session of the claim: claim, tombstone and
\* checkpoint together; then the call to the other service is made.
Commit(w) ==
    LET id == job[w].id IN
    /\ job[w].at = "durable" /\ job[w].session
    /\ product' = [product EXCEPT
            !.requests = [Blocked(@) EXCEPT ![id] =
                [status |-> "processing", attempts |-> job[w].attempt, lease |-> "live"]],
            !.tombstone[Owner(id)] = IF @ = None THEN id ELSE @,
            !.seen = Append(@, id)]
    /\ job' = [job EXCEPT ![w].at = "calling", ![w].session = FALSE]
    /\ wire' = wire \cup {id}
    /\ UNCHANGED <<issued, due, backup, auth, journal, user, plan, serving>>

\* A step throws: the transaction is rolled back, held lock directories removed.
Fail(w) ==
    /\ job[w].at \notin {"idle", "calling", "applied", "failed", "done"}
    /\ job' = [job EXCEPT ![w] = Resting]
    /\ journal' = IF job[w].at \in {"copied", "both", "saved"}
                  THEN [journal EXCEPT !.locked = FALSE] ELSE journal
    /\ plan' = IF w = Tool THEN {} ELSE plan
    /\ UNCHANGED <<issued, due, product, backup, auth, user, wire, serving>>

\* The process dies; nobody removes its lock directories.
Crash(w) ==
    /\ job[w].at \notin {"idle", "done"}
    /\ job' = [job EXCEPT ![w] = Resting]
    /\ plan' = IF w = Tool THEN {} ELSE plan
    /\ UNCHANGED <<issued, due, product, backup, auth, journal, user, wire, serving>>

\* apply_account_deletion refuses what conflicts with the tombstone it has.
Denies(id) == auth[Owner(id)] \in {id, None}

\* The other service applies a deletion, late perhaps; its answer may be lost.
Apply(id) ==
    /\ id \in wire /\ Denies(id)
    /\ auth' = [auth EXCEPT ![Owner(id)] = id]
    /\ wire' = wire \ {id}
    /\ \/ UNCHANGED job
       \/ \E w \in Workers : job[w].at = "calling" /\ job[w].id = id /\ Go(w, "applied")
    /\ UNCHANGED <<issued, due, product, backup, journal, user, plan, serving>>

Lose(id) ==
    /\ id \in wire
    /\ wire' = wire \ {id}
    /\ UNCHANGED <<issued, due, product, backup, auth, journal, user, job, plan, serving>>

\* No answer in four seconds.
TimeOut(w) ==
    /\ job[w].at = "calling"
    /\ Go(w, "failed")
    /\ UNCHANGED <<issued, due, product, backup, auth, journal, user, plan, wire, serving>>

\* finish counts only for the lease it was given.
Finish(w) ==
    LET id == job[w].id  r == product.requests[id] IN
    /\ job[w].at \in {"applied", "failed"}
    /\ product' =
         IF r.status = "processing" /\ r.lease = "live" /\ r.attempts = job[w].attempt
         THEN [product EXCEPT !.requests[id] =
                 CASE job[w].at = "applied" -> Completed(r)
                   [] job[w].at = "failed" /\ r.attempts = MaxAttempts ->
                         [r EXCEPT !.status = "blocked", !.lease = "none"]
                   [] OTHER -> [r EXCEPT !.lease = "none"]]
         ELSE product
    /\ job' = [job EXCEPT ![w] = Resting]
    /\ UNCHANGED <<issued, due, backup, auth, journal, user, plan, wire, serving>>

------------------------------------------------------------------------------
\* Backups and the operator, who stops all services before anything else.

TakeBackup ==
    /\ serving
    /\ backup' = product
    /\ UNCHANGED <<issued, due, product, auth, journal, user, job, plan, wire, serving>>

Quiesce ==
    /\ serving /\ wire = {}
    /\ \A w \in Workers : job[w].at = "idle"
    /\ \A a \in Accounts : user[a].at = "idle"
    /\ serving' = FALSE
    /\ UNCHANGED <<issued, due, product, backup, auth, journal, user, job, plan, wire>>

RestoreProduct ==
    /\ ~serving /\ job[Tool].at = "idle"
    /\ product' = backup
    /\ UNCHANGED <<issued, due, backup, auth, journal, user, job, plan, wire, serving>>

\* Tombstones are never removed: a backup of the other database misses some.
RestoreAuth ==
    /\ ~serving /\ job[Tool].at = "idle"
    /\ \E missed \in SUBSET Accounts :
          auth' = [a \in Accounts |-> IF a \in missed THEN None ELSE auth[a]]
    /\ UNCHANGED <<issued, due, product, backup, journal, user, job, plan, wire, serving>>

\* The operator removes stale lock directories and completes what a crash left
\* half written; a frame that was written is never removed.
Repair ==
    /\ ~serving /\ job[Tool].at = "idle"
    /\ journal' = [a |-> journal.a, b |-> journal.a, saved |-> journal.a, locked |-> FALSE]
    /\ UNCHANGED <<issued, due, product, backup, auth, user, job, plan, wire, serving>>

\* All the denials a journal, or either database, tells of.
Told == ToSet(journal.a) \cup ({product.tombstone[a] : a \in Accounts} \ {None})
                         \cup ({auth[a] : a \in Accounts} \ {None})

\* Mutant: only what the journal lacks is replayed.
ReviewMissing ==
    /\ ~serving /\ job[Tool].at = "idle" /\ Agreed
    /\ IF product.seen = None THEN TRUE ELSE IsPrefix(product.seen, journal.saved)
    /\ \A x, y \in Told : Owner(x) = Owner(y) => x = y
    /\ plan' = Told \ ToSet(journal.saved)
    /\ Go(Tool, "planned")
    /\ UNCHANGED <<issued, due, product, backup, auth, journal, user, wire, serving>>

\* readLifecycleJournal, the control row and collectRetainedTombstones.
Review ==
    /\ ~serving /\ job[Tool].at = "idle" /\ Agreed
    /\ IF product.seen = None THEN TRUE ELSE IsPrefix(product.seen, journal.saved)
    /\ \A x, y \in Told : Owner(x) = Owner(y) => x = y
    /\ Len(journal.saved) + Cardinality(Told \ ToSet(journal.saved)) <= JournalCap
    /\ plan' = Told
    /\ Go(Tool, "planned")
    /\ UNCHANGED <<issued, due, product, backup, auth, journal, user, wire, serving>>

\* Mutant: the tombstones of the databases are not added to the journal.
UnwrittenLeft == {}

Unwritten == plan \ ToSet(journal.saved)

\* Denials only a database tells of go to the journal first.
WriteMissing ==
    /\ job[Tool].at = "planned"
    /\ \E id \in Unwritten :
          job' = [job EXCEPT ![Tool] = [Replaying("claimed", id)
                      EXCEPT !.expected = Len(journal.saved)]]
    /\ UNCHANGED <<issued, due, product, backup, auth, journal, user, plan, wire, serving>>

\* replay_tombstone, with the unique keys of the table it inserts into.
Replayable(id) ==
    LET a == Owner(id) IN
    \/ product.tombstone[a] = id
    \/ /\ product.tombstone[a] = None
       /\ IF id \in Held
          THEN product.requests[id].status # "cancelled"
          ELSE /\ Active(a) = {}
               /\ \A x \in Held : issued[x] # issued[id]

\* Mutant: an account the product already denies is taken as done.
ReplayProductOnly(id) ==
    /\ job[Tool].at = "planned" /\ Unwritten = {} /\ id \in plan /\ Replayable(id)
    /\ IF product.tombstone[Owner(id)] = id
       THEN plan' = plan \ {id} /\ UNCHANGED <<product, job>>
       ELSE /\ product' = [product EXCEPT
                 !.requests[id] = Completed(IF id \in Held THEN @ ELSE Pending),
                 !.tombstone[Owner(id)] = id]
            /\ job' = [job EXCEPT ![Tool] = Replaying("denied", id)]
            /\ UNCHANGED plan
    /\ UNCHANGED <<issued, due, backup, auth, journal, user, wire, serving>>

ReplayProduct(id) ==
    /\ job[Tool].at = "planned" /\ Unwritten = {} /\ id \in plan /\ Replayable(id)
    /\ product' =
         IF product.tombstone[Owner(id)] = id THEN product
         ELSE [product EXCEPT
                 !.requests[id] = Completed(IF id \in Held THEN @ ELSE Pending),
                 !.tombstone[Owner(id)] = id]
    /\ job' = [job EXCEPT ![Tool] = Replaying("denied", id)]
    /\ UNCHANGED <<issued, due, backup, auth, journal, user, plan, wire, serving>>

ReplayAuth ==
    LET id == job[Tool].id IN
    /\ job[Tool].at = "denied" /\ Denies(id)
    /\ auth' = [auth EXCEPT ![Owner(id)] = id]
    /\ plan' = plan \ {id}
    /\ Go(Tool, "planned")
    /\ UNCHANGED <<issued, due, product, backup, journal, user, wire, serving>>

\* The tombstones both databases list were all in the plan; last comes the
\* checkpoint.
InstallCheckpoint ==
    /\ job[Tool].at = "planned" /\ plan = {}
    /\ product' = [product EXCEPT !.seen = journal.saved]
    /\ Go(Tool, "done")
    /\ UNCHANGED <<issued, due, backup, auth, journal, user, plan, wire, serving>>

\* The operator starts the services once the tool has reconciled everything.
Resume ==
    /\ job[Tool].at = "done"
    /\ serving' = TRUE
    /\ job' = [job EXCEPT ![Tool] = Resting]
    /\ UNCHANGED <<issued, due, product, backup, auth, journal, user, plan, wire>>

------------------------------------------------------------------------------

\* The journal is set up beside databases in which an account may be half deleted.
Init ==
    /\ \/ /\ issued = <<>>
          /\ product = [requests |-> [id \in Ids |-> None],
                        tombstone |-> [a \in Accounts |-> None], seen |-> None]
       \/ \E gone \in Accounts :
          /\ issued = << [account |-> gone, generation |-> 1] >>
          /\ product = [requests |-> [id \in Ids |-> IF id # 1 THEN None ELSE
                            [status |-> "processing", attempts |-> 1, lease |-> "over"]],
                        tombstone |-> [a \in Accounts |-> IF a = gone THEN 1 ELSE None],
                        seen |-> None]
    /\ due = DOMAIN issued
    /\ backup = product
    /\ auth = [a \in Accounts |-> None]
    /\ journal = [a |-> <<>>, b |-> <<>>, saved |-> <<>>, locked |-> FALSE]
    /\ user = [a \in Accounts |-> Away]
    /\ job = [w \in Writers |-> Resting]
    /\ plan = {} /\ wire = {} /\ serving = FALSE

Next ==
    \/ \E a \in Accounts :
          \/ Begin(a) \/ Access(a) \/ Admit(a) \/ Leave(a)
          \/ RequestDeletion(a) \/ CancelDeletion(a)
    \/ \E id \in Ids :
          \/ GraceEnds(id) \/ LeaseEnds(id) \/ Apply(id) \/ Lose(id) \/ ReplayProduct(id)
    \/ \E w \in Workers : Claim(w) \/ LoseSession(w) \/ Commit(w) \/ TimeOut(w) \/ Finish(w)
    \/ \E w \in Writers :
          \/ CopyFirst(w) \/ CopySecond(w) \/ SaveCheckpoint(w) \/ Unlock(w)
          \/ Fail(w) \/ Crash(w)
    \/ TakeBackup \/ Quiesce \/ RestoreProduct \/ RestoreAuth \/ Repair
    \/ Review \/ WriteMissing \/ ReplayAuth \/ InstallCheckpoint \/ Resume

Spec == Init /\ [][Next]_vars

------------------------------------------------------------------------------

\* Once the intent to delete an account is in either copy of the journal, no
\* transaction of the account is admitted any more: assert_access and the claim
\* fence each other while the claim lives, and readiness catches what a crash, or a
\* worker that lost its session, leaves behind.
AdmittedBeforeIntent ==
    [][\A a \in Accounts :
        user[a].at # "admitted" /\ user'[a].at = "admitted" =>
            \A i \in ToSet(journal.a) \cup ToSet(journal.b) : Owner(i) # a]_vars

\* While a transaction of an account may commit, neither database denies the
\* account: a claim does not commit ahead of an older write of its account.
NobodyCommitsDenied ==
    \A a \in Accounts :
        user[a].at = "admitted" => product.tombstone[a] = None /\ auth[a] = None

\* Once the journal is in use, what either database denies is in both its copies,
\* so that a restore of both can replay it; the worker writes before it commits.
DenialsAreJournaled ==
    serving => \A a \in Accounts :
        {product.tombstone[a], auth[a]} \ {None} \subseteq ToSet(journal.a) \cap ToSet(journal.b)

\* Both databases, every backup and the journal name one and the same request for
\* an account: the tool, which refuses a conflict, is never refused for one.
OneIntentPerAccount ==
    \A x, y \in Told \cup ({backup.tombstone[a] : a \in Accounts} \ {None}) :
        Owner(x) = Owner(y) => x = y

\* Whenever the API admits anyone, every intent of the journal is enforced.
AdmissionMeansEnforced ==
    serving /\ Ready =>
        \A id \in ToSet(journal.saved) : product.tombstone[Owner(id)] = id

\* A deletion the product reports as completed has been applied by the other
\* service, whatever was restored before the services were started again.
CompletedIsDenied ==
    serving => \A id \in Held :
        product.requests[id].status = "completed" => auth[Owner(id)] = id
==============================================================================
