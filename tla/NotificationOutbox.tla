-------------------------- MODULE NotificationOutbox --------------------------
(***************************************************************************)
(* Durable push delivery: a table of pushes, and workers that lease one    *)
(* push at a time, ask again whether its recipient still wants it, call    *)
(* the provider under a deadline, and record the outcome.                  *)
(*                                                                         *)
(* A lease is a deadline in the database and a token.  Here the token is   *)
(* the number of the attempt, which grows with every claim, and `due' says *)
(* that the time a row waits for has passed: the end of the lease of a     *)
(* leased row, of the back-off of a pending one, and of the 180 days a row *)
(* that ended is kept.  A lease may run out at any moment, since waiting   *)
(* for a connection counts against it.  The 250 row limit of a clean-up    *)
(* batch, the categories of preferences and the back-off lengths are left  *)
(* out.                                                                    *)
(***************************************************************************)
EXTENDS FiniteSets, Integers

CONSTANTS
    Workers,         \* API processes, each with one delivery worker
    NoWorker,        \* the owner of a call whose process is gone
    Revisions,       \* notification_delivery.revisions
    Profiles,        \* accounts
    Recipient,       \* the profile of each revision
    MaxAttempts,     \* 8 in the code
    ProfileCap,      \* pending rows per profile: 500 in the code
    GlobalCap,       \* pending rows: 10000 in the code
    RetainedCap,     \* rows: 10000 in the code
    NoRow,           \* no outbox row for the revision
    NoJob            \* the worker holds no row

ASSUME OutboxAssumption ==
    /\ NoWorker \notin Workers
    /\ IsFiniteSet(Revisions)
    /\ Recipient \in [Revisions -> Profiles]
    /\ {MaxAttempts, ProfileCap, GlobalCap, RetainedCap} \subseteq Nat \ {0}

VARIABLES
    accounts,        \* public.profiles
    muted,           \* profiles that refuse the push or asked for deletion
    row,             \* notification_delivery.outbox
    queued,          \* profile_queue_counts.pending, 0 where there is no row
    pending,         \* global_queue_count.pending
    retained,        \* global_queue_count.retained
    pc,              \* per worker: where its cycle is
    job,             \* per worker: the claimed row, its token and the result
    flights,         \* provider calls that have not settled
    accepted,        \* history: the attempts whose push the provider took
    refusals         \* history: the attempts that found nobody to send to

table == <<row, queued, pending, retained>>
worker == <<pc, job>>
world == <<accounts, muted>>
history == <<accepted, refusals>>
vars == <<accounts, muted, row, queued, pending, retained, pc, job, flights, accepted, refusals>>

------------------------------------------------------------------------------

Active == {"pending", "leased"}
Ended == {"delivered", "dead", "suppressed"}

Row == [state: Active \cup Ended, attempts: 0..MaxAttempts, due: BOOLEAN]
Job == [rev: Revisions, token: 1..MaxAttempts, result: {"none", "sent", "retry", "permanent"}]
Flight == [rev: Revisions, attempt: 1..MaxAttempts, owner: Workers \cup {NoWorker}]

ASSUME NullAssumption == NoRow \notin Row /\ NoJob \notin Job

TypeOK ==
    /\ accounts \subseteq Profiles
    /\ muted \subseteq Profiles
    /\ row \in [Revisions -> Row \cup {NoRow}]
    /\ queued \in [Profiles -> 0..ProfileCap]
    /\ pending \in 0..GlobalCap
    /\ retained \in 0..RetainedCap
    /\ pc \in [Workers -> {"idle", "claimed", "sending", "aborting", "finishing", "blocked"}]
    /\ job \in [Workers -> Job \cup {NoJob}]
    /\ \A w \in Workers : job[w] = NoJob <=> pc[w] \in {"idle", "blocked"}
    /\ flights \subseteq Flight
    /\ accepted \subseteq Revisions \X (1..MaxAttempts)
    /\ refusals \subseteq Revisions \X (1..MaxAttempts)

Init ==
    /\ accounts = Profiles
    /\ muted = {}
    /\ row = [r \in Revisions |-> NoRow]
    /\ queued = [p \in Profiles |-> 0]
    /\ pending = 0
    /\ retained = 0
    /\ pc = [w \in Workers |-> "idle"]
    /\ job = [w \in Workers |-> NoJob]
    /\ flights = {}
    /\ accepted = {}
    /\ refusals = {}

------------------------------------------------------------------------------
\* Helpers.

\* A table of rows, the current or the next one, is the argument of these.
Stored(rows) == {r \in Revisions : rows[r] # NoRow}
Waiting(rows) == {r \in Stored(rows) : rows[r].state \in Active}
Of(R, p) == {r \in R : Recipient[r] = p}

\* Mutant: the trigger compares states, and a deleted row has none.
ClosedByState(rows) == (Waiting(row) \ Waiting(rows)) \cap Stored(rows)

\* The rows a statement takes off the queue, by a new state or by deletion.
Closed(rows) == Waiting(row) \ Waiting(rows)

\* track_queue_count, for all the rows one statement changes.  Its guarded
\* updates refuse a row above a cap, and with it the whole transaction.
Track(rows) ==
    LET added == Stored(rows) \ Stored(row)
        removed == Stored(row) \ Stored(rows)
        opened == Waiting(rows) \ Waiting(row)
        closed == Closed(rows)
    IN  /\ row' = rows
        /\ retained' = retained + Cardinality(added) - Cardinality(removed)
        /\ pending' = pending + Cardinality(opened) - Cardinality(closed)
        /\ queued' = [p \in Profiles |->
               queued[p] + Cardinality(Of(opened, p)) - Cardinality(Of(closed, p))]
        /\ added # {} => retained' <= RetainedCap
        /\ opened # {} => pending' <= GlobalCap
        /\ \A r \in opened : queued'[Recipient[r]] <= ProfileCap

Changed(r, state, attempts, due) ==
    [row EXCEPT ![r] = [state |-> state, attempts |-> attempts, due |-> due]]

\* Rows nobody holds: a lease that ran out is worth as little as none.
Free(r) == row[r].state = "pending" \/ (row[r].state = "leased" /\ row[r].due)

Holds(w, r) ==
    /\ r \in Stored(row)
    /\ row[r].state = "leased"
    /\ row[r].attempts = job[w].token
    /\ ~row[r].due

GoTo(w, step, result) ==
    /\ pc' = [pc EXCEPT ![w] = step]
    /\ job' = [job EXCEPT ![w].result = result]

Drop(w, step) ==
    /\ pc' = [pc EXCEPT ![w] = step]
    /\ job' = [job EXCEPT ![w] = NoJob]

Flying(w) == {f \in flights : f.owner = w}

\* The calls of w once w waits for them no more: they may still arrive.
LetGo(w) == {[f EXCEPT !.owner = IF @ = w THEN NoWorker ELSE @] : f \in flights}

------------------------------------------------------------------------------
\* The users.

\* enqueue, in the transaction that writes the inbox.
Enqueue(r) ==
    /\ r \notin Stored(row)
    /\ Recipient[r] \in accounts
    /\ Track(Changed(r, "pending", 0, TRUE))
    /\ UNCHANGED <<world, worker, flights, history>>

SetPreference(p) ==
    /\ p \in accounts
    /\ muted' = (muted \ {p}) \cup ({p} \ muted)
    /\ UNCHANGED <<accounts, table, worker, flights, history>>

\* The foreign keys delete the rows of a deleted account.
DeleteAccount(p) ==
    /\ p \in accounts
    /\ accounts' = accounts \ {p}
    /\ muted' = muted \ {p}
    /\ Track([r \in Revisions |-> IF Recipient[r] = p THEN NoRow ELSE row[r]])
    /\ UNCHANGED <<worker, flights, history>>

------------------------------------------------------------------------------
\* The database side of a worker's cycle.

\* The first three statements of claim: forget, suppress, give up.
Swept ==
    [r \in Revisions |->
        IF r \notin Stored(row) THEN NoRow
        ELSE IF row[r].state \in Ended THEN IF row[r].due THEN NoRow ELSE row[r]
        ELSE IF ~Free(r) THEN row[r]
        ELSE IF Recipient[r] \in muted THEN [row[r] EXCEPT !.state = "suppressed", !.due = FALSE]
        ELSE IF row[r].attempts >= MaxAttempts THEN [row[r] EXCEPT !.state = "dead", !.due = FALSE]
        ELSE row[r]]

\* The history of a row goes with it.
ForgetHistory ==
    LET kept == {r \in Revisions : row[r] = NoRow \/ Swept[r] # NoRow}
    IN  /\ accepted' = {a \in accepted : a[1] \in kept}
        /\ refusals' = {a \in refusals : a[1] \in kept}

\* Mutant: a lease that ran out is nobody's.
ClaimablePending ==
    {r \in Waiting(row) : row[r].state = "pending" /\ row[r].due
        /\ Recipient[r] \notin muted /\ row[r].attempts < MaxAttempts}

\* Mutant: the last attempt is not the last.
ClaimableForever ==
    {r \in Waiting(row) : row[r].due /\ Recipient[r] \notin muted}

Claimable ==
    {r \in Waiting(row) : row[r].due /\ Recipient[r] \notin muted /\ row[r].attempts < MaxAttempts}

\* Mutant: the attempts are counted when a push is retried, not when it is
\* leased again.
ClaimUncounted(w, r) ==
    LET n == IF row[r].state = "leased" THEN row[r].attempts ELSE row[r].attempts + 1
    IN  /\ pc[w] = "idle"
        /\ r \in Claimable
        /\ Track([Swept EXCEPT ![r] = [state |-> "leased", attempts |-> n, due |-> FALSE]])
        /\ ForgetHistory
        /\ pc' = [pc EXCEPT ![w] = "claimed"]
        /\ job' = [job EXCEPT ![w] = [rev |-> r, token |-> n, result |-> "none"]]
        /\ UNCHANGED <<world, flights>>

\* claim: after the clean-up one row is leased.
Claim(w, r) ==
    LET n == row[r].attempts + 1
    IN  /\ pc[w] = "idle"
        /\ r \in Claimable
        /\ Track([Swept EXCEPT ![r] = [state |-> "leased", attempts |-> n, due |-> FALSE]])
        /\ ForgetHistory
        /\ pc' = [pc EXCEPT ![w] = "claimed"]
        /\ job' = [job EXCEPT ![w] = [rev |-> r, token |-> n, result |-> "none"]]
        /\ UNCHANGED <<world, flights>>

\* claim, when no row is left to lease.
Sweep(w) ==
    /\ pc[w] = "idle"
    /\ Claimable = {}
    /\ Track(Swept)
    /\ ForgetHistory
    /\ UNCHANGED <<world, worker, flights>>

\* Mutant: the token alone decides.
MayFinishLate(w) ==
    LET r == job[w].rev
    IN  r \in Stored(row) /\ row[r].state = "leased" /\ row[r].attempts = job[w].token

\* Mutant: the row is found by its token in any state.
MayFinishTwice(w) ==
    LET r == job[w].rev IN r \in Stored(row) /\ row[r].attempts = job[w].token

\* The test of the lease in finish.
MayFinish(w) == Holds(w, job[w].rev)

Outcome(w) ==
    LET r == job[w].rev
        n == row[r].attempts
        result == job[w].result
    IN  IF result = "sent" THEN Changed(r, "delivered", n, FALSE)
        ELSE IF result = "permanent" \/ n >= MaxAttempts THEN Changed(r, "dead", n, FALSE)
        ELSE Changed(r, "pending", n, FALSE)

\* finish: a lost lease changes nothing.
Finish(w) ==
    /\ pc[w] = "finishing"
    /\ Track(IF MayFinish(w) THEN Outcome(w) ELSE row)
    /\ Drop(w, "idle")
    /\ UNCHANGED <<world, flights, history>>

------------------------------------------------------------------------------
\* The worker's side.

\* allowed: the lease and the recipient, once more, before the call.
Check(w) ==
    LET r == job[w].rev
        a == <<r, job[w].token>>
        wanted == Recipient[r] \in accounts \ muted
    IN  /\ pc[w] = "claimed"
        /\ IF Holds(w, r) /\ wanted
           THEN /\ flights' = flights \cup {[rev |-> r, attempt |-> job[w].token, owner |-> w]}
                /\ GoTo(w, "sending", "none")
                /\ UNCHANGED history
           ELSE /\ GoTo(w, "finishing", "permanent")
                /\ refusals' = IF wanted THEN refusals ELSE refusals \cup {a}
                /\ UNCHANGED <<flights, accepted>>
        /\ UNCHANGED <<world, table>>

\* send settles before its deadline: with an answer; without one, when the
\* request may still be on its way; or because the recipient has no device.
Settle(w) ==
    LET a == <<job[w].rev, job[w].token>>
    IN  /\ pc[w] = "sending"
        /\ \/ /\ a \in accepted
              /\ GoTo(w, "finishing", "sent")
              /\ flights' = flights \ Flying(w)
              /\ UNCHANGED refusals
           \/ /\ GoTo(w, "finishing", "retry")
              /\ flights' = LetGo(w)
              /\ UNCHANGED refusals
           \/ /\ GoTo(w, "finishing", "permanent")
              /\ flights' = flights \ Flying(w)
              /\ refusals' = refusals \cup {a}
        /\ UNCHANGED <<world, table, accepted>>

\* The deadline, or the shutdown, cancels the call.
Deadline(w) ==
    /\ pc[w] = "sending"
    /\ GoTo(w, "aborting", "none")
    /\ UNCHANGED <<world, table, flights, history>>

\* Mutant: an answer that arrives after the cancellation counts as delivered.
SettleAbortedAsSent(w) ==
    /\ pc[w] = "aborting"
    /\ flights' = LetGo(w)
    /\ GoTo(w, "finishing", "sent")
    /\ UNCHANGED <<world, table, history>>

\* Whatever the call returns after its cancellation, the result is a timeout.
SettleAborted(w) ==
    /\ pc[w] = "aborting"
    /\ flights' = LetGo(w)
    /\ GoTo(w, "finishing", "retry")
    /\ UNCHANGED <<world, table, history>>

\* Mutant: the worker goes on with the next row.
UnresponsiveIgnored(w) ==
    /\ pc[w] = "aborting"
    /\ Drop(w, "idle")
    /\ UNCHANGED <<world, table, flights, history>>

\* The grace period ends with the call still out: the worker polls no more.
Unresponsive(w) ==
    /\ pc[w] = "aborting"
    /\ Drop(w, "blocked")
    /\ UNCHANGED <<world, table, flights, history>>

\* A statement of the cycle fails: the cycle ends, the row stays leased.
CycleFails(w) ==
    /\ pc[w] \in {"claimed", "finishing"}
    /\ Drop(w, "idle")
    /\ UNCHANGED <<world, table, flights, history>>

\* The process dies and starts again; a call it made is out of its hands.
Restart(w) ==
    /\ pc[w] # "idle"
    /\ Drop(w, "idle")
    /\ flights' = LetGo(w)
    /\ UNCHANGED <<world, table, history>>

------------------------------------------------------------------------------
\* The provider and the clock.

Accept(f) ==
    /\ accepted' = accepted \cup {<<f.rev, f.attempt>>}
    /\ UNCHANGED <<world, table, worker, flights, refusals>>

\* A request nobody waits for is lost, or its answer is.
SettleAbandoned(f) ==
    /\ \A w \in Workers : f.owner = w => pc[w] = "blocked"
    /\ flights' = flights \ {f}
    /\ UNCHANGED <<world, table, worker, history>>

\* A lease or a back-off runs out; a row that ended has been kept for 180 days,
\* by when no call and no cycle that began before is left.
TimePasses(r) ==
    /\ r \in Stored(row)
    /\ ~row[r].due
    /\ row[r].state \in Ended =>
           /\ \A f \in flights : f.rev # r
           /\ \A w \in Workers : job[w] # NoJob => job[w].rev # r
    /\ row' = [row EXCEPT ![r].due = TRUE]
    /\ UNCHANGED <<world, queued, pending, retained, worker, flights, history>>

------------------------------------------------------------------------------

Proceed(w) == Check(w) \/ Deadline(w) \/ Unresponsive(w) \/ Finish(w) \/ CycleFails(w)

Next ==
    \/ \E r \in Revisions : Enqueue(r) \/ TimePasses(r)
    \/ \E p \in Profiles : SetPreference(p) \/ DeleteAccount(p)
    \/ \E w \in Workers : \E r \in Revisions : Claim(w, r)
    \/ \E w \in Workers : Sweep(w) \/ Settle(w) \/ SettleAborted(w) \/ Proceed(w) \/ Restart(w)
    \/ \E f \in flights : Accept(f) \/ SettleAbandoned(f)

\* Timers fire, statements end one way or the other, and workers keep
\* polling.  The oldest row is leased first, so that polls do not pass over a
\* row for ever.  Nothing is assumed of the provider, of restarts or of users.
Fairness ==
    /\ \A w \in Workers : WF_vars(Proceed(w)) /\ WF_vars(Sweep(w))
    /\ \A r \in Revisions :
           /\ WF_vars(TimePasses(r))
           /\ SF_vars(\E w \in Workers : Claim(w, r))

Spec == Init /\ [][Next]_vars
FairSpec == Spec /\ Fairness

------------------------------------------------------------------------------
\* Properties.

\* The counters of track_queue_count are the numbers of rows they stand for,
\* however a row ends: no capacity leaks and no cap is passed.
QueueCountsMatch ==
    /\ retained = Cardinality(Stored(row))
    /\ pending = Cardinality(Waiting(row))
    /\ \A p \in Profiles : queued[p] = Cardinality(Of(Waiting(row), p))

\* A process never has two provider calls out at once, not even when one of
\* them ignores its cancellation (sendWithDeadline, senderBlocked).
OneSendPerWorker == \A w \in Workers : Cardinality(Flying(w)) <= 1

\* A push is marked delivered only if the provider took it in the attempt
\* that the row records: no late or foreign result ends it (finish, deliver).
DeliveredWasAccepted ==
    \A r \in Stored(row) : row[r].state = "delivered" => <<r, row[r].attempts>> \in accepted

\* Every call to the provider belongs to an attempt of its own, so that a push
\* is sent at most as often as its row counts (claim).
EverySendIsAnAttempt ==
    /\ \A f, g \in flights : f.rev = g.rev /\ f.attempt = g.attempt => f = g
    /\ \A f \in flights : f.rev \in Stored(row) => f.attempt <= row[f.rev].attempts
    /\ \A a \in accepted : a[1] \in Stored(row) => a[2] <= row[a[1]].attempts

\* A push is given up before its last attempt only if that attempt found the
\* recipient muted, gone or without a device: a lost lease is no reason
\* (deliver and allowed, which cannot tell a lost lease from a muted one).
GivenUpWithCause ==
    \A r \in Stored(row) :
        row[r].state = "dead" /\ row[r].attempts < MaxAttempts => <<r, row[r].attempts>> \in refusals

\* A push that has ended stays as it ended until it is forgotten or its
\* account is deleted, whatever late results still come (finish, claim).
EndedPushesStay ==
    [][\A r \in Stored(row) :
          row[r].state \in Ended /\ row'[r] # NoRow =>
              row'[r].state = row[r].state /\ row'[r].attempts = row[r].attempts]_vars

\* While the workers are not all blocked for good, every push ends: delivered,
\* suppressed, given up, or deleted with its account.
EveryPushEnds ==
    ([]<>(\E w \in Workers : pc[w] # "blocked")) =>
        \A r \in Revisions : (r \in Waiting(row)) ~> (r \notin Waiting(row))

\* What the rows and the provider show of each push.
Status == [r \in Revisions |->
    IF row[r] = NoRow THEN "none"
    ELSE IF row[r].state \in Active THEN "waiting"
    ELSE IF row[r].state = "delivered" THEN "delivered" ELSE "dropped"]

Taken == [r \in Revisions |-> {n \in 1..MaxAttempts : <<r, n>> \in accepted}]

Delivery == INSTANCE PushDelivery WITH
    Pushes <- Revisions,
    Attempts <- 1..MaxAttempts,
    known <- {r \in Revisions : Recipient[r] \in accounts},
    status <- Status,
    taken <- Taken

\* The outbox implements PushDelivery: every push ends once, as delivered only
\* after the provider took it, and is forgotten only after it ended or with its
\* account, however claims, late results and clean-ups interleave.
DeliveryIsImplemented == Delivery!Spec

==============================================================================
