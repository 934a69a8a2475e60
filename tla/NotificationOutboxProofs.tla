----------------------- MODULE NotificationOutboxProofs -----------------------
(* Type correctness, counters, calls and outcomes of NotificationOutbox,   *)
(* proved for any workers, pushes, accounts, attempts and caps.            *)
EXTENDS NotificationOutbox, FiniteSetTheorems, TLAPS

\* A call has an owner only while its worker waits for it or is blocked by
\* it, and then it is the only one of that worker (sendWithDeadline).
CallsAreWaitedFor ==
    /\ \A f \in flights : f.owner # NoWorker => pc[f.owner] \in {"sending", "aborting", "blocked"}
    /\ \A f, g \in flights : f.owner = g.owner /\ f.owner # NoWorker => f = g

\* Every attempt belongs to one cycle and starts one call.
AttemptsAreUnique ==
    /\ \A v, w \in Workers :
          job[v] # NoJob /\ job[w] # NoJob /\ job[v].rev = job[w].rev /\ job[v].token = job[w].token
              => v = w
    /\ \A w \in Workers : pc[w] = "claimed" =>
          \A f \in flights : ~(f.rev = job[w].rev /\ f.attempt = job[w].token)
    /\ \A f, g \in flights : f.rev = g.rev /\ f.attempt = g.attempt => f = g

\* The row counts every attempt anybody still remembers.
AttemptsAreCounted ==
    /\ \A w \in Workers : job[w] # NoJob /\ row[job[w].rev] # NoRow =>
          job[w].token <= row[job[w].rev].attempts
    /\ \A f \in flights : row[f.rev] # NoRow => f.attempt <= row[f.rev].attempts
    /\ \A a \in accepted : row[a[1]] # NoRow => a[2] <= row[a[1]].attempts

\* A push that may be enqueued (again), now or after the next clean-up.
Forgotten(r) ==
    IF row[r] = NoRow THEN Recipient[r] \in accounts ELSE row[r].state \in Ended /\ row[r].due

\* Such a push has no cycle, no call and, without a row, no history left.
ForgottenIsOver ==
    /\ \A w \in Workers : job[w] # NoJob => ~Forgotten(job[w].rev)
    /\ \A f \in flights : ~Forgotten(f.rev)
    /\ \A a \in accepted : row[a[1]] = NoRow => Recipient[a[1]] \notin accounts

\* What a result says of its attempt: the provider took it, or nobody was
\* there, unless the lease was lost, which then stays lost.
ResultsAreTrue ==
    \A w \in Workers : job[w] # NoJob =>
        /\ job[w].result = "sent" => <<job[w].rev, job[w].token>> \in accepted
        /\ job[w].result = "permanent" =>
              <<job[w].rev, job[w].token>> \in refusals \/ ~Holds(w, job[w].rev)

Inv ==
    /\ TypeOK
    /\ QueueCountsMatch
    /\ CallsAreWaitedFor
    /\ AttemptsAreUnique
    /\ AttemptsAreCounted
    /\ ForgottenIsOver
    /\ ResultsAreTrue
    /\ DeliveredWasAccepted
    /\ GivenUpWithCause

------------------------------------------------------------------------------
\* Counting what enters and what leaves a set.
LEMMA CountChange ==
    ASSUME NEW A, NEW B, IsFiniteSet(A), IsFiniteSet(B)
    PROVE  /\ {Cardinality(A), Cardinality(B), Cardinality(B \ A), Cardinality(A \ B)} \subseteq Nat
           /\ Cardinality(B) = Cardinality(A) + Cardinality(B \ A) - Cardinality(A \ B)
           /\ B \ A = {} => Cardinality(B) <= Cardinality(A)
<1>1. Cardinality(A) \in Nat /\ Cardinality(B) \in Nat /\ Cardinality(A \cap B) \in Nat
  BY FS_CardinalityType, FS_Intersection
<1>2. Cardinality(A \ B) = Cardinality(A) - Cardinality(A \cap B)
  BY FS_Difference
<1>3. Cardinality(B \ A) = Cardinality(B) - Cardinality(B \cap A)
  BY FS_Difference
<1>4. Cardinality(B \ A) = Cardinality(B) - Cardinality(A \cap B)
  <2>1. B \cap A = A \cap B
    OBVIOUS
  <2> QED BY <1>3, <2>1, Zenon
<1>5. B \ A = {} => Cardinality(B) <= Cardinality(A)
  <2>1. B \ A = {} => B \in SUBSET A
    OBVIOUS
  <2> QED BY <2>1, FS_Subset
<1>6. Cardinality(B \ A) \in Nat /\ Cardinality(A \ B) \in Nat
  BY FS_Difference, FS_CardinalityType
<1> QED BY <1>1, <1>2, <1>4, <1>5, <1>6

\* The trigger keeps the counters exact and within the caps.
LEMMA TrackCounts ==
    ASSUME TypeOK, QueueCountsMatch,
           row' \in [Revisions -> Row \cup {NoRow}], Track(row')
    PROVE  /\ QueueCountsMatch'
           /\ queued' \in [Profiles -> 0..ProfileCap]
           /\ pending' \in 0..GlobalCap
           /\ retained' \in 0..RetainedCap
<1> DEFINE added == Stored(row') \ Stored(row)
           removed == Stored(row) \ Stored(row')
           opened == Waiting(row') \ Waiting(row)
           closed == Waiting(row) \ Waiting(row')
<1>1. /\ retained' = retained + Cardinality(added) - Cardinality(removed)
      /\ added # {} => retained' <= RetainedCap
  BY DEF Track
<1>2. /\ pending' = pending + Cardinality(opened) - Cardinality(closed)
      /\ opened # {} => pending' <= GlobalCap
  BY DEF Track, Closed
<1>3. /\ queued' = [p \in Profiles |->
             queued[p] + Cardinality(Of(opened, p)) - Cardinality(Of(closed, p))]
      /\ \A r \in opened : queued'[Recipient[r]] <= ProfileCap
  BY DEF Track, Closed
<1>4. \A t : /\ IsFiniteSet(Stored(t)) /\ IsFiniteSet(Waiting(t))
             /\ \A p : IsFiniteSet(Of(Waiting(t), p))
  <2>1. \A t : Stored(t) \in SUBSET Revisions /\ Waiting(t) \in SUBSET Revisions
               /\ \A p : Of(Waiting(t), p) \in SUBSET Revisions
    BY DEF Stored, Waiting, Of
  <2> QED BY <2>1, FS_Subset, OutboxAssumption
<1>5. retained' = Cardinality(Stored(row')) /\ retained' \in 0..RetainedCap
  <2>1. /\ retained = Cardinality(Stored(row)) /\ retained \in 0..RetainedCap
        /\ RetainedCap \in Nat
    BY OutboxAssumption DEF TypeOK, QueueCountsMatch
  <2>2. /\ {Cardinality(Stored(row')), Cardinality(added), Cardinality(removed)} \subseteq Nat
        /\ Cardinality(Stored(row'))
             = Cardinality(Stored(row)) + Cardinality(added) - Cardinality(removed)
        /\ added = {} => Cardinality(Stored(row')) <= Cardinality(Stored(row))
    BY <1>4, CountChange
  <2> QED BY <1>1, <2>1, <2>2
<1>6. pending' = Cardinality(Waiting(row')) /\ pending' \in 0..GlobalCap
  <2>1. /\ pending = Cardinality(Waiting(row)) /\ pending \in 0..GlobalCap
        /\ GlobalCap \in Nat
    BY OutboxAssumption DEF TypeOK, QueueCountsMatch
  <2>2. /\ {Cardinality(Waiting(row')), Cardinality(opened), Cardinality(closed)} \subseteq Nat
        /\ Cardinality(Waiting(row'))
             = Cardinality(Waiting(row)) + Cardinality(opened) - Cardinality(closed)
        /\ opened = {} => Cardinality(Waiting(row')) <= Cardinality(Waiting(row))
    BY <1>4, CountChange
  <2> QED BY <1>2, <2>1, <2>2
<1>7. ASSUME NEW p \in Profiles
      PROVE  queued'[p] = Cardinality(Of(Waiting(row'), p)) /\ queued'[p] \in 0..ProfileCap
  <2> DEFINE A == Of(Waiting(row), p)
             B == Of(Waiting(row'), p)
  <2>1. /\ queued[p] = Cardinality(A) /\ queued[p] \in 0..ProfileCap /\ ProfileCap \in Nat
        /\ queued'[p] = queued[p] + Cardinality(Of(opened, p)) - Cardinality(Of(closed, p))
    BY <1>3, OutboxAssumption DEF TypeOK, QueueCountsMatch
  <2>2. Of(opened, p) = B \ A /\ Of(closed, p) = A \ B
    BY DEF Of
  <2>3. /\ {Cardinality(B), Cardinality(B \ A), Cardinality(A \ B)} \subseteq Nat
        /\ Cardinality(B) = Cardinality(A) + Cardinality(B \ A) - Cardinality(A \ B)
        /\ B \ A = {} => Cardinality(B) <= Cardinality(A)
    BY <1>4, CountChange
  <2>4. B \ A # {} => queued'[p] <= ProfileCap
    BY <1>3 DEF Of
  <2>5. queued'[p] = queued[p] + Cardinality(B \ A) - Cardinality(A \ B)
    BY <2>1, <2>2
  <2> HIDE DEF A
  <2>6. queued'[p] = Cardinality(B)
    BY <2>1, <2>3, <2>5
  <2>7. queued'[p] \in 0..ProfileCap
    BY <2>1, <2>3, <2>4, <2>6
  <2> QED BY <2>6, <2>7
<1>8. queued' \in [Profiles -> 0..ProfileCap]
  <2>1. DOMAIN queued' = Profiles /\ queued' = [p \in Profiles |-> queued'[p]]
    BY <1>3
  <2> QED BY <1>7, <2>1
<1> QED BY <1>1, <1>5, <1>6, <1>7, <1>8 DEF QueueCountsMatch

------------------------------------------------------------------------------
\* What a step does to one row.

Enqueued(r) ==
    /\ row[r] = NoRow
    /\ Recipient[r] \in accounts
    /\ row'[r] = [state |-> "pending", attempts |-> 0, due |-> TRUE]

Removed(r) ==
    /\ row[r] # NoRow
    /\ row'[r] = NoRow
    /\ Recipient[r] \notin accounts' \/ Forgotten(r)

\* The clean-up of claim suppresses a row, or gives it up after its attempts.
CleanedUp(r, new) ==
    /\ row[r] # NoRow
    /\ row[r].state \in Active
    /\ new.state \in {"suppressed", "dead"}
    /\ new.attempts = row[r].attempts
    /\ new.due = FALSE
    /\ new.state = "dead" => row[r].attempts >= MaxAttempts

Leased(r) ==
    /\ row[r] # NoRow
    /\ row[r].state \in Active
    /\ row[r].due
    /\ row'[r] = [state |-> "leased", attempts |-> row[r].attempts + 1, due |-> FALSE]

\* The holder of the lease records its result.
FinishedBy(w, r) ==
    /\ job[w] # NoJob
    /\ job[w].rev = r
    /\ Holds(w, r)
    /\ row'[r].attempts = row[r].attempts
    /\ row'[r].due = FALSE
    /\ row'[r].state \in {"delivered", "dead", "pending"}
    /\ row'[r].state = "delivered" => job[w].result = "sent"
    /\ row'[r].state = "dead" => job[w].result = "permanent" \/ row[r].attempts >= MaxAttempts

Elapsed(r) ==
    /\ row[r] # NoRow
    /\ ~row[r].due
    /\ row'[r] # NoRow
    /\ row'[r].state = row[r].state
    /\ row'[r].attempts = row[r].attempts
    /\ row'[r].due
    /\ row[r].state \in Ended =>
          /\ \A f \in flights : f.rev # r
          /\ \A w \in Workers : job[w] # NoJob => job[w].rev # r

Move(r) ==
    \/ row'[r] = row[r]
    \/ Enqueued(r)
    \/ Removed(r)
    \/ row'[r] # NoRow /\ CleanedUp(r, row'[r])
    \/ row'[r] # NoRow /\ Leased(r)
    \/ row'[r] # NoRow /\ \E w \in Workers : FinishedBy(w, r)
    \/ Elapsed(r)

LEMMA SweptRow ==
    ASSUME TypeOK, NEW r \in Revisions
    PROVE  /\ Swept[r] \in Row \cup {NoRow}
           /\ \/ Swept[r] = row[r]
              \/ row[r] # NoRow /\ Swept[r] = NoRow /\ Forgotten(r)
              \/ Swept[r] # NoRow /\ CleanedUp(r, Swept[r])
           /\ row[r] = NoRow => Swept[r] = NoRow
           /\ row[r] # NoRow /\ ~Forgotten(r) => Swept[r] # NoRow
<1>1. CASE row[r] = NoRow
  BY <1>1 DEF Swept, Stored
<1>2. CASE row[r] # NoRow
  <2>1. row[r] \in Row /\ r \in Stored(row)
    BY <1>2 DEF TypeOK, Stored
  <2>2. /\ [row[r] EXCEPT !.state = "suppressed", !.due = FALSE] \in Row
        /\ [row[r] EXCEPT !.state = "dead", !.due = FALSE] \in Row
        /\ NoRow \notin Row
    BY <2>1, NullAssumption DEF Row, Ended, Active
  <2>3. row[r].state \in Ended => row[r].state \notin Active
    BY DEF Ended, Active
  <2>4. row[r].state \in Active \cup Ended /\ row[r].attempts \in Nat /\ MaxAttempts \in Nat
    BY <2>1, OutboxAssumption DEF Row
  <2>5. CASE row[r].state \in Ended
    BY <2>1, <2>2, <2>5 DEF Swept, Forgotten
  <2>6. CASE row[r].state \in Active
    <3>1. CASE ~Free(r)
      BY <2>1, <2>2, <2>3, <2>6, <3>1 DEF Swept
    <3>2. CASE Free(r) /\ Recipient[r] \in muted
      <4>1. Swept[r] = [row[r] EXCEPT !.state = "suppressed", !.due = FALSE]
        BY <2>1, <2>3, <2>6, <3>2 DEF Swept
      <4> QED BY <1>2, <2>1, <2>2, <2>6, <4>1 DEF CleanedUp, Row
    <3>3. CASE Free(r) /\ Recipient[r] \notin muted /\ row[r].attempts >= MaxAttempts
      <4>1. Swept[r] = [row[r] EXCEPT !.state = "dead", !.due = FALSE]
        BY <2>1, <2>3, <2>6, <3>3 DEF Swept
      <4> QED BY <1>2, <2>1, <2>2, <2>6, <3>3, <4>1 DEF CleanedUp, Row
    <3>4. CASE Free(r) /\ Recipient[r] \notin muted /\ ~(row[r].attempts >= MaxAttempts)
      BY <2>1, <2>2, <2>3, <2>6, <3>4 DEF Swept
    <3> QED BY <3>1, <3>2, <3>3, <3>4
  <2> QED BY <2>4, <2>5, <2>6
<1> QED BY <1>1, <1>2

\* The row a worker leases, and the clean-up before it.
LEMMA ClaimedRows ==
    ASSUME TypeOK, NEW w \in Workers, NEW r \in Revisions, Claim(w, r)
    PROVE  /\ row[r] \in Row /\ row[r] # NoRow /\ row[r].attempts + 1 \in 1..MaxAttempts
           /\ row' \in [Revisions -> Row \cup {NoRow}]
           /\ Leased(r) /\ row'[r] # NoRow /\ ~Forgotten(r)
           /\ \A q \in Revisions \ {r} : row'[q] = Swept[q]
           /\ job' = [job EXCEPT ![w] = [rev |-> r, token |-> row[r].attempts + 1, result |-> "none"]]
<1>1. /\ row[r] \in Row /\ row[r] # NoRow /\ row[r].attempts < MaxAttempts
      /\ row[r].state \in Active /\ row[r].due
  BY DEF Claim, Claimable, Waiting, Stored, TypeOK
<1>2. row[r].attempts + 1 \in 1..MaxAttempts /\ row[r].attempts + 1 \in 0..MaxAttempts
  BY <1>1, OutboxAssumption DEF Row
<1> DEFINE new == [state |-> "leased", attempts |-> row[r].attempts + 1, due |-> FALSE]
<1>3. new \in Row
  BY <1>2 DEF Row, Active
<1>4. row' = [Swept EXCEPT ![r] = new]
  BY DEF Claim, Track
<1>5. Swept \in [Revisions -> Row \cup {NoRow}]
  <2>1. \A q \in Revisions : Swept[q] \in Row \cup {NoRow}
    BY SweptRow
  <2> QED BY <2>1 DEF Swept
<1>6. job' = [job EXCEPT ![w] = [rev |-> r, token |-> row[r].attempts + 1, result |-> "none"]]
  BY DEF Claim
<1>7. ~Forgotten(r)
  BY <1>1 DEF Forgotten, Active, Ended
<1> QED BY <1>1, <1>2, <1>3, <1>4, <1>5, <1>6, <1>7, NullAssumption DEF Leased

LEMMA FinishedRows ==
    ASSUME TypeOK, NEW w \in Workers, Finish(w), MayFinish(w)
    PROVE  /\ row' \in [Revisions -> Row \cup {NoRow}]
           /\ row'[job[w].rev] # NoRow
           /\ FinishedBy(w, job[w].rev)
           /\ \A q \in Revisions \ {job[w].rev} : row'[q] = row[q]
<1> DEFINE r == job[w].rev
<1>1. job[w] # NoJob /\ job[w] \in Job /\ r \in Revisions
  BY DEF Finish, TypeOK, Job
<1>2. row[r] \in Row /\ row[r].attempts \in 0..MaxAttempts
  BY <1>1 DEF MayFinish, Holds, Stored, TypeOK, Row
<1>3. row' = Outcome(w)
  BY DEF Finish, Track
<1>4. PICK s \in {"delivered", "dead", "pending"} :
         /\ Outcome(w) = Changed(r, s, row[r].attempts, FALSE)
         /\ s = "delivered" => job[w].result = "sent"
         /\ s = "dead" => job[w].result = "permanent" \/ row[r].attempts >= MaxAttempts
  BY DEF Outcome
<1>5. s \in Active \cup Ended
  BY DEF Active, Ended
<1> HIDE DEF r
<1>6. /\ row' \in [Revisions -> Row \cup {NoRow}]
      /\ row'[r] = [state |-> s, attempts |-> row[r].attempts, due |-> FALSE]
      /\ row'[r] # NoRow
      /\ \A q \in Revisions \ {r} : row'[q] = row[q]
  <2> DEFINE new == [state |-> s, attempts |-> row[r].attempts, due |-> FALSE]
  <2>1. row' = [row EXCEPT ![r] = new]
    BY <1>3, <1>4 DEF Changed
  <2>2. new \in Row
    BY <1>2, <1>5 DEF Row
  <2> QED BY <1>1, <2>1, <2>2, NullAssumption DEF TypeOK
<1>7. Holds(w, r)
  BY DEF MayFinish, r
<1>8. FinishedBy(w, r)
  BY <1>1, <1>4, <1>6, <1>7 DEF FinishedBy, r
<1> QED BY <1>6, <1>8 DEF r

LEMMA RowMoves ==
    ASSUME TypeOK, [Next]_vars
    PROVE  /\ row' \in [Revisions -> Row \cup {NoRow}]
           /\ accounts' \subseteq accounts
           /\ \A r \in Revisions : Move(r)
<1> USE DEF world, table, worker, history
<1>1. ASSUME NEW r \in Revisions, Enqueue(r)
      PROVE  /\ row' \in [Revisions -> Row \cup {NoRow}] /\ accounts' = accounts
             /\ \A q \in Revisions : Move(q)
  <2> DEFINE new == [state |-> "pending", attempts |-> 0, due |-> TRUE]
  <2>1. new \in Row
    BY OutboxAssumption DEF Row, Active
  <2>2. row' = [row EXCEPT ![r] = new] /\ accounts' = accounts
    BY <1>1 DEF Enqueue, Track, Changed
  <2>3. row[r] = NoRow /\ Recipient[r] \in accounts
    BY <1>1 DEF Enqueue, Stored
  <2> QED BY <2>1, <2>2, <2>3 DEF Move, Enqueued, TypeOK
<1>2. ASSUME NEW p \in Profiles, DeleteAccount(p)
      PROVE  /\ row' \in [Revisions -> Row \cup {NoRow}] /\ accounts' \subseteq accounts
             /\ \A q \in Revisions : Move(q)
  <2>1. row' = [r \in Revisions |-> IF Recipient[r] = p THEN NoRow ELSE row[r]]
        /\ accounts' = accounts \ {p}
    BY <1>2 DEF DeleteAccount, Track
  <2> QED BY <2>1 DEF Move, Removed, TypeOK
<1>3. ASSUME NEW w \in Workers, NEW r \in Revisions, Claim(w, r)
      PROVE  /\ row' \in [Revisions -> Row \cup {NoRow}] /\ accounts' = accounts
             /\ \A q \in Revisions : Move(q)
  <2>1. accounts' = accounts
    BY <1>3 DEF Claim
  <2> QED BY <1>3, <2>1, ClaimedRows, SweptRow DEF Move, Removed
<1>4. ASSUME NEW w \in Workers, Sweep(w)
      PROVE  /\ row' \in [Revisions -> Row \cup {NoRow}] /\ accounts' = accounts
             /\ \A q \in Revisions : Move(q)
  <2>1. row' = Swept /\ accounts' = accounts
    BY <1>4 DEF Sweep, Track
  <2>2. Swept = [q \in Revisions |-> Swept[q]]
    BY DEF Swept
  <2> QED BY <2>1, <2>2, SweptRow DEF Move, Removed
<1>5. ASSUME NEW w \in Workers, Finish(w)
      PROVE  /\ row' \in [Revisions -> Row \cup {NoRow}] /\ accounts' = accounts
             /\ \A q \in Revisions : Move(q)
  <2>1. accounts' = accounts
    BY <1>5 DEF Finish
  <2>2. CASE MayFinish(w)
    BY <1>5, <2>1, <2>2, FinishedRows DEF Move
  <2>3. CASE ~MayFinish(w)
    BY <1>5, <2>1, <2>3 DEF Finish, Track, TypeOK, Move
  <2> QED BY <2>2, <2>3
<1>6. ASSUME NEW r \in Revisions, TimePasses(r)
      PROVE  /\ row' \in [Revisions -> Row \cup {NoRow}] /\ accounts' = accounts
             /\ \A q \in Revisions : Move(q)
  <2>1. /\ row[r] \in Row /\ row[r] # NoRow
        /\ row' = [row EXCEPT ![r] = [row[r] EXCEPT !.due = TRUE]]
        /\ accounts' = accounts
    BY <1>6 DEF TimePasses, Stored, TypeOK
  <2>2. [row[r] EXCEPT !.due = TRUE] \in Row
    BY <2>1 DEF Row
  <2>3. /\ row' \in [Revisions -> Row \cup {NoRow}]
        /\ row'[r] = [row[r] EXCEPT !.due = TRUE]
        /\ \A q \in Revisions \ {r} : row'[q] = row[q]
    BY <2>1, <2>2 DEF TypeOK
  <2>4. Elapsed(r)
    BY <1>6, <2>1, <2>2, <2>3, NullAssumption DEF TimePasses, Elapsed, Row
  <2> QED BY <2>1, <2>3, <2>4 DEF Move
<1>7. ASSUME UNCHANGED <<row, accounts>>
      PROVE  /\ row' \in [Revisions -> Row \cup {NoRow}] /\ accounts' = accounts
             /\ \A q \in Revisions : Move(q)
  BY <1>7 DEF TypeOK, Move
<1>8. ASSUME NEW w \in Workers,
             Check(w) \/ Settle(w) \/ Deadline(w) \/ SettleAborted(w) \/ Unresponsive(w)
                \/ CycleFails(w) \/ Restart(w)
      PROVE  UNCHANGED <<row, accounts>>
  BY <1>8 DEF Check, Settle, Deadline, SettleAborted, Unresponsive, CycleFails, Restart
<1>9. ASSUME \/ \E p \in Profiles : SetPreference(p)
             \/ \E f \in flights : Accept(f) \/ SettleAbandoned(f)
             \/ UNCHANGED vars
      PROVE  UNCHANGED <<row, accounts>>
  BY <1>9 DEF SetPreference, Accept, SettleAbandoned, vars
<1> QED
  BY <1>1, <1>2, <1>3, <1>4, <1>5, <1>6, <1>7, <1>8, <1>9 DEF Next, Proceed

------------------------------------------------------------------------------
\* Counters and types.
LEMMA CountStep ==
    ASSUME TypeOK, QueueCountsMatch, [Next]_vars
    PROVE  /\ QueueCountsMatch'
           /\ queued' \in [Profiles -> 0..ProfileCap]
           /\ pending' \in 0..GlobalCap
           /\ retained' \in 0..RetainedCap
<1> USE DEF world, table, worker, history
<1>1. ASSUME Track(row')
      PROVE  /\ QueueCountsMatch'
             /\ queued' \in [Profiles -> 0..ProfileCap]
             /\ pending' \in 0..GlobalCap
             /\ retained' \in 0..RetainedCap
  BY <1>1, TrackCounts, RowMoves
<1>2. ASSUME UNCHANGED <<queued, pending, retained>>,
             Stored(row') = Stored(row), Waiting(row') = Waiting(row)
      PROVE  /\ QueueCountsMatch'
             /\ queued' \in [Profiles -> 0..ProfileCap]
             /\ pending' \in 0..GlobalCap
             /\ retained' \in 0..RetainedCap
  BY <1>2 DEF TypeOK, QueueCountsMatch
<1>3. ASSUME UNCHANGED table
      PROVE  /\ UNCHANGED <<queued, pending, retained>>
             /\ Stored(row') = Stored(row)
             /\ Waiting(row') = Waiting(row)
  BY <1>3
<1>4. ASSUME NEW r \in Revisions, Enqueue(r)
      PROVE  Track(row')
  BY <1>4 DEF Enqueue, Track
<1>5. ASSUME NEW p \in Profiles, DeleteAccount(p)
      PROVE  Track(row')
  BY <1>5 DEF DeleteAccount, Track
<1>6. ASSUME NEW w \in Workers, NEW r \in Revisions, Claim(w, r)
      PROVE  Track(row')
  BY <1>6 DEF Claim, Track
<1>7. ASSUME NEW w \in Workers, Sweep(w) \/ Finish(w)
      PROVE  Track(row')
  BY <1>7 DEF Sweep, Finish, Track
<1>8. ASSUME NEW r \in Revisions, TimePasses(r)
      PROVE  /\ UNCHANGED <<queued, pending, retained>>
             /\ Stored(row') = Stored(row)
             /\ Waiting(row') = Waiting(row)
  <2>1. /\ row' = [row EXCEPT ![r] = [row[r] EXCEPT !.due = TRUE]]
        /\ UNCHANGED <<queued, pending, retained>>
        /\ row[r] \in Row /\ row[r] # NoRow
    BY <1>8 DEF TimePasses, Stored, TypeOK
  <2>2. [row[r] EXCEPT !.due = TRUE] \in Row /\ [row[r] EXCEPT !.due = TRUE].state = row[r].state
    BY <2>1 DEF Row
  <2>3. \A q \in Revisions : /\ row'[q] # NoRow <=> row[q] # NoRow
                             /\ row'[q] # NoRow => row'[q].state = row[q].state
    BY <2>1, <2>2, NullAssumption DEF TypeOK
  <2> QED BY <2>1, <2>3 DEF Stored, Waiting
<1>9. ASSUME NEW w \in Workers,
             Check(w) \/ Settle(w) \/ Deadline(w) \/ SettleAborted(w) \/ Unresponsive(w)
                \/ CycleFails(w) \/ Restart(w)
      PROVE  UNCHANGED table
  BY <1>9 DEF Check, Settle, Deadline, SettleAborted, Unresponsive, CycleFails, Restart
<1>10. ASSUME \/ \E p \in Profiles : SetPreference(p)
              \/ \E f \in flights : Accept(f) \/ SettleAbandoned(f)
              \/ UNCHANGED vars
       PROVE  UNCHANGED table
  BY <1>10 DEF SetPreference, Accept, SettleAbandoned, vars
<1> QED
  BY <1>1, <1>2, <1>3, <1>4, <1>5, <1>6, <1>7, <1>8, <1>9, <1>10 DEF Next, Proceed

\* The calls a worker lets go are the same calls without an owner.
LEMMA LetGoCalls ==
    ASSUME TypeOK, NEW w \in Workers
    PROVE  /\ LetGo(w) \subseteq Flight
           /\ \A g \in LetGo(w) : \E f \in flights :
                 /\ g.rev = f.rev /\ g.attempt = f.attempt
                 /\ g.owner = IF f.owner = w THEN NoWorker ELSE f.owner
           /\ \A g, h \in LetGo(w) :
                 (\A f, e \in flights : f.rev = e.rev /\ f.attempt = e.attempt => f = e)
                    /\ g.rev = h.rev /\ g.attempt = h.attempt => g = h
<1> DEFINE free(f) == [f EXCEPT !.owner = IF @ = w THEN NoWorker ELSE @]
<1>1. \A f \in flights : /\ free(f) \in Flight
                         /\ free(f).rev = f.rev /\ free(f).attempt = f.attempt
                         /\ free(f).owner = IF f.owner = w THEN NoWorker ELSE f.owner
  BY DEF TypeOK, Flight
<1>2. LetGo(w) = {free(f) : f \in flights}
  BY DEF LetGo
<1> HIDE DEF free
<1> QED BY <1>1, <1>2

LEMMA TypeStep ==
    ASSUME TypeOK, QueueCountsMatch, [Next]_vars
    PROVE  TypeOK'
<1> USE DEF world, table, worker, history
<1>1. /\ row' \in [Revisions -> Row \cup {NoRow}]
      /\ queued' \in [Profiles -> 0..ProfileCap]
      /\ pending' \in 0..GlobalCap
      /\ retained' \in 0..RetainedCap
  BY RowMoves, CountStep
<1>2. ASSUME NEW r \in Revisions, Enqueue(r) \/ TimePasses(r)
      PROVE  TypeOK'
  BY <1>1, <1>2 DEF Enqueue, TimePasses, TypeOK
<1>3. ASSUME NEW p \in Profiles, SetPreference(p) \/ DeleteAccount(p)
      PROVE  TypeOK'
  BY <1>1, <1>3 DEF SetPreference, DeleteAccount, TypeOK
<1>4. ASSUME NEW w \in Workers, NEW r \in Revisions, Claim(w, r)
      PROVE  TypeOK'
  <2>1. [rev |-> r, token |-> row[r].attempts + 1, result |-> "none"] \in Job
    BY <1>4, ClaimedRows DEF Job
  <2>2. /\ job' = [job EXCEPT ![w] = [rev |-> r, token |-> row[r].attempts + 1, result |-> "none"]]
        /\ pc' = [pc EXCEPT ![w] = "claimed"] /\ pc[w] = "idle"
    BY <1>4, ClaimedRows DEF Claim
  <2>3. accepted' \subseteq accepted /\ refusals' \subseteq refusals
        /\ UNCHANGED <<accounts, muted, flights>>
    BY <1>4 DEF Claim, ForgetHistory
  <2> QED BY <1>1, <2>1, <2>2, <2>3, NullAssumption DEF TypeOK
<1>5. ASSUME NEW w \in Workers, Sweep(w)
      PROVE  TypeOK'
  BY <1>1, <1>5 DEF Sweep, ForgetHistory, TypeOK
<1>6. ASSUME NEW w \in Workers, NEW s \in {"sending", "aborting", "finishing"},
             NEW x \in {"none", "sent", "retry", "permanent"}, GoTo(w, s, x),
             pc[w] \notin {"idle", "blocked"}
      PROVE  /\ pc' \in [Workers -> {"idle", "claimed", "sending", "aborting", "finishing", "blocked"}]
             /\ job' \in [Workers -> Job \cup {NoJob}]
             /\ \A v \in Workers : job'[v] = NoJob <=> pc'[v] \in {"idle", "blocked"}
  <2>1. job[w] \in Job
    BY <1>6 DEF TypeOK
  <2>2. [job[w] EXCEPT !.result = x] \in Job
    BY <2>1 DEF Job
  <2>3. job' = [job EXCEPT ![w] = [job[w] EXCEPT !.result = x]] /\ pc' = [pc EXCEPT ![w] = s]
    BY <1>6 DEF GoTo
  <2> QED BY <2>2, <2>3, NullAssumption DEF TypeOK
<1>7. ASSUME NEW w \in Workers, NEW s \in {"idle", "blocked"}, Drop(w, s)
      PROVE  /\ pc' \in [Workers -> {"idle", "claimed", "sending", "aborting", "finishing", "blocked"}]
             /\ job' \in [Workers -> Job \cup {NoJob}]
             /\ \A v \in Workers : job'[v] = NoJob <=> pc'[v] \in {"idle", "blocked"}
  BY <1>7 DEF Drop, TypeOK
<1>8. ASSUME NEW w \in Workers, Check(w)
      PROVE  TypeOK'
  <2>1. job[w] \in Job /\ pc[w] = "claimed"
    BY <1>8 DEF Check, TypeOK
  <2>2. [rev |-> job[w].rev, attempt |-> job[w].token, owner |-> w] \in Flight
        /\ <<job[w].rev, job[w].token>> \in Revisions \X (1..MaxAttempts)
    BY <2>1 DEF Job, Flight
  <2>3. /\ UNCHANGED <<accounts, muted>>
        /\ flights' \subseteq Flight
        /\ accepted' = accepted /\ refusals' \subseteq Revisions \X (1..MaxAttempts)
        /\ GoTo(w, "sending", "none") \/ GoTo(w, "finishing", "permanent")
    BY <1>8, <2>2 DEF Check, TypeOK
  <2> QED BY <1>1, <1>6, <2>1, <2>3 DEF TypeOK
<1>9. ASSUME NEW w \in Workers, Settle(w)
      PROVE  TypeOK'
  <2>1. job[w] \in Job /\ pc[w] = "sending"
    BY <1>9 DEF Settle, TypeOK
  <2>2. <<job[w].rev, job[w].token>> \in Revisions \X (1..MaxAttempts)
    BY <2>1 DEF Job
  <2>3. /\ UNCHANGED <<accounts, muted, accepted>>
        /\ flights' \subseteq Flight
        /\ refusals' \subseteq Revisions \X (1..MaxAttempts)
        /\ \E x \in {"sent", "retry", "permanent"} : GoTo(w, "finishing", x)
    BY <1>9, <2>2, LetGoCalls DEF Settle, TypeOK
  <2> QED BY <1>1, <1>6, <2>1, <2>3 DEF TypeOK
<1>10. ASSUME NEW w \in Workers, Deadline(w) \/ SettleAborted(w)
       PROVE  TypeOK'
  <2>1. /\ UNCHANGED <<accounts, muted, accepted, refusals>> /\ flights' \subseteq Flight
        /\ pc[w] \in {"sending", "aborting"}
        /\ GoTo(w, "aborting", "none") \/ GoTo(w, "finishing", "retry")
    BY <1>10, LetGoCalls DEF Deadline, SettleAborted, TypeOK
  <2> QED BY <1>1, <1>6, <2>1 DEF TypeOK
<1>11. ASSUME NEW w \in Workers, Unresponsive(w) \/ CycleFails(w) \/ Restart(w) \/ Finish(w)
       PROVE  TypeOK'
  <2>1. /\ UNCHANGED <<accounts, muted, accepted, refusals>> /\ flights' \subseteq Flight
        /\ Drop(w, "idle") \/ Drop(w, "blocked")
    BY <1>11, LetGoCalls DEF Unresponsive, CycleFails, Restart, Finish, TypeOK
  <2> QED BY <1>1, <1>7, <2>1 DEF TypeOK
<1>12. ASSUME NEW f \in flights, Accept(f) \/ SettleAbandoned(f)
       PROVE  TypeOK'
  BY <1>1, <1>12 DEF Accept, SettleAbandoned, TypeOK, Flight
<1>13. CASE UNCHANGED vars
  BY <1>13 DEF vars, TypeOK
<1> QED
  BY <1>2, <1>3, <1>4, <1>5, <1>8, <1>9, <1>10, <1>11, <1>12, <1>13 DEF Next, Proceed

------------------------------------------------------------------------------
\* What a step does to cycles, calls and history.

JobMove(w) ==
    \/ job'[w] = job[w] /\ pc'[w] = pc[w]
    \/ job'[w] = NoJob
    \/ \E r \in Revisions : Claim(w, r)
    \/ /\ job[w] # NoJob
       /\ job'[w].rev = job[w].rev
       /\ job'[w].token = job[w].token
       /\ pc'[w] # "claimed"

LEMMA JobMoves ==
    ASSUME TypeOK, [Next]_vars
    PROVE  \A w \in Workers : JobMove(w)
<1> USE DEF world, table, worker, history
<1>1. ASSUME UNCHANGED worker
      PROVE  \A w \in Workers : JobMove(w)
  BY <1>1 DEF JobMove
<1>2. ASSUME NEW w \in Workers, NEW r \in Revisions, Claim(w, r)
      PROVE  \A v \in Workers : JobMove(v)
  <2>1. \A v \in Workers \ {w} : job'[v] = job[v] /\ pc'[v] = pc[v]
    BY <1>2 DEF Claim, TypeOK
  <2> QED BY <1>2, <2>1 DEF JobMove
<1>3. ASSUME NEW w \in Workers, NEW s \in {"sending", "aborting", "finishing"},
             NEW x \in {"none", "sent", "retry", "permanent"}, GoTo(w, s, x),
             pc[w] \notin {"idle", "blocked"}
      PROVE  \A v \in Workers : JobMove(v)
  <2>1. job[w] \in Job /\ job[w] # NoJob
    BY <1>3 DEF TypeOK
  <2>2. [job[w] EXCEPT !.result = x].rev = job[w].rev
        /\ [job[w] EXCEPT !.result = x].token = job[w].token
    BY <2>1 DEF Job
  <2>3. job' = [job EXCEPT ![w] = [job[w] EXCEPT !.result = x]] /\ pc' = [pc EXCEPT ![w] = s]
    BY <1>3 DEF GoTo
  <2> QED BY <2>1, <2>2, <2>3 DEF TypeOK, JobMove
<1>4. ASSUME NEW w \in Workers, NEW s \in {"idle", "blocked"}, Drop(w, s)
      PROVE  \A v \in Workers : JobMove(v)
  BY <1>4 DEF Drop, TypeOK, JobMove
<1>5. ASSUME NEW w \in Workers, Check(w) \/ Settle(w) \/ Deadline(w) \/ SettleAborted(w)
      PROVE  /\ pc[w] \notin {"idle", "blocked"}
             /\ \E s \in {"sending", "aborting", "finishing"},
                   x \in {"none", "sent", "retry", "permanent"} : GoTo(w, s, x)
  BY <1>5 DEF Check, Settle, Deadline, SettleAborted
<1>6. ASSUME NEW w \in Workers, Unresponsive(w) \/ CycleFails(w) \/ Restart(w) \/ Finish(w)
      PROVE  Drop(w, "idle") \/ Drop(w, "blocked")
  BY <1>6 DEF Unresponsive, CycleFails, Restart, Finish
<1>7. ASSUME \/ \E r \in Revisions : Enqueue(r) \/ TimePasses(r)
             \/ \E p \in Profiles : SetPreference(p) \/ DeleteAccount(p)
             \/ \E w \in Workers : Sweep(w)
             \/ \E f \in flights : Accept(f) \/ SettleAbandoned(f)
             \/ UNCHANGED vars
      PROVE  UNCHANGED worker
  BY <1>7 DEF Enqueue, TimePasses, SetPreference, DeleteAccount, Sweep, Accept, SettleAbandoned, vars
<1> QED
  BY <1>1, <1>2, <1>3, <1>4, <1>5, <1>6, <1>7 DEF Next, Proceed

\* A call is an earlier one, perhaps without its owner, or a new one.
NewCall(w, g) ==
    /\ pc[w] = "claimed"
    /\ pc'[w] = "sending"
    /\ g = [rev |-> job[w].rev, attempt |-> job[w].token, owner |-> w]

CallMove(g) ==
    \/ \E f \in flights : /\ g.rev = f.rev /\ g.attempt = f.attempt
                          /\ g.owner \in {f.owner, NoWorker}
    \/ \E w \in Workers : NewCall(w, g)

LEMMA CallMoves ==
    ASSUME TypeOK, [Next]_vars
    PROVE  \A g \in flights' : CallMove(g)
<1> USE DEF world, table, worker, history
<1>1. ASSUME NEW w \in Workers, Check(w)
      PROVE  \A g \in flights' : CallMove(g)
  BY <1>1 DEF Check, GoTo, CallMove, NewCall, TypeOK
<1>2. ASSUME NEW w \in Workers, flights' = LetGo(w)
      PROVE  \A g \in flights' : CallMove(g)
  BY <1>2, LetGoCalls DEF CallMove
<1>3. ASSUME flights' \subseteq flights
      PROVE  \A g \in flights' : CallMove(g)
  BY <1>3 DEF CallMove
<1>4. ASSUME NEW w \in Workers, Settle(w) \/ SettleAborted(w) \/ Restart(w)
      PROVE  flights' \subseteq flights \/ flights' = LetGo(w)
  BY <1>4 DEF Settle, SettleAborted, Restart
<1>5. ASSUME NEW w \in Workers,
             \/ Sweep(w) \/ Deadline(w) \/ Unresponsive(w) \/ Finish(w) \/ CycleFails(w)
             \/ \E r \in Revisions : Claim(w, r)
      PROVE  flights' = flights
  BY <1>5 DEF Sweep, Deadline, Unresponsive, Finish, CycleFails, Claim
<1>6. ASSUME \/ \E r \in Revisions : Enqueue(r) \/ TimePasses(r)
             \/ \E p \in Profiles : SetPreference(p) \/ DeleteAccount(p)
             \/ \E f \in flights : Accept(f) \/ SettleAbandoned(f)
             \/ UNCHANGED vars
      PROVE  flights' \subseteq flights
  BY <1>6 DEF Enqueue, TimePasses, SetPreference, DeleteAccount, Accept, SettleAbandoned, vars
<1> QED
  BY <1>1, <1>2, <1>3, <1>4, <1>5, <1>6 DEF Next, Proceed

\* History is lost only with a row that is forgotten, and then all of it.
Lost(r) == row[r] # NoRow /\ row'[r] = NoRow /\ Forgotten(r)

LEMMA HistoryMoves ==
    ASSUME TypeOK, [Next]_vars
    PROVE  /\ \A a \in accepted : a \in accepted' \/ Lost(a[1])
           /\ \A a \in refusals : a \in refusals' \/ Lost(a[1])
           /\ \A a \in accepted' : \/ a \in accepted
                                   \/ \E f \in flights : a = <<f.rev, f.attempt>>
           /\ \A a \in accepted' :
                 row'[a[1]] = NoRow /\ Recipient[a[1]] \in accounts' => row[a[1]] = NoRow
<1> DEFINE Goal ==
      /\ \A a \in accepted : a \in accepted' \/ Lost(a[1])
      /\ \A a \in refusals : a \in refusals' \/ Lost(a[1])
      /\ \A a \in accepted' : a \in accepted \/ \E f \in flights : a = <<f.rev, f.attempt>>
      /\ \A a \in accepted' :
            row'[a[1]] = NoRow /\ Recipient[a[1]] \in accounts' => row[a[1]] = NoRow
<1> USE DEF world, table, worker, history
<1>1. \A a \in accepted \cup refusals : a[1] \in Revisions
  BY DEF TypeOK
<1>2. ASSUME NEW w \in Workers, NEW r \in Revisions, Claim(w, r)
      PROVE  Goal
  <2>1. \A q \in Revisions \ {r} : row'[q] = Swept[q]
    BY <1>2, ClaimedRows
  <2>2. row'[r] # NoRow /\ row[r] # NoRow /\ ~Forgotten(r)
    BY <1>2, ClaimedRows
  <2>3. /\ \A a \in accepted : a \in accepted' <=> (row[a[1]] = NoRow \/ Swept[a[1]] # NoRow)
        /\ \A a \in refusals : a \in refusals' <=> (row[a[1]] = NoRow \/ Swept[a[1]] # NoRow)
        /\ accepted' \subseteq accepted
    BY <1>1, <1>2 DEF Claim, ForgetHistory
  <2>4. \A q \in Revisions : row[q] # NoRow /\ Swept[q] = NoRow => Lost(q)
    BY <2>1, <2>2, SweptRow DEF Lost
  <2> QED BY <1>1, <2>1, <2>2, <2>3, <2>4
<1>3. ASSUME NEW w \in Workers, Sweep(w)
      PROVE  Goal
  <2>1. row' = Swept
    BY <1>3 DEF Sweep, Track
  <2>2. /\ \A a \in accepted : a \in accepted' <=> (row[a[1]] = NoRow \/ Swept[a[1]] # NoRow)
        /\ \A a \in refusals : a \in refusals' <=> (row[a[1]] = NoRow \/ Swept[a[1]] # NoRow)
        /\ accepted' \subseteq accepted
    BY <1>1, <1>3 DEF Sweep, ForgetHistory
  <2>3. \A q \in Revisions : row[q] # NoRow /\ Swept[q] = NoRow => Lost(q)
    BY <2>1, SweptRow DEF Lost
  <2> QED BY <1>1, <2>1, <2>2, <2>3
<1>4. ASSUME NEW p \in Profiles, DeleteAccount(p)
      PROVE  Goal
  <2>1. /\ row' = [r \in Revisions |-> IF Recipient[r] = p THEN NoRow ELSE row[r]]
        /\ accounts' = accounts \ {p} /\ accepted' = accepted /\ refusals' = refusals
    BY <1>4 DEF DeleteAccount, Track
  <2> QED BY <1>1, <2>1
<1>5. ASSUME NEW r \in Revisions, Enqueue(r)
      PROVE  Goal
  <2>1. accepted' = accepted /\ refusals' = refusals /\ row[r] = NoRow
        /\ \A q \in Revisions \ {r} : row'[q] = row[q]
    BY <1>5 DEF Enqueue, Track, Changed, Stored, TypeOK
  <2> QED BY <1>1, <2>1
<1>6. ASSUME NEW w \in Workers, Finish(w)
      PROVE  Goal
  <2>1. accepted' = accepted /\ refusals' = refusals
    BY <1>6 DEF Finish
  <2>2. CASE MayFinish(w)
    BY <1>1, <1>6, <2>1, <2>2, FinishedRows
  <2>3. CASE ~MayFinish(w)
    BY <1>1, <1>6, <2>1, <2>3 DEF Finish, Track
  <2> QED BY <2>2, <2>3
<1>7. ASSUME NEW r \in Revisions, TimePasses(r)
      PROVE  Goal
  <2>1. accepted' = accepted /\ refusals' = refusals /\ row[r] # NoRow
        /\ \A q \in Revisions \ {r} : row'[q] = row[q]
    BY <1>7 DEF TimePasses, Stored, TypeOK
  <2>2. [row[r] EXCEPT !.due = TRUE] \in Row /\ row' = [row EXCEPT ![r] = [row[r] EXCEPT !.due = TRUE]]
    BY <1>7 DEF TimePasses, Stored, TypeOK, Row
  <2> QED BY <1>1, <2>1, <2>2, NullAssumption DEF TypeOK
<1>8. ASSUME row' = row, accepted \subseteq accepted', refusals \subseteq refusals',
             \A a \in accepted' : a \in accepted \/ \E f \in flights : a = <<f.rev, f.attempt>>
      PROVE  Goal
  BY <1>8
<1>9. ASSUME NEW w \in Workers,
             Check(w) \/ Settle(w) \/ Deadline(w) \/ SettleAborted(w) \/ Unresponsive(w)
                \/ CycleFails(w) \/ Restart(w)
      PROVE  row' = row /\ accepted' = accepted /\ refusals \subseteq refusals'
  BY <1>9 DEF Check, Settle, Deadline, SettleAborted, Unresponsive, CycleFails, Restart
<1>10. ASSUME \/ \E p \in Profiles : SetPreference(p)
              \/ \E f \in flights : Accept(f) \/ SettleAbandoned(f)
              \/ UNCHANGED vars
       PROVE  /\ row' = row /\ refusals' = refusals /\ accepted \subseteq accepted'
              /\ \A a \in accepted' : a \in accepted \/ \E f \in flights : a = <<f.rev, f.attempt>>
  BY <1>10 DEF SetPreference, Accept, SettleAbandoned, vars
<1> QED
  BY <1>2, <1>3, <1>4, <1>5, <1>6, <1>7, <1>8, <1>9, <1>10 DEF Next, Proceed

------------------------------------------------------------------------------
\* The parts of the invariant, one by one.

\* Table actions leave the calls alone; Finish and Claim move workers that
\* wait for none.
LEMMA CallsStep ==
    ASSUME TypeOK, CallsAreWaitedFor, [Next]_vars
    PROVE  CallsAreWaitedFor'
<1> USE DEF world, table, worker, history
<1>1. ASSUME flights' \subseteq flights, UNCHANGED pc
      PROVE  CallsAreWaitedFor'
  BY <1>1 DEF CallsAreWaitedFor
<1>2. ASSUME NEW w \in Workers, NEW s,
             pc' = [pc EXCEPT ![w] = s], flights' \subseteq flights,
             \/ \A f \in flights' : f.owner # w
             \/ s \in {"sending", "aborting", "blocked"}
      PROVE  CallsAreWaitedFor'
  <2>1. \A f \in flights : f.owner \in Workers \cup {NoWorker}
    BY DEF TypeOK, Flight
  <2> QED BY <1>2, <2>1 DEF CallsAreWaitedFor, TypeOK
<1>3. ASSUME NEW w \in Workers, NEW s, pc' = [pc EXCEPT ![w] = s], flights' = LetGo(w)
      PROVE  CallsAreWaitedFor'
  <2>1. \A f \in flights : f.owner \in Workers \cup {NoWorker}
    BY DEF TypeOK, Flight
  <2>2. ASSUME NEW g \in flights', NEW h \in flights', g.owner = h.owner, g.owner # NoWorker
        PROVE  g = h /\ g.owner # w /\ pc[g.owner] \in {"sending", "aborting", "blocked"}
               /\ g.owner \in Workers
    <3> DEFINE free(f) == [f EXCEPT !.owner = IF @ = w THEN NoWorker ELSE @]
    <3>1. PICK f \in flights, e \in flights : g = free(f) /\ h = free(e)
      BY <1>3, <2>2 DEF LetGo
    <3>2. /\ free(f).owner = IF f.owner = w THEN NoWorker ELSE f.owner
          /\ free(e).owner = IF e.owner = w THEN NoWorker ELSE e.owner
      BY DEF TypeOK, Flight
    <3> HIDE DEF free
    <3> QED BY <2>1, <2>2, <3>1, <3>2 DEF CallsAreWaitedFor
  <2> QED BY <1>3, <2>2 DEF CallsAreWaitedFor, TypeOK
<1>4. ASSUME NEW w \in Workers, NEW s, pc[w] \notin {"sending", "aborting", "blocked"}
      PROVE  \A f \in flights : f.owner # w
  BY <1>4, OutboxAssumption DEF CallsAreWaitedFor
<1>5. ASSUME NEW w \in Workers, Check(w)
      PROVE  CallsAreWaitedFor'
  <2>1. pc[w] = "claimed"
    BY <1>5 DEF Check
  <2>2. CASE pc' = [pc EXCEPT ![w] = "finishing"] /\ flights' = flights
    BY <1>2, <1>4, <2>1, <2>2
  <2> DEFINE call == [rev |-> job[w].rev, attempt |-> job[w].token, owner |-> w]
  <2>3. CASE pc' = [pc EXCEPT ![w] = "sending"] /\ flights' = flights \cup {call}
    <3>1. call.owner = w /\ \A f \in flights : f.owner # w
      BY <1>4, <2>1
    <3>2. \A f \in flights : f.owner \in Workers \cup {NoWorker}
      BY DEF TypeOK, Flight
    <3> HIDE DEF call
    <3> QED BY <2>3, <3>1, <3>2 DEF CallsAreWaitedFor, TypeOK
  <2> QED BY <1>5, <2>2, <2>3 DEF Check, GoTo
<1>6. ASSUME NEW w \in Workers, Settle(w)
      PROVE  CallsAreWaitedFor'
  <2>1. pc' = [pc EXCEPT ![w] = "finishing"]
    BY <1>6 DEF Settle, GoTo
  <2>2. flights' = flights \ Flying(w) \/ flights' = LetGo(w)
    BY <1>6 DEF Settle
  <2>3. \A f \in flights \ Flying(w) : f.owner # w
    BY DEF Flying
  <2>4. CASE flights' = flights \ Flying(w)
    BY <1>2, <2>1, <2>3, <2>4
  <2> QED BY <1>3, <2>1, <2>2, <2>4
<1>7. ASSUME NEW w \in Workers, Deadline(w) \/ Unresponsive(w)
      PROVE  CallsAreWaitedFor'
  <2>1. flights' = flights /\ \E s \in {"aborting", "blocked"} : pc' = [pc EXCEPT ![w] = s]
    BY <1>7 DEF Deadline, Unresponsive, GoTo, Drop
  <2> QED BY <1>2, <2>1
<1>8. ASSUME NEW w \in Workers, SettleAborted(w) \/ Restart(w)
      PROVE  CallsAreWaitedFor'
  <2>1. flights' = LetGo(w) /\ \E s : pc' = [pc EXCEPT ![w] = s]
    BY <1>8 DEF SettleAborted, Restart, GoTo, Drop
  <2> QED BY <1>3, <2>1
<1>9. ASSUME NEW w \in Workers, CycleFails(w) \/ Finish(w) \/ \E r \in Revisions : Claim(w, r)
      PROVE  CallsAreWaitedFor'
  <2>1. /\ flights' = flights /\ \E s : pc' = [pc EXCEPT ![w] = s]
        /\ pc[w] \in {"claimed", "finishing", "idle"}
    BY <1>9 DEF CycleFails, Finish, Claim, Drop
  <2> QED BY <1>2, <1>4, <2>1
<1>10. ASSUME \/ \E r \in Revisions : Enqueue(r) \/ TimePasses(r)
              \/ \E p \in Profiles : SetPreference(p) \/ DeleteAccount(p)
              \/ \E w \in Workers : Sweep(w)
              \/ \E f \in flights : Accept(f) \/ SettleAbandoned(f)
              \/ UNCHANGED vars
       PROVE  flights' \subseteq flights /\ UNCHANGED pc
  BY <1>10
  DEF Enqueue, TimePasses, SetPreference, DeleteAccount, Sweep, Accept, SettleAbandoned, vars
<1> QED
  BY <1>1, <1>5, <1>6, <1>7, <1>8, <1>9, <1>10 DEF Next, Proceed

\* A claim takes the next number of the row, which nobody has yet.
LEMMA FreshAttempt ==
    ASSUME TypeOK, AttemptsAreCounted, NEW w \in Workers, NEW r \in Revisions, Claim(w, r)
    PROVE  /\ job' = [job EXCEPT ![w] = job'[w]]
           /\ job'[w].rev = r
           /\ row[r] # NoRow /\ row'[r] # NoRow
           /\ row'[r].attempts = job'[w].token
           /\ \A v \in Workers : job[v] # NoJob /\ job[v].rev = r => job[v].token < job'[w].token
           /\ \A f \in flights : f.rev = r => f.attempt < job'[w].token
<1>1. /\ row[r] # NoRow /\ row'[r] # NoRow /\ row[r].attempts \in Nat
      /\ row'[r].attempts = row[r].attempts + 1
      /\ job' = [job EXCEPT ![w] = [rev |-> r, token |-> row[r].attempts + 1, result |-> "none"]]
  <2>1. /\ row[r] \in Row /\ row[r] # NoRow /\ row'[r] # NoRow /\ Leased(r)
        /\ job' = [job EXCEPT ![w] = [rev |-> r, token |-> row[r].attempts + 1, result |-> "none"]]
    BY ClaimedRows
  <2>2. row[r].attempts \in Nat
    BY <2>1, OutboxAssumption DEF Row
  <2>3. row'[r].attempts = row[r].attempts + 1
    BY <2>1 DEF Leased
  <2> QED BY <2>1, <2>2, <2>3
<1>2. /\ job'[w].rev = r /\ job'[w].token = row[r].attempts + 1
      /\ job' = [job EXCEPT ![w] = job'[w]]
  BY <1>1 DEF TypeOK
<1>3. /\ \A v \in Workers : job[v] # NoJob => job[v].token \in Nat
      /\ \A f \in flights : f.attempt \in Nat
  BY DEF TypeOK, Job, Flight
<1> QED BY <1>1, <1>2, <1>3 DEF AttemptsAreCounted

LEMMA UniqueStep ==
    ASSUME TypeOK, TypeOK', AttemptsAreUnique, AttemptsAreCounted, [Next]_vars
    PROVE  AttemptsAreUnique'
<1> USE DEF world, table, worker, history
<1>1. ASSUME NEW w \in Workers, NEW r \in Revisions, Claim(w, r)
      PROVE  AttemptsAreUnique'
  <2>1. /\ pc' = [pc EXCEPT ![w] = "claimed"] /\ flights' = flights
        /\ \A v \in Workers \ {w} : job'[v] = job[v] /\ pc'[v] = pc[v]
    BY <1>1, FreshAttempt DEF Claim, TypeOK
  <2>2. job'[w].rev = r
        /\ \A v \in Workers : job[v] # NoJob /\ job[v].rev = r => job[v].token # job'[w].token
    <3>1. \A v \in Workers : job[v] # NoJob => job[v].token \in Nat
      BY DEF TypeOK, Job
    <3>2. job'[w].token \in Nat
      BY <1>1, ClaimedRows DEF TypeOK
    <3> QED BY <1>1, <3>1, <3>2, FreshAttempt
  <2>3. \A f \in flights : f.rev = r => f.attempt # job'[w].token
    <3>1. \A f \in flights : f.attempt \in Nat
      BY DEF TypeOK, Flight
    <3>2. job'[w].token \in Nat
      BY <1>1, ClaimedRows DEF TypeOK
    <3> QED BY <1>1, <3>1, <3>2, FreshAttempt
  <2> QED BY <2>1, <2>2, <2>3 DEF AttemptsAreUnique
<1>2. ASSUME ~\E w \in Workers, r \in Revisions : Claim(w, r)
      PROVE  \A v \in Workers : job'[v] # NoJob =>
                /\ job[v] # NoJob /\ job'[v].rev = job[v].rev /\ job'[v].token = job[v].token
                /\ pc'[v] = "claimed" => pc[v] = "claimed"
  BY <1>2, JobMoves DEF JobMove
<1>3. \A v \in Workers : pc'[v] = "claimed" => job'[v] # NoJob
  BY DEF TypeOK
<1>4. ASSUME ~\E w \in Workers, r \in Revisions : Claim(w, r),
             \A f \in flights' : \E e \in flights : f.rev = e.rev /\ f.attempt = e.attempt,
             \A f, g \in flights' : f.rev = g.rev /\ f.attempt = g.attempt => f = g
      PROVE  AttemptsAreUnique'
  BY <1>2, <1>3, <1>4 DEF AttemptsAreUnique
<1>5. ASSUME ~\E w \in Workers, r \in Revisions : Claim(w, r),
             flights' \subseteq flights \/ \E w \in Workers : flights' = LetGo(w)
      PROVE  AttemptsAreUnique'
  <2>1. CASE flights' \subseteq flights
    BY <1>4, <1>5, <2>1 DEF AttemptsAreUnique
  <2>2. ASSUME NEW w \in Workers, flights' = LetGo(w)
        PROVE  AttemptsAreUnique'
    BY <1>4, <1>5, <2>2, LetGoCalls DEF AttemptsAreUnique
  <2> QED BY <1>5, <2>1, <2>2
<1>6. ASSUME NEW w \in Workers, Check(w), ~\E v \in Workers, r \in Revisions : Claim(v, r)
      PROVE  AttemptsAreUnique'
  <2> DEFINE call == [rev |-> job[w].rev, attempt |-> job[w].token, owner |-> w]
  <2>1. /\ pc[w] = "claimed" /\ job[w] # NoJob /\ pc'[w] # "claimed"
        /\ flights' = flights \/ flights' = flights \cup {call}
    BY <1>6 DEF Check, GoTo, TypeOK
  <2>2. CASE flights' = flights
    BY <1>5, <1>6, <2>2
  <2>3. CASE flights' = flights \cup {call}
    <3>1. call.rev = job[w].rev /\ call.attempt = job[w].token
      OBVIOUS
    <3>2. \A v \in Workers : pc'[v] = "claimed" =>
             v # w /\ pc[v] = "claimed" /\ job[v] # NoJob
               /\ job'[v].rev = job[v].rev /\ job'[v].token = job[v].token
      BY <1>2, <1>3, <1>6, <2>1
    <3>3. \A v \in Workers : pc'[v] = "claimed" =>
             ~(call.rev = job'[v].rev /\ call.attempt = job'[v].token)
      BY <2>1, <3>1, <3>2 DEF AttemptsAreUnique
    <3>4. \A f \in flights : ~(f.rev = call.rev /\ f.attempt = call.attempt)
      BY <2>1, <3>1 DEF AttemptsAreUnique
    <3> HIDE DEF call
    <3>5. \A v \in Workers : pc'[v] = "claimed" =>
             \A f \in flights' : ~(f.rev = job'[v].rev /\ f.attempt = job'[v].token)
      BY <2>3, <3>2, <3>3 DEF AttemptsAreUnique
    <3>6. \A f, g \in flights' : f.rev = g.rev /\ f.attempt = g.attempt => f = g
      BY <2>3, <3>4 DEF AttemptsAreUnique
    <3> QED BY <1>2, <1>6, <3>5, <3>6 DEF AttemptsAreUnique
  <2> QED BY <2>1, <2>2, <2>3
<1>7. ASSUME NEW w \in Workers, Settle(w) \/ SettleAborted(w) \/ Restart(w)
      PROVE  flights' \subseteq flights \/ flights' = LetGo(w)
  BY <1>7 DEF Settle, SettleAborted, Restart
<1>8. ASSUME NEW w \in Workers,
             Sweep(w) \/ Deadline(w) \/ Unresponsive(w) \/ Finish(w) \/ CycleFails(w)
      PROVE  flights' \subseteq flights
  BY <1>8 DEF Sweep, Deadline, Unresponsive, Finish, CycleFails
<1>9. ASSUME \/ \E r \in Revisions : Enqueue(r) \/ TimePasses(r)
             \/ \E p \in Profiles : SetPreference(p) \/ DeleteAccount(p)
             \/ \E f \in flights : Accept(f) \/ SettleAbandoned(f)
             \/ UNCHANGED vars
      PROVE  flights' \subseteq flights
  BY <1>9 DEF Enqueue, TimePasses, SetPreference, DeleteAccount, Accept, SettleAbandoned, vars
<1> QED
  BY <1>1, <1>5, <1>6, <1>7, <1>8, <1>9 DEF Next, Proceed

\* Rows count upwards while they live, and a new row starts where nobody
\* remembers an attempt.
LEMMA RowsGrow ==
    ASSUME TypeOK, [Next]_vars, NEW r \in Revisions, row'[r] # NoRow
    PROVE  \/ row[r] = NoRow /\ Forgotten(r)
           \/ /\ row[r] # NoRow
              /\ row[r].attempts \in Nat /\ row'[r].attempts \in Nat
              /\ row[r].attempts <= row'[r].attempts
<1>1. Move(r) /\ row[r] \in Row \cup {NoRow}
  BY RowMoves DEF TypeOK
<1>2. row[r] # NoRow => row[r].attempts \in Nat
  BY <1>1, OutboxAssumption DEF Row
<1>3. CASE row'[r] = row[r]
  BY <1>2, <1>3
<1>4. CASE Enqueued(r)
  BY <1>4 DEF Enqueued, Forgotten
<1>5. CASE Removed(r)
  BY <1>5 DEF Removed
<1>6. CASE CleanedUp(r, row'[r])
  BY <1>2, <1>6 DEF CleanedUp
<1>7. CASE Leased(r)
  <2>1. row[r] # NoRow /\ row'[r].attempts = row[r].attempts + 1
    BY <1>7 DEF Leased
  <2> QED BY <1>2, <2>1
<1>8. ASSUME NEW w \in Workers, FinishedBy(w, r)
      PROVE  row[r] # NoRow /\ row'[r].attempts = row[r].attempts
  BY <1>8 DEF FinishedBy, Holds, Stored
<1>9. CASE Elapsed(r)
  BY <1>2, <1>9 DEF Elapsed
<1> QED BY <1>1, <1>2, <1>3, <1>4, <1>5, <1>6, <1>7, <1>8, <1>9 DEF Move

LEMMA CountedStep ==
    ASSUME TypeOK, TypeOK', AttemptsAreCounted, ForgottenIsOver, [Next]_vars
    PROVE  AttemptsAreCounted'
<1>1. ASSUME NEW r \in Revisions, NEW n \in Nat, row'[r] # NoRow,
             row[r] = NoRow => ~Forgotten(r), row[r] # NoRow => n <= row[r].attempts
      PROVE  n <= row'[r].attempts
  BY <1>1, RowsGrow
<1>2. ASSUME NEW w \in Workers, job'[w] # NoJob, row'[job'[w].rev] # NoRow
      PROVE  job'[w].token <= row'[job'[w].rev].attempts
  <2>1. CASE \E r \in Revisions : Claim(w, r)
    <3>1. job'[w].token \in Nat
      BY <1>2 DEF TypeOK, Job
    <3> QED BY <2>1, <3>1, FreshAttempt
  <2>2. CASE job[w] # NoJob /\ job'[w].rev = job[w].rev /\ job'[w].token = job[w].token
    <3>1. job[w].rev \in Revisions /\ job[w].token \in Nat
      BY <2>2 DEF TypeOK, Job
    <3>2. ~Forgotten(job[w].rev)
      BY <2>2 DEF ForgottenIsOver
    <3> QED BY <1>1, <1>2, <2>2, <3>1, <3>2 DEF AttemptsAreCounted
  <2> QED BY <1>2, <2>1, <2>2, JobMoves DEF JobMove
<1>3. ASSUME NEW g \in flights', row'[g.rev] # NoRow
      PROVE  g.attempt <= row'[g.rev].attempts
  <2>1. g.rev \in Revisions /\ g.attempt \in Nat
    BY DEF TypeOK, Flight
  <2>2. ASSUME NEW f \in flights, g.rev = f.rev, g.attempt = f.attempt
        PROVE  g.attempt <= row'[g.rev].attempts
    BY <1>1, <1>3, <2>1, <2>2 DEF AttemptsAreCounted, ForgottenIsOver
  <2>3. ASSUME NEW w \in Workers, NewCall(w, g)
        PROVE  g.attempt <= row'[g.rev].attempts
    <3>1. job[w] # NoJob /\ g.rev = job[w].rev /\ g.attempt = job[w].token
      BY <2>3 DEF NewCall, TypeOK
    <3> QED BY <1>1, <1>3, <2>1, <3>1 DEF AttemptsAreCounted, ForgottenIsOver
  <2> QED BY <2>2, <2>3, CallMoves DEF CallMove
<1>4. ASSUME NEW a \in accepted', row'[a[1]] # NoRow
      PROVE  a[2] <= row'[a[1]].attempts
  <2>1. a[1] \in Revisions /\ a[2] \in Nat
    BY DEF TypeOK
  <2>2. CASE a \in accepted
    BY <1>1, <1>4, <2>1, <2>2 DEF AttemptsAreCounted, ForgottenIsOver, Forgotten
  <2>3. ASSUME NEW f \in flights, a = <<f.rev, f.attempt>>
        PROVE  a[2] <= row'[a[1]].attempts
    BY <1>1, <1>4, <2>1, <2>3 DEF AttemptsAreCounted, ForgottenIsOver
  <2> QED BY <2>2, <2>3, HistoryMoves
<1> QED BY <1>2, <1>3, <1>4 DEF AttemptsAreCounted

LEMMA ForgottenStep ==
    ASSUME TypeOK, TypeOK', ForgottenIsOver, [Next]_vars
    PROVE  ForgottenIsOver'
<1>1. ASSUME NEW r \in Revisions, Forgotten(r)'
      PROVE  \/ Forgotten(r)
             \/ /\ \A f \in flights : f.rev # r
                /\ \A w \in Workers : job[w] # NoJob => job[w].rev # r
  <2>1. Move(r) /\ accounts' \subseteq accounts
    BY RowMoves
  <2>2. row'[r] # NoRow => row'[r].state \in Ended /\ row'[r].due
    BY <1>1 DEF Forgotten
  <2>3. row'[r] = NoRow => Recipient[r] \in accounts'
    BY <1>1 DEF Forgotten
  <2>4. CASE row'[r] = row[r]
    BY <2>1, <2>2, <2>3, <2>4 DEF Forgotten
  <2>5. CASE Enqueued(r)
    BY <2>5 DEF Enqueued, Forgotten
  <2>6. CASE Removed(r)
    BY <2>3, <2>6 DEF Removed
  <2>7. CASE row'[r] # NoRow /\ CleanedUp(r, row'[r])
    BY <2>2, <2>7 DEF CleanedUp
  <2>8. CASE row'[r] # NoRow /\ Leased(r)
    <3>1. row'[r].state = "leased"
      BY <2>8 DEF Leased
    <3> QED BY <2>2, <2>8, <3>1 DEF Ended
  <2>9. ASSUME NEW w \in Workers, row'[r] # NoRow, FinishedBy(w, r)
        PROVE  FALSE
    BY <2>2, <2>9 DEF FinishedBy
  <2>10. CASE Elapsed(r)
    BY <2>2, <2>10 DEF Elapsed
  <2> QED BY <2>1, <2>4, <2>5, <2>6, <2>7, <2>8, <2>9, <2>10 DEF Move
<1>2. ASSUME NEW w \in Workers, job'[w] # NoJob, NEW r, job'[w].rev = r, Forgotten(r)'
      PROVE  FALSE
  <2>1. r \in Revisions
    BY <1>2 DEF TypeOK, Job
  <2>2. ASSUME NEW q \in Revisions, Claim(w, q)
        PROVE  FALSE
    <3>1. r = q /\ row'[r] # NoRow /\ row'[r].state = "leased"
      BY <1>2, <2>2, ClaimedRows DEF Leased, TypeOK
    <3> QED BY <1>2, <3>1 DEF Forgotten, Ended
  <2>3. CASE job[w] # NoJob /\ job'[w].rev = job[w].rev
    BY <1>1, <1>2, <2>1, <2>3 DEF ForgottenIsOver
  <2> QED BY <1>2, <2>2, <2>3, JobMoves DEF JobMove
<1>3. ASSUME NEW g \in flights', Forgotten(g.rev)'
      PROVE  FALSE
  <2>1. g.rev \in Revisions
    BY DEF TypeOK, Flight
  <2>2. ASSUME NEW f \in flights, g.rev = f.rev
        PROVE  FALSE
    BY <1>1, <1>3, <2>1, <2>2 DEF ForgottenIsOver
  <2>3. ASSUME NEW w \in Workers, NewCall(w, g)
        PROVE  FALSE
    <3>1. job[w] # NoJob /\ g.rev = job[w].rev
      BY <2>3 DEF NewCall, TypeOK
    <3> QED BY <1>1, <1>3, <2>1, <3>1 DEF ForgottenIsOver
  <2> QED BY <2>2, <2>3, CallMoves DEF CallMove
<1>4. ASSUME NEW a \in accepted', row'[a[1]] = NoRow, Recipient[a[1]] \in accounts'
      PROVE  FALSE
  <2>1. row[a[1]] = NoRow /\ Recipient[a[1]] \in accounts
    BY <1>4, HistoryMoves, RowMoves
  <2>2. CASE a \in accepted
    BY <2>1, <2>2 DEF ForgottenIsOver
  <2>3. ASSUME NEW f \in flights, a = <<f.rev, f.attempt>>
        PROVE  FALSE
    BY <2>1, <2>3 DEF ForgottenIsOver, Forgotten
  <2> QED BY <2>2, <2>3, HistoryMoves
<1> QED BY <1>2, <1>3, <1>4 DEF ForgottenIsOver

\* A lease that was lost is never had again.
LEMMA LostStaysLost ==
    ASSUME TypeOK, AttemptsAreCounted, [Next]_vars,
           NEW w \in Workers, job[w] # NoJob, job'[w].token = job[w].token,
           NEW r \in Revisions, job[w].rev = r, Holds(w, r)'
    PROVE  Holds(w, r)
<1>1. Move(r) /\ (row[r] = NoRow \/ row[r] \in Row)
  BY RowMoves DEF TypeOK
<1>2. /\ row'[r] # NoRow /\ row'[r].state = "leased"
      /\ row'[r].attempts = job[w].token /\ ~row'[r].due
  BY DEF Holds, Stored
<1>3. job[w].token \in Nat
  BY DEF TypeOK, Job
<1>4. CASE row'[r] = row[r]
  BY <1>2, <1>4 DEF Holds, Stored
<1>5. CASE Leased(r)
  <2>1. row[r] # NoRow /\ row'[r].attempts = row[r].attempts + 1
    BY <1>5 DEF Leased
  <2>2. row[r].attempts \in Nat /\ job[w].token <= row[r].attempts
    BY <1>1, <2>1, OutboxAssumption DEF AttemptsAreCounted, Row
  <2> QED BY <1>2, <1>3, <2>1, <2>2
<1>6. CASE Enqueued(r) \/ Removed(r) \/ CleanedUp(r, row'[r]) \/ Elapsed(r)
  BY <1>2, <1>6 DEF Enqueued, Removed, CleanedUp, Elapsed
<1>7. ASSUME NEW v \in Workers, FinishedBy(v, r)
      PROVE  FALSE
  BY <1>2, <1>7 DEF FinishedBy
<1> QED BY <1>1, <1>4, <1>5, <1>6, <1>7 DEF Move

\* The history a cycle or a row stands on is kept while it stands.
LEMMA HistoryStays ==
    ASSUME TypeOK, ForgottenIsOver, [Next]_vars
    PROVE  /\ \A w \in Workers : job[w] # NoJob =>
                 LET a == <<job[w].rev, job[w].token>>
                 IN  (a \in accepted => a \in accepted') /\ (a \in refusals => a \in refusals')
           /\ \A r \in Revisions : row'[r] # NoRow =>
                 \A n : LET a == <<r, n>>
                        IN  (a \in accepted => a \in accepted') /\ (a \in refusals => a \in refusals')
BY HistoryMoves DEF Lost, ForgottenIsOver

LEMMA ResultsStep ==
    ASSUME TypeOK, ForgottenIsOver, AttemptsAreCounted, ResultsAreTrue, [Next]_vars
    PROVE  ResultsAreTrue'
<1> USE DEF world, table, worker, history
<1> DEFINE True(w) ==
       /\ job'[w].result = "sent" => <<job'[w].rev, job'[w].token>> \in accepted'
       /\ job'[w].result = "permanent" =>
             <<job'[w].rev, job'[w].token>> \in refusals' \/ ~Holds(w, job[w].rev)'
<1>1. ASSUME NEW w \in Workers, job[w] # NoJob, job'[w] = job[w]
      PROVE  True(w)
  <2>1. job[w].rev \in Revisions
    BY <1>1 DEF TypeOK, Job
  <2>2. ASSUME NEW r, r = job[w].rev, Holds(w, r)'
        PROVE  Holds(w, r)
    BY <1>1, <2>1, <2>2, LostStaysLost
  <2>3. Holds(w, job[w].rev)' => Holds(w, job[w].rev)
    BY <1>1, <2>2 DEF Holds, Stored
  <2> QED BY <1>1, <2>3, HistoryStays DEF ResultsAreTrue
<1>2. ASSUME NEW w \in Workers, NEW s, NEW x \in {"none", "sent", "retry", "permanent"},
             GoTo(w, s, x), pc[w] \notin {"idle", "blocked"}
      PROVE  /\ job[w] # NoJob /\ job'[w].result = x
             /\ job'[w].rev = job[w].rev /\ job'[w].token = job[w].token
             /\ \A v \in Workers \ {w} : job'[v] = job[v]
  <2>1. job[w] \in Job /\ job[w] # NoJob
    BY <1>2 DEF TypeOK
  <2>2. [job[w] EXCEPT !.result = x].rev = job[w].rev
        /\ [job[w] EXCEPT !.result = x].token = job[w].token
        /\ [job[w] EXCEPT !.result = x].result = x
    BY <2>1 DEF Job
  <2>3. job' = [job EXCEPT ![w] = [job[w] EXCEPT !.result = x]]
    BY <1>2 DEF GoTo
  <2> QED BY <2>1, <2>2, <2>3 DEF TypeOK
<1>3. ASSUME NEW w \in Workers, Check(w)
      PROVE  \A v \in Workers : job'[v] # NoJob => True(v)
  <2> DEFINE r == job[w].rev
             wanted == Recipient[r] \in accounts \ muted
  <2>1. CASE Holds(w, r) /\ wanted
    <3>1. GoTo(w, "sending", "none") /\ pc[w] = "claimed"
      BY <1>3, <2>1 DEF Check
    <3> QED BY <1>1, <1>2, <3>1
  <2>2. CASE ~(Holds(w, r) /\ wanted)
    <3>1. /\ GoTo(w, "finishing", "permanent") /\ pc[w] = "claimed" /\ row' = row
          /\ ~wanted => <<r, job[w].token>> \in refusals'
      BY <1>3, <2>2 DEF Check
    <3>2. /\ job[w] # NoJob /\ job'[w].result = "permanent"
          /\ job'[w].rev = job[w].rev /\ job'[w].token = job[w].token
          /\ \A v \in Workers \ {w} : job'[v] = job[v]
      BY <1>2, <3>1
    <3>3. ~Holds(w, r) => ~Holds(w, job[w].rev)'
      BY <3>1, <3>2 DEF Holds, Stored
    <3>4. True(w)
      BY <2>2, <3>1, <3>2, <3>3
    <3> QED BY <1>1, <3>2, <3>4
  <2> QED BY <2>1, <2>2
<1>4. ASSUME NEW w \in Workers, Settle(w)
      PROVE  \A v \in Workers : job'[v] # NoJob => True(v)
  <2> DEFINE a == <<job[w].rev, job[w].token>>
  <2>1. pc[w] = "sending" /\ accepted' = accepted
    BY <1>4 DEF Settle
  <2>2. \/ GoTo(w, "finishing", "sent") /\ a \in accepted
        \/ GoTo(w, "finishing", "retry")
        \/ GoTo(w, "finishing", "permanent") /\ a \in refusals'
    BY <1>4 DEF Settle
  <2> QED BY <1>1, <1>2, <2>1, <2>2
<1>5. ASSUME NEW w \in Workers, Deadline(w) \/ SettleAborted(w)
      PROVE  \A v \in Workers : job'[v] # NoJob => True(v)
  <2>1. /\ pc[w] \in {"sending", "aborting"}
        /\ GoTo(w, "aborting", "none") \/ GoTo(w, "finishing", "retry")
    BY <1>5 DEF Deadline, SettleAborted
  <2> QED BY <1>1, <1>2, <2>1
<1>6. ASSUME NEW w \in Workers, \E s : Drop(w, s)
      PROVE  \A v \in Workers : job'[v] # NoJob => True(v)
  BY <1>1, <1>6 DEF Drop, TypeOK
<1>7. ASSUME NEW w \in Workers, NEW r \in Revisions, Claim(w, r)
      PROVE  \A v \in Workers : job'[v] # NoJob => True(v)
  <2>1. job'[w].result = "none" /\ \A v \in Workers \ {w} : job'[v] = job[v]
    BY <1>7, ClaimedRows DEF TypeOK
  <2> QED BY <1>1, <2>1
<1>8. ASSUME UNCHANGED worker
      PROVE  \A v \in Workers : job'[v] # NoJob => True(v)
  BY <1>1, <1>8
<1>9. ASSUME NEW w \in Workers, Unresponsive(w) \/ CycleFails(w) \/ Restart(w) \/ Finish(w)
      PROVE  \E s : Drop(w, s)
  BY <1>9 DEF Unresponsive, CycleFails, Restart, Finish
<1>10. ASSUME \/ \E r \in Revisions : Enqueue(r) \/ TimePasses(r)
              \/ \E p \in Profiles : SetPreference(p) \/ DeleteAccount(p)
              \/ \E w \in Workers : Sweep(w)
              \/ \E f \in flights : Accept(f) \/ SettleAbandoned(f)
              \/ UNCHANGED vars
       PROVE  UNCHANGED worker
  BY <1>10 DEF Enqueue, TimePasses, SetPreference, DeleteAccount, Sweep, Accept, SettleAbandoned, vars
<1>11. \A v \in Workers : job'[v] # NoJob => True(v)
  BY <1>3, <1>4, <1>5, <1>6, <1>7, <1>8, <1>9, <1>10 DEF Next, Proceed
<1> QED BY <1>11 DEF ResultsAreTrue, Holds

LEMMA OutcomeStep ==
    ASSUME TypeOK, ForgottenIsOver, ResultsAreTrue, DeliveredWasAccepted, GivenUpWithCause,
           [Next]_vars
    PROVE  DeliveredWasAccepted' /\ GivenUpWithCause'
<1> SUFFICES ASSUME NEW r \in Revisions, row'[r] # NoRow
             PROVE  LET a == <<r, row'[r].attempts>>
                    IN  /\ row'[r].state = "delivered" => a \in accepted'
                        /\ row'[r].state = "dead" /\ row'[r].attempts < MaxAttempts => a \in refusals'
  BY DEF DeliveredWasAccepted, GivenUpWithCause, Stored
<1>1. Move(r) /\ (row[r] = NoRow \/ row[r] \in Row)
  BY RowMoves DEF TypeOK
<1>2. CASE /\ row[r] # NoRow /\ row'[r].state = row[r].state
           /\ row'[r].attempts = row[r].attempts
  BY <1>2, HistoryStays DEF DeliveredWasAccepted, GivenUpWithCause, Stored
<1>3. CASE Enqueued(r) \/ Leased(r)
  BY <1>3 DEF Enqueued, Leased
<1>4. CASE CleanedUp(r, row'[r])
  <2>1. row[r].attempts \in Nat /\ MaxAttempts \in Nat
    BY <1>1, <1>4, OutboxAssumption DEF CleanedUp, Row
  <2> QED BY <1>4, <2>1 DEF CleanedUp
<1>5. ASSUME NEW w \in Workers, FinishedBy(w, r)
      PROVE  LET a == <<r, row'[r].attempts>>
             IN  /\ row'[r].state = "delivered" => a \in accepted'
                 /\ row'[r].state = "dead" /\ row'[r].attempts < MaxAttempts => a \in refusals'
  <2>1. /\ job[w] # NoJob /\ job[w].rev = r /\ row'[r].attempts = job[w].token
        /\ row'[r].attempts = row[r].attempts /\ row[r] # NoRow /\ Holds(w, job[w].rev)
    BY <1>5 DEF FinishedBy, Holds, Stored
  <2>2. row[r].attempts \in Nat /\ MaxAttempts \in Nat
    BY <1>1, <2>1, OutboxAssumption DEF Row
  <2>3. row'[r].state = "delivered" => <<r, job[w].token>> \in accepted
    BY <1>5, <2>1 DEF FinishedBy, ResultsAreTrue
  <2>4. row'[r].state = "dead" /\ row'[r].attempts < MaxAttempts => <<r, job[w].token>> \in refusals
    <3>1. row[r].attempts < MaxAttempts => ~(row[r].attempts >= MaxAttempts)
      BY <2>2
    <3>2. row'[r].state = "dead" /\ row'[r].attempts < MaxAttempts => job[w].result = "permanent"
      BY <1>5, <2>1, <3>1 DEF FinishedBy
    <3> QED BY <2>1, <3>2 DEF ResultsAreTrue
  <2> QED BY <2>1, <2>3, <2>4, HistoryStays
<1>6. CASE Elapsed(r)
  BY <1>2, <1>6 DEF Elapsed
<1>7. CASE row'[r] = row[r]
  BY <1>2, <1>7
<1> QED BY <1>1, <1>3, <1>4, <1>5, <1>6, <1>7 DEF Move, Removed

------------------------------------------------------------------------------
LEMMA InvInit == Init => Inv
<1> SUFFICES ASSUME Init PROVE Inv
  OBVIOUS
<1>1. TypeOK
  BY OutboxAssumption DEF Init, TypeOK
<1>2. QueueCountsMatch
  <2>1. Stored(row) = {} /\ Waiting(row) = {} /\ \A p \in Profiles : Of(Waiting(row), p) = {}
    BY DEF Init, Stored, Waiting, Of
  <2> QED BY <2>1, FS_EmptySet DEF Init, QueueCountsMatch
<1>3. /\ CallsAreWaitedFor /\ AttemptsAreUnique /\ AttemptsAreCounted /\ ForgottenIsOver
      /\ ResultsAreTrue /\ DeliveredWasAccepted /\ GivenUpWithCause
  BY DEF Init, CallsAreWaitedFor, AttemptsAreUnique, AttemptsAreCounted, ForgottenIsOver,
         ResultsAreTrue, DeliveredWasAccepted, GivenUpWithCause, Stored
<1> QED BY <1>1, <1>2, <1>3 DEF Inv

LEMMA InvStep == Inv /\ [Next]_vars => Inv'
<1> SUFFICES ASSUME Inv, [Next]_vars PROVE Inv'
  OBVIOUS
<1>1. TypeOK'
  BY TypeStep DEF Inv
<1> QED
  BY <1>1, CountStep, CallsStep, UniqueStep, CountedStep, ForgottenStep, ResultsStep, OutcomeStep
  DEF Inv

\* The inductive invariant holds in every behaviour of the outbox.
THEOREM Invariance == Spec => []Inv
<1>1. Init => Inv
  BY InvInit
<1>2. Inv /\ [Next]_vars => Inv'
  BY InvStep
<1> QED BY <1>1, <1>2, PTL DEF Spec

\* Every variable keeps its type; above all no counter passes its cap, which
\* is the capacity track_queue_count enforces.
THEOREM TypeCorrect == Spec => []TypeOK
<1>1. Inv => TypeOK
  BY DEF Inv
<1> QED BY <1>1, Invariance, PTL

\* The three counters of track_queue_count are the numbers of rows they stand
\* for, through claims, clean-ups, results and cascading deletions.
THEOREM CountersAreExact == Spec => []QueueCountsMatch
<1>1. Inv => QueueCountsMatch
  BY DEF Inv
<1> QED BY <1>1, Invariance, PTL

\* A process never has two provider calls out at once (sendWithDeadline,
\* senderBlocked).
THEOREM OneSend == Spec => []OneSendPerWorker
<1>1. Inv => OneSendPerWorker
  <2> SUFFICES ASSUME Inv, NEW w \in Workers PROVE Cardinality(Flying(w)) <= 1
    BY DEF OneSendPerWorker
  <2>1. \A f, g \in Flying(w) : f = g
    BY OutboxAssumption DEF Inv, CallsAreWaitedFor, Flying
  <2>2. CASE Flying(w) = {}
    BY <2>2, FS_EmptySet
  <2>3. ASSUME NEW f, f \in Flying(w)
        PROVE  Cardinality(Flying(w)) <= 1
    <3>1. Flying(w) = {f}
      BY <2>1, <2>3
    <3> QED BY <3>1, FS_Singleton
  <2> QED BY <2>2, <2>3
<1> QED BY <1>1, Invariance, PTL

\* Only a push the provider took in the recorded attempt is ever marked
\* delivered (finish, deliver).
THEOREM Delivered == Spec => []DeliveredWasAccepted
<1>1. Inv => DeliveredWasAccepted
  BY DEF Inv
<1> QED BY <1>1, Invariance, PTL

\* Every call belongs to an attempt of its own, and the row counts it (claim).
THEOREM SendsAreAttempts == Spec => []EverySendIsAnAttempt
<1>1. Inv => EverySendIsAnAttempt
  BY DEF Inv, AttemptsAreUnique, AttemptsAreCounted, EverySendIsAnAttempt, Stored
<1> QED BY <1>1, Invariance, PTL

\* Nothing is given up early because a lease was lost (deliver, allowed,
\* finish).
THEOREM GivenUp == Spec => []GivenUpWithCause
<1>1. Inv => GivenUpWithCause
  BY DEF Inv
<1> QED BY <1>1, Invariance, PTL

\* A push that has ended stays as it ended until it is forgotten, whatever late
\* results still come (finish, claim).
THEOREM EndsStay == Spec => EndedPushesStay
<1>1. ASSUME Inv, [Next]_vars
      PROVE  [\A r \in Stored(row) :
                 row[r].state \in Ended /\ row'[r] # NoRow =>
                     row'[r].state = row[r].state /\ row'[r].attempts = row[r].attempts]_vars
  <2> SUFFICES ASSUME NEW r \in Revisions, row[r] # NoRow, row[r].state \in Ended, row'[r] # NoRow
               PROVE  row'[r].state = row[r].state /\ row'[r].attempts = row[r].attempts
    BY DEF Stored
  <2>1. Move(r)
    BY <1>1, RowMoves DEF Inv
  <2>2. row[r].state \notin Active
    BY DEF Active, Ended
  <2> QED BY <2>1, <2>2
          DEF Move, Enqueued, Removed, CleanedUp, Leased, FinishedBy, Elapsed, Holds, Stored, Active
<1> QED BY <1>1, Invariance, PTL DEF Spec, EndedPushesStay

------------------------------------------------------------------------------
\* The refinement of PushDelivery.

\* Only the provider adds to its history, and then no row changes.
LEMMA AcceptedGrows ==
    ASSUME TypeOK, [Next]_vars
    PROVE  \/ accepted' \subseteq accepted
           \/ /\ row' = row
              /\ \E f \in flights : accepted' = accepted \cup {<<f.rev, f.attempt>>}
<1> USE DEF world, table, worker, history
<1>1. ASSUME NEW w \in Workers, NEW r \in Revisions, Claim(w, r)
      PROVE  accepted' \subseteq accepted
  BY <1>1 DEF Claim, ForgetHistory
<1>2. ASSUME NEW w \in Workers, Sweep(w)
      PROVE  accepted' \subseteq accepted
  BY <1>2 DEF Sweep, ForgetHistory
<1>3. ASSUME NEW f \in flights, Accept(f)
      PROVE  row' = row /\ accepted' = accepted \cup {<<f.rev, f.attempt>>}
  BY <1>3 DEF Accept
<1>4. ASSUME NEW w \in Workers, Settle(w) \/ SettleAborted(w) \/ Restart(w) \/ Check(w)
                                \/ Deadline(w) \/ Unresponsive(w) \/ Finish(w) \/ CycleFails(w)
      PROVE  accepted' \subseteq accepted
  BY <1>4 DEF Settle, SettleAborted, Restart, Check, Deadline, Unresponsive, Finish, CycleFails
<1>5. ASSUME \/ UNCHANGED vars
             \/ \E r \in Revisions : Enqueue(r) \/ TimePasses(r)
             \/ \E p \in Profiles : SetPreference(p) \/ DeleteAccount(p)
             \/ \E f \in flights : SettleAbandoned(f)
      PROVE  accepted' \subseteq accepted
  BY <1>5 DEF Enqueue, TimePasses, SetPreference, DeleteAccount, SettleAbandoned, vars
<1> QED
  BY <1>1, <1>2, <1>3, <1>4, <1>5 DEF Next, Proceed

\* The calls of a push that leaves the table, or stays in it, are kept or all
\* forgotten; none is added unless the provider takes one.
LEMMA TakenMoves ==
    ASSUME TypeOK, [Next]_vars, accepted' \subseteq accepted, NEW r \in Revisions
    PROVE  /\ Taken[r] \in SUBSET (1..MaxAttempts) /\ Taken'[r] \subseteq Taken[r]
           /\ ~Lost(r) => Taken'[r] = Taken[r]
           /\ row[r] # NoRow /\ row'[r] = NoRow /\ Recipient[r] \in accounts' => Taken'[r] = {}
<1>1. /\ Taken[r] = {n \in 1..MaxAttempts : <<r, n>> \in accepted}
      /\ Taken'[r] = {n \in 1..MaxAttempts : <<r, n>> \in accepted'}
  BY DEF Taken
<1>2. ASSUME NEW n, <<r, n>> \in accepted
      PROVE  <<r, n>> \in accepted' \/ Lost(r)
  BY <1>2, HistoryMoves
<1>3. ASSUME NEW n, <<r, n>> \in accepted', row'[r] = NoRow, Recipient[r] \in accounts'
      PROVE  row[r] = NoRow
  BY <1>3, HistoryMoves
<1> QED BY <1>1, <1>2, <1>3

\* What one row does is what PushDelivery allows of its push.
LEMMA PushStep ==
    ASSUME Inv, [Next]_vars, accepted' \subseteq accepted, NEW r \in Revisions
    PROVE  \/ Delivery!Keep(r) \/ Delivery!Submit(r) \/ Delivery!Deliver(r)
           \/ Delivery!Drop(r) \/ Delivery!Forget(r) \/ Delivery!Remove(r)
<1>1. TypeOK /\ ForgottenIsOver /\ ResultsAreTrue
  BY DEF Inv
<1>2. Move(r)
  BY <1>1, RowMoves
<1>3. /\ Taken'[r] \subseteq Taken[r]
      /\ ~Lost(r) => Taken'[r] = Taken[r]
      /\ row[r] # NoRow /\ row'[r] = NoRow /\ Recipient[r] \in accounts' => Taken'[r] = {}
  BY <1>1, TakenMoves
<1>4. /\ Status[r] = IF row[r] = NoRow THEN "none"
                     ELSE IF row[r].state \in Active THEN "waiting"
                     ELSE IF row[r].state = "delivered" THEN "delivered" ELSE "dropped"
      /\ Status'[r] = IF row'[r] = NoRow THEN "none"
                      ELSE IF row'[r].state \in Active THEN "waiting"
                      ELSE IF row'[r].state = "delivered" THEN "delivered" ELSE "dropped"
  BY DEF Status
<1>5. NoRow \notin Row
  BY NullAssumption
<1>6. row[r] # NoRow => row[r] \in Row
  BY <1>1 DEF TypeOK
<1>7. CASE row'[r] # NoRow /\ row'[r] = row[r]
  BY <1>3, <1>4, <1>7 DEF Lost, Delivery!Keep
<1>8. CASE row'[r] = NoRow /\ row[r] = NoRow
  BY <1>3, <1>4, <1>8 DEF Lost, Delivery!Keep
<1>9. CASE Enqueued(r)
  <2>1. row'[r] # NoRow
    <3>1. [state |-> "pending", attempts |-> 0, due |-> TRUE] \in Row
      BY OutboxAssumption DEF Row, Active
    <3> QED BY <1>5, <1>9, <3>1 DEF Enqueued
  <2>2. Taken[r] = {}
    BY <1>1, <1>9 DEF Enqueued, ForgottenIsOver, Taken
  <2>3. Taken'[r] = {} /\ Status[r] = "none" /\ Status'[r] = "waiting"
    BY <1>3, <1>4, <1>9, <2>1, <2>2 DEF Enqueued, Active
  <2> QED BY <1>9, <2>2, <2>3 DEF Enqueued, Delivery!Submit
<1>10. CASE Removed(r)
  <2>1. CASE Recipient[r] \in accounts'
    <3>1. Taken'[r] = {} /\ Forgotten(r)
      BY <1>3, <1>10, <2>1 DEF Removed
    <3>2. Status[r] \in {"delivered", "dropped"} /\ Status'[r] = "none"
      BY <1>4, <1>10, <3>1 DEF Removed, Forgotten, Ended, Active
    <3> QED BY <3>1, <3>2 DEF Delivery!Forget, Delivery!Ends
  <2>2. CASE Recipient[r] \notin accounts'
    <3>1. Status[r] # "none" /\ Status'[r] = "none"
      BY <1>4, <1>10 DEF Removed
    <3> QED BY <1>3, <2>2, <3>1 DEF Delivery!Remove
  <2> QED BY <2>1, <2>2
<1>11. CASE row'[r] # NoRow /\ CleanedUp(r, row'[r])
  BY <1>3, <1>4, <1>11 DEF CleanedUp, Lost, Active, Delivery!Drop, Delivery!Becomes
<1>12. CASE row'[r] # NoRow /\ Leased(r)
  BY <1>3, <1>4, <1>12 DEF Leased, Lost, Active, Delivery!Keep
<1>13. CASE row'[r] # NoRow /\ Elapsed(r)
  BY <1>3, <1>4, <1>13 DEF Elapsed, Lost, Delivery!Keep
<1>14. ASSUME row'[r] # NoRow, NEW w \in Workers, FinishedBy(w, r)
       PROVE  Delivery!Keep(r) \/ Delivery!Deliver(r) \/ Delivery!Drop(r)
  <2>1. Taken'[r] = Taken[r] /\ Status[r] = "waiting"
    BY <1>3, <1>4, <1>14 DEF FinishedBy, Holds, Lost, Stored, Active
  <2>2. CASE row'[r].state = "delivered"
    <3>1. job[w].token \in 1..MaxAttempts /\ <<r, job[w].token>> \in accepted
      BY <1>1, <1>14, <2>2 DEF FinishedBy, ResultsAreTrue, TypeOK, Job
    <3>2. Taken[r] # {}
      BY <3>1 DEF Taken
    <3> QED BY <1>4, <1>14, <2>1, <2>2, <3>2
            DEF Active, Delivery!Deliver, Delivery!Becomes
  <2>3. CASE row'[r].state = "dead"
    BY <1>4, <1>14, <2>1, <2>3 DEF Active, Delivery!Drop, Delivery!Becomes
  <2>4. CASE row'[r].state = "pending"
    BY <1>4, <1>14, <2>1, <2>4 DEF Active, Delivery!Keep
  <2> QED BY <1>14, <2>2, <2>3, <2>4 DEF FinishedBy
<1>15. CASE row'[r] # NoRow /\ \E w \in Workers : FinishedBy(w, r)
  BY <1>14, <1>15
<1>16. row'[r] = NoRow => row'[r] = row[r] \/ Enqueued(r) \/ Removed(r) \/ Elapsed(r)
  BY <1>2 DEF Move
<1>17. row'[r] = NoRow => ~Elapsed(r)
  BY DEF Elapsed
<1> QED
  BY <1>2, <1>7, <1>8, <1>9, <1>10, <1>11, <1>12, <1>13, <1>15, <1>16, <1>17 DEF Move

LEMMA DeliveryStep ==
    ASSUME Inv, Inv', [Next]_vars
    PROVE  [Delivery!Next]_<<{r \in Revisions : Recipient[r] \in accounts}, Status, Taken>>
<1> DEFINE knows == {r \in Revisions : Recipient[r] \in accounts}
<1>1. knows' \subseteq knows
  BY RowMoves DEF Inv
<1>2. /\ Status' \in [Revisions -> {"delivered", "dropped", "none", "waiting"}]
      /\ Taken' \in [Revisions -> SUBSET (1..MaxAttempts)]
  BY DEF Status, Taken
<1>3. ASSUME NEW r \in Revisions
      PROVE  \/ Delivery!Keep(r) \/ Delivery!Submit(r) \/ Delivery!Take(r) \/ Delivery!Deliver(r)
             \/ Delivery!Drop(r) \/ Delivery!Forget(r) \/ Delivery!Remove(r)
  <2>1. CASE accepted' \subseteq accepted
    BY <2>1, PushStep
  <2>2. ASSUME NEW f \in flights, row' = row, accepted' = accepted \cup {<<f.rev, f.attempt>>}
        PROVE  Delivery!Keep(r) \/ Delivery!Take(r)
    <3>1. f.attempt \in 1..MaxAttempts
      BY DEF Inv, TypeOK, Flight
    <3>2. Status'[r] = Status[r]
      BY <2>2 DEF Status
    <3>3. /\ Taken[r] = {n \in 1..MaxAttempts : <<r, n>> \in accepted}
          /\ Taken'[r] = {n \in 1..MaxAttempts : <<r, n>> \in accepted'}
      BY DEF Taken
    <3>4. CASE f.rev = r /\ <<r, f.attempt>> \notin accepted
      <4>1. Taken'[r] = Taken[r] \cup {f.attempt} /\ f.attempt \in (1..MaxAttempts) \ Taken[r]
        BY <2>2, <3>1, <3>3, <3>4
      <4> QED BY <3>2, <4>1 DEF Delivery!Take
    <3>5. CASE ~(f.rev = r /\ <<r, f.attempt>> \notin accepted)
      <4>1. Taken'[r] = Taken[r]
        BY <2>2, <3>3, <3>5
      <4> QED BY <3>2, <4>1 DEF Delivery!Keep
    <3> QED BY <3>4, <3>5
  <2> QED BY <2>1, <2>2, AcceptedGrows DEF Inv
<1> QED BY <1>1, <1>2, <1>3 DEF Delivery!Next, Delivery!Ends

\* The outbox implements PushDelivery, for any workers, pushes, accounts,
\* attempts and caps (claim, deliver, finish and the clean-up together).
THEOREM Implementation == Spec => DeliveryIsImplemented
<1>1. Init => Delivery!Init
  BY OutboxAssumption DEF Init, Delivery!Init, Status, Taken
<1>2. Inv /\ Inv' /\ [Next]_vars => [Delivery!Next]_Delivery!vars
  BY DeliveryStep DEF Delivery!vars
<1> QED BY <1>1, <1>2, Invariance, PTL DEF Spec, DeliveryIsImplemented, Delivery!Spec

==============================================================================
