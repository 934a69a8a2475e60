------------------------ MODULE RefreshRotationProofs ------------------------
(* Proofs about RefreshRotation: its types, that a rotation has one successor,  *)
(* that answers belong to the request that gets them, and that a client which  *)
(* keeps its request id keeps its session.                                     *)
EXTENDS RefreshRotation, TLAPS

\* The rows form chains: a successor is younger than the row it was made from,
\* which is spent and has no other.
RowsInOrder ==
    \A c \in Issued : token[c].parent # None =>
        LET p == token[c].parent
        IN  /\ p \in Issued /\ p # c
            /\ token[p].revoked /\ token[p].device = token[c].device
            /\ \A d \in Issued : token[d].parent = p => d = c

\* What a handler works on, in the order of its steps.
JobInOrder(h) ==
    LET j == job[h]
    IN  /\ j.kind = "revoke" => j.token = None /\ j.at # "verify"
        /\ j.kind # "revoke" => j.token \in Issued /\ j.scope = {token[j.token].device}
        /\ j.kind # "refresh" => j.req = None /\ j.at \notin {"rotate", "locked"}
        /\ j.at # "answer" => j.answer = None
        /\ j.rows \subseteq Issued /\ \A t \in j.rows : token[t].device \in j.scope
        /\ j.answer \in Tokens =>
              /\ j.kind = "refresh" /\ j.answer \in Issued
              /\ token[j.answer].parent = j.token /\ token[j.answer].req = j.req

JobsInOrder == \A h \in Handlers : job[h] # None => JobInOrder(h)

\* A client holds a token of its own device.
StoredAreOwn ==
    \A d \in Devices : stored[d] # None => stored[d] \in Issued /\ token[stored[d]].device = d

\* Nobody has used a successor before the client stores it.
SuccessorsUntouched ==
    \A d \in Devices, c \in Issued : stored[d] # None /\ token[c].parent = stored[d] =>
        /\ \A h \in Handlers : job[h] # None => job[h].token # c
        /\ \A e \in Issued : token[e].parent # c

\* Every refresh of the token the client holds carries the id the client kept.
IdsAreKept ==
    \A d \in Devices \ excused, h \in Handlers :
        stored[d] # None /\ job[h] # None /\ job[h].token = stored[d] =>
            kept[d] # None /\ kept[d].token = stored[d] /\ kept[d].req = job[h].req

\* Where no session was ended, no revocation is under way.
EndingsAreExcused == \A d \in Devices \ excused : ~Ending(d)

Inv ==
    /\ TypeOK /\ RowsInOrder /\ JobsInOrder /\ StoredAreOwn /\ SuccessorsUntouched
    /\ IdsAreKept /\ EndingsAreExcused /\ SessionsSurvive

------------------------------------------------------------------------------
\* Types.

LEMMA AskTypes ==
  ASSUME TypeOK, NEW h \in Handlers, NEW kind \in {"refresh", "logout", "revoke"},
         NEW scope \in SUBSET Devices, NEW t \in Tokens \cup {None},
         NEW r \in Requests \cup {None}, Ask(h, kind, scope, t, r)
  PROVE  job' \in [Handlers -> Job \cup {None}]
  BY DEF Ask, TypeOK, Job, Steps

LEMMA MoveTypes ==
  ASSUME TypeOK, NEW h \in Handlers, job[h] # None, NEW s \in Steps, Move(h, s)
  PROVE  job' \in [Handlers -> Job \cup {None}]
  BY DEF Move, TypeOK, Job

LEMMA AnswerTypes ==
  ASSUME TypeOK, NEW h \in Handlers, job[h] # None,
         NEW a \in Tokens \cup {"rejected", "malformed"}, Answer(h, a)
  PROVE  job' \in [Handlers -> Job \cup {None}]
  <1>1. [job[h] EXCEPT !.at = "answer", !.answer = a] \in Job
    BY DEF TypeOK, Job, Steps
  <1> QED BY <1>1 DEF Answer, TypeOK

LEMMA RevokeTypes ==
  ASSUME TypeOK, NEW rows \in SUBSET Issued, Revoke(rows)
  PROVE  token' \in [Tokens -> Row \cup {None}]
  <1>1. \A r \in Row : [r EXCEPT !.revoked = TRUE] \in Row
    BY DEF Row
  <1>2. \A t \in Tokens : token[t] \in Row \cup {None} /\ (t \in rows => token[t] \in Row)
    BY DEF TypeOK, Issued
  <1> QED BY <1>1, <1>2 DEF Revoke

LEMMA RotateTypes ==
  ASSUME TypeOK, JobsInOrder, NEW h \in Handlers, Rotate(h)
  PROVE  token' \in [Tokens -> Row \cup {None}] /\ job' \in [Handlers -> Job \cup {None}]
  <1> DEFINE t == job[h].token
  <1>1. /\ job[h] # None /\ job[h] \in Job /\ t \in Tokens /\ token[t] \in Row
        /\ job[h].req \in Requests \cup {None}
    BY DEF Rotate, TypeOK, Job, JobsInOrder, JobInOrder, Issued
  <1> HIDE DEF t
  <1>2. CASE UNCHANGED token
    <2>1. PICK a \in Tokens \cup {"rejected", "malformed"} : Answer(h, a)
      BY <1>2 DEF Rotate, Recovered, Issued
    <2> QED BY <1>1, <1>2, <2>1, AnswerTypes DEF TypeOK
  <1>3. ASSUME NEW c \in Tokens \ Issued, Answer(h, c),
               token' = [token EXCEPT ![t].revoked = TRUE,
                   ![c] = [device |-> token[t].device, parent |-> t, req |-> job[h].req,
                           revoked |-> FALSE, expired |-> FALSE]]
        PROVE  token' \in [Tokens -> Row \cup {None}] /\ job' \in [Handlers -> Job \cup {None}]
    <2>1. job' \in [Handlers -> Job \cup {None}]
      BY <1>1, <1>3, AnswerTypes
    <2>2. /\ [device |-> token[t].device, parent |-> t, req |-> job[h].req,
              revoked |-> FALSE, expired |-> FALSE] \in Row
          /\ [token[t] EXCEPT !.revoked = TRUE] \in Row
      BY <1>1 DEF Row
    <2>3. token' \in [Tokens -> Row \cup {None}]
      BY <1>1, <1>3, <2>2 DEF TypeOK, Issued
    <2> QED BY <2>1, <2>3
  <1> QED BY <1>2, <1>3 DEF Rotate, t

LEMMA VerifyTypes ==
  ASSUME TypeOK, JobsInOrder, NEW h \in Handlers, Verify(h)
  PROVE  /\ token' \in [Tokens -> Row \cup {None}] /\ job' \in [Handlers -> Job \cup {None}]
         /\ excused' \subseteq Devices
  <1>1. job[h] # None /\ job[h].token \in Issued
    BY DEF Verify, JobsInOrder, JobInOrder, TypeOK, Job
  <1>2. token[job[h].token].device \in Devices
    BY <1>1 DEF TypeOK, Row, Issued
  <1>3. token' = token \/ Revoke({job[h].token})
    BY DEF Verify
  <1>4. \/ \E s \in Steps : Move(h, s)
        \/ \E a \in {"rejected", "malformed"} : Answer(h, a)
    BY DEF Verify, Steps
  <1>5. token' \in [Tokens -> Row \cup {None}]
    BY <1>1, <1>3, RevokeTypes DEF TypeOK
  <1>6. job' \in [Handlers -> Job \cup {None}]
    BY <1>1, <1>4, MoveTypes, AnswerTypes
  <1>7. excused' = excused \/ excused' = excused \cup {token[job[h].token].device}
    BY DEF Verify
  <1> QED BY <1>2, <1>5, <1>6, <1>7 DEF TypeOK

LEMMA TypeStep ==
  ASSUME TypeOK, JobsInOrder, StoredAreOwn, [Next]_vars
  PROVE  TypeOK'
  <1>1. ASSUME NEW d \in Devices, NEW t \in Tokens, SignIn(d, t) PROVE TypeOK'
    <2>1. [device |-> d, parent |-> None, req |-> None, revoked |-> FALSE, expired |-> FALSE] \in Row
      BY DEF Row
    <2> QED BY <1>1, <2>1 DEF SignIn, TypeOK
  <1>2. ASSUME NEW d \in Devices, NEW h \in Handlers, NEW r \in Requests, Refresh(d, h, r)
        PROVE  TypeOK'
    <2>1. stored[d] \in Tokens /\ Ask(h, "refresh", {d}, stored[d], r)
      BY <1>2 DEF Refresh, TypeOK
    <2>2. job' \in [Handlers -> Job \cup {None}]
      BY <2>1, AskTypes
    <2> QED BY <1>2, <2>1, <2>2 DEF Refresh, TypeOK, Kept
  <1>3. ASSUME NEW d \in Devices, NEW h \in Handlers, RefreshOnce(d, h) PROVE TypeOK'
    <2>1. stored[d] \in Tokens /\ Ask(h, "refresh", {d}, stored[d], None)
      BY <1>3 DEF RefreshOnce, TypeOK
    <2>2. job' \in [Handlers -> Job \cup {None}]
      BY <2>1, AskTypes
    <2> QED BY <1>3, <2>2 DEF RefreshOnce, TypeOK
  <1>4. ASSUME NEW d \in Devices, GiveUp(d) PROVE TypeOK'
    BY <1>4 DEF GiveUp, TypeOK
  <1>5. ASSUME NEW d \in Devices, NEW h \in Handlers, SignOut(d, h) PROVE TypeOK'
    <2>1. stored[d] \in Tokens /\ Ask(h, "logout", {d}, stored[d], None)
      BY <1>5 DEF SignOut, TypeOK
    <2>2. job' \in [Handlers -> Job \cup {None}]
      BY <2>1, AskTypes
    <2> QED BY <1>5, <2>2 DEF SignOut, TypeOK
  <1>6. ASSUME NEW scope \in (SUBSET Devices) \ {{}}, NEW h \in Handlers, RevokeDevices(scope, h)
        PROVE  TypeOK'
    <2>1. job' \in [Handlers -> Job \cup {None}]
      BY <1>6, AskTypes DEF RevokeDevices
    <2> QED BY <1>6, <2>1 DEF RevokeDevices, TypeOK, clients
  <1>7. ASSUME NEW h \in Handlers, Verify(h) PROVE TypeOK'
    BY <1>7, VerifyTypes DEF Verify, TypeOK, clients
  <1>8. ASSUME NEW h \in Handlers, Lock(h) PROVE TypeOK'
    <2>1. job' \in [Handlers -> Job \cup {None}]
      BY <1>8, MoveTypes DEF Lock, Steps
    <2> QED BY <1>8, <2>1 DEF Lock, TypeOK, clients
  <1>9. ASSUME NEW h \in Handlers, Rotate(h) PROVE TypeOK'
    BY <1>9, RotateTypes DEF Rotate, TypeOK, clients
  <1>10. ASSUME NEW h \in Handlers, RevokeStarts(h) PROVE TypeOK'
    <2>1. job' \in [Handlers -> Job \cup {None}]
      <3>1. job[h] # None /\ job[h] \in Job /\ Unrevoked(job[h].scope) \in SUBSET Tokens
        BY <1>10 DEF RevokeStarts, TypeOK, Unrevoked, Issued
      <3>2. [job[h] EXCEPT !.at = "revoking", !.rows = Unrevoked(job[h].scope)] \in Job
        BY <3>1 DEF Job, Steps
      <3>3. job' = [job EXCEPT ![h] = [job[h] EXCEPT !.at = "revoking",
                                                    !.rows = Unrevoked(job[h].scope)]]
        BY <1>10, <3>1 DEF RevokeStarts, TypeOK
      <3> QED BY <3>2, <3>3 DEF TypeOK
    <2> QED BY <1>10, <2>1 DEF RevokeStarts, TypeOK, clients
  <1>11. ASSUME NEW h \in Handlers, RevokeEnds(h) PROVE TypeOK'
    <2>1. job' \in [Handlers -> Job \cup {None}]
      BY <1>11, AnswerTypes DEF RevokeEnds
    <2>2. job[h].rows \in SUBSET Issued
      BY <1>11 DEF RevokeEnds, JobsInOrder, JobInOrder
    <2>3. token' \in [Tokens -> Row \cup {None}]
      BY <1>11, <2>2, RevokeTypes DEF RevokeEnds
    <2> QED BY <1>11, <2>1, <2>3 DEF RevokeEnds, TypeOK, clients
  <1>12. ASSUME NEW h \in Handlers, Fail(h) PROVE TypeOK'
    BY <1>12 DEF Fail, TypeOK
  <1>13. ASSUME NEW d \in Devices, NEW h \in Handlers, Reply(d, h) PROVE TypeOK'
    BY <1>13 DEF Reply, Receive, TypeOK
  <1>14. ASSUME NEW t \in Tokens, Expire(t) PROVE TypeOK'
    <2>1. token[t] \in Row
      BY <1>14 DEF Expire, TypeOK, Issued
    <2>2. [token[t] EXCEPT !.expired = TRUE] \in Row /\ token[t].device \in Devices
      BY <2>1 DEF Row
    <2> QED BY <1>14, <2>2 DEF Expire, TypeOK, clients
  <1>15. CASE UNCHANGED vars
    BY <1>15 DEF TypeOK, vars, clients
  <1> QED BY <1>1, <1>2, <1>3, <1>4, <1>5, <1>6, <1>7, <1>8, <1>9, <1>10, <1>11, <1>12,
             <1>13, <1>14, <1>15 DEF Next

------------------------------------------------------------------------------
\* What a step does to the rows.

\* Nothing of a row changes but that it is spent or expires.
RowStays(c) ==
    /\ c \in Issued'
    /\ token'[c].device = token[c].device /\ token'[c].parent = token[c].parent
    /\ token'[c].req = token[c].req
    /\ token[c].revoked => token'[c].revoked
    /\ token[c].expired => token'[c].expired

\* The rotation of a usable row gives it a successor.
Succeeds(h, c) ==
    LET t == job[h].token
    IN  /\ Usable(t)
        /\ token' = [token EXCEPT ![t].revoked = TRUE,
               ![c] = [device |-> token[t].device, parent |-> t, req |-> job[h].req,
                       revoked |-> FALSE, expired |-> FALSE]]
        /\ Answer(h, c)

LEMMA RevokeStays ==
  ASSUME TypeOK, NEW rows \in SUBSET Issued, Revoke(rows), NEW c \in Issued
  PROVE  /\ RowStays(c)
         /\ c \notin rows => token'[c] = token[c]
         /\ token'[c].expired = token[c].expired
  <1>1. c \in Tokens /\ token[c] \in Row /\ token'[c] \in Row \cup {None}
    BY RevokeTypes DEF TypeOK, Issued
  <1>2. token'[c] = IF c \in rows THEN [token[c] EXCEPT !.revoked = TRUE] ELSE token[c]
    BY <1>1 DEF Revoke
  <1>3. CASE c \in rows
    <2>1. [token[c] EXCEPT !.revoked = TRUE] \in Row
      BY <1>1 DEF Row
    <2>2. c \in Issued'
      BY <1>1, <1>2, <1>3, <2>1, RecordsAssumption DEF Issued
    <2> QED BY <1>1, <1>2, <1>3, <2>2 DEF RowStays, Row
  <1>4. CASE c \notin rows
    BY <1>2, <1>4 DEF RowStays, Issued
  <1> QED BY <1>3, <1>4

LEMMA RotateCases ==
  ASSUME TypeOK, JobsInOrder, NEW h \in Handlers, Rotate(h)
  PROVE  /\ job[h] # None /\ job[h].at = "locked" /\ job[h].token \in Issued
         /\ job[h].kind = "refresh"
         /\ \/ UNCHANGED token /\ Answer(h, "rejected")
            \/ UNCHANGED token /\ \E a \in Recovered(job[h].token, job[h].req) : Answer(h, a)
            \/ \E c \in Tokens \ Issued : Succeeds(h, c)
  <1>1. job[h] # None /\ job[h].at = "locked"
    BY DEF Rotate
  <1>2. job[h] \in Job /\ JobInOrder(h)
    BY <1>1 DEF JobsInOrder, TypeOK
  <1>3. job[h].kind = "refresh" /\ job[h].token \in Issued
    BY <1>1, <1>2 DEF JobInOrder, Job
  <1> QED BY <1>1, <1>3 DEF Rotate, Succeeds

LEMMA SuccessorRow ==
  ASSUME TypeOK, NEW h \in Handlers, job[h] # None, job[h].token \in Issued,
         NEW c \in Tokens \ Issued, Succeeds(h, c)
  PROVE  /\ Issued' = Issued \cup {c}
         /\ token'[c] = [device |-> token[job[h].token].device, parent |-> job[h].token,
                         req |-> job[h].req, revoked |-> FALSE, expired |-> FALSE]
         /\ token'[job[h].token] = [token[job[h].token] EXCEPT !.revoked = TRUE]
         /\ \A d \in Tokens \ {c, job[h].token} : token'[d] = token[d]
         /\ \A d \in Issued : RowStays(d)
  <1> DEFINE t == job[h].token
             new == [device |-> token[t].device, parent |-> t, req |-> job[h].req,
                     revoked |-> FALSE, expired |-> FALSE]
             spent == [token[t] EXCEPT !.revoked = TRUE]
  <1>1. t \in Tokens /\ t # c /\ token[t] \in Row /\ job[h].req \in Requests \cup {None}
    BY DEF TypeOK, Issued, Job
  <1>2. new \in Row /\ spent \in Row
    BY <1>1 DEF Row
  <1>3. token'[c] = new /\ token'[t] = spent /\ \A d \in Tokens \ {c, t} : token'[d] = token[d]
    BY <1>1 DEF Succeeds, TypeOK
  <1>4. new # None /\ spent # None
    BY <1>2, RecordsAssumption
  <1>5. Issued' = Issued \cup {c}
    BY <1>1, <1>3, <1>4 DEF Issued
  <1>6. ASSUME NEW d \in Issued PROVE RowStays(d)
    <2>1. CASE d = t
      BY <1>1, <1>3, <1>5, <2>1 DEF RowStays, Row
    <2>2. CASE d # t
      BY <1>3, <1>5, <2>2 DEF RowStays, Issued
    <2> QED BY <2>1, <2>2
  <1> QED BY <1>3, <1>5, <1>6

LEMMA RowsStay ==
  ASSUME TypeOK, JobsInOrder, [Next]_vars, NEW c \in Issued
  PROVE  RowStays(c)
  <1>0. c \in Tokens /\ token[c] \in Row /\ token[c] # None
    BY DEF TypeOK, Issued
  <1>1. ASSUME token'[c] = token[c] PROVE RowStays(c)
    BY <1>0, <1>1 DEF RowStays, Issued
  <1>2. ASSUME NEW d \in Devices, NEW t \in Tokens, SignIn(d, t) PROVE RowStays(c)
    BY <1>0, <1>1, <1>2 DEF SignIn, TypeOK
  <1>3. ASSUME NEW h \in Handlers, Verify(h) PROVE RowStays(c)
    <2>1. UNCHANGED token \/ (job[h].token \in Issued /\ Revoke({job[h].token}))
      BY <1>3 DEF Verify, JobsInOrder, JobInOrder, TypeOK, Job
    <2> QED BY <1>1, <2>1, RevokeStays
  <1>4. ASSUME NEW h \in Handlers, Rotate(h) PROVE RowStays(c)
    BY <1>1, <1>4, RotateCases, SuccessorRow
  <1>5. ASSUME NEW h \in Handlers, RevokeEnds(h) PROVE RowStays(c)
    <2>1. job[h].rows \in SUBSET Issued /\ Revoke(job[h].rows)
      BY <1>5 DEF RevokeEnds, JobsInOrder, JobInOrder
    <2> QED BY <2>1, RevokeStays
  <1>6. ASSUME NEW t \in Tokens, Expire(t) PROVE RowStays(c)
    <2>1. CASE c = t
      <3>1. token'[c] = [token[c] EXCEPT !.expired = TRUE]
        BY <1>6, <2>1 DEF Expire, TypeOK
      <3>2. token'[c] \in Row
        BY <1>0, <3>1 DEF Row
      <3>3. c \in Issued'
        BY <1>0, <3>2, RecordsAssumption DEF Issued
      <3> QED BY <1>0, <3>1, <3>3 DEF RowStays, Row
    <2>2. CASE c # t
      BY <1>0, <1>1, <1>6, <2>2 DEF Expire, TypeOK
    <2> QED BY <2>1, <2>2
  <1> QED
    BY <1>1, <1>2, <1>3, <1>4, <1>5, <1>6
    DEF Next, Refresh, RefreshOnce, GiveUp, SignOut, RevokeDevices, Lock, RevokeStarts, Fail,
        Reply, vars

\* A row comes from a sign-in or a rotation.
LEMMA RowsCome ==
  ASSUME TypeOK, JobsInOrder, [Next]_vars, NEW c \in Issued', c \notin Issued
  PROVE  \/ \E d \in Devices : SignIn(d, c)
         \/ \E h \in Handlers : Rotate(h) /\ Succeeds(h, c)
  <1>0. c \in Tokens /\ token[c] = None /\ token'[c] # None
    BY DEF Issued
  <1>1. ASSUME NEW d \in Devices, NEW t \in Tokens, SignIn(d, t) PROVE c = t
    BY <1>0, <1>1 DEF SignIn, TypeOK
  <1>2. ASSUME NEW rows \in SUBSET Issued, Revoke(rows) PROVE FALSE
    BY <1>0, <1>2 DEF Revoke
  <1>3. ASSUME NEW h \in Handlers, Verify(h) PROVE FALSE
    <2>1. UNCHANGED token \/ (job[h].token \in Issued /\ Revoke({job[h].token}))
      BY <1>3 DEF Verify, JobsInOrder, JobInOrder, TypeOK, Job
    <2> QED BY <1>0, <1>2, <2>1
  <1>4. ASSUME NEW h \in Handlers, Rotate(h) PROVE Succeeds(h, c)
    <2>1. PICK d \in Tokens \ Issued : Succeeds(h, d)
      BY <1>0, <1>4, RotateCases
    <2>2. Issued' = Issued \cup {d}
      BY <1>4, <2>1, RotateCases, SuccessorRow
    <2> QED BY <2>1, <2>2
  <1>5. ASSUME NEW h \in Handlers, RevokeEnds(h) PROVE FALSE
    BY <1>2, <1>5 DEF RevokeEnds, JobsInOrder, JobInOrder
  <1>6. ASSUME NEW t \in Tokens, Expire(t) PROVE FALSE
    BY <1>0, <1>6 DEF Expire, TypeOK, Issued
  <1>7. ~UNCHANGED token
    BY <1>0
  <1> QED
    BY <1>1, <1>3, <1>4, <1>5, <1>6, <1>7
    DEF Next, Refresh, RefreshOnce, GiveUp, SignOut, RevokeDevices, Lock, RevokeStarts, Fail,
        Reply, vars

------------------------------------------------------------------------------
\* What a step does to a handler.

\* A request keeps what it asks for.
SameRequest(h) ==
    /\ job[h] # None
    /\ job'[h].kind = job[h].kind /\ job'[h].scope = job[h].scope
    /\ job'[h].token = job[h].token /\ job'[h].req = job[h].req

\* A request has come in.
Asked(h) ==
    \/ \E d \in Devices, r \in Requests : Refresh(d, h, r)
    \/ \E d \in Devices : RefreshOnce(d, h) \/ SignOut(d, h)
    \/ \E scope \in SUBSET Devices : RevokeDevices(scope, h)

Worked(h) == Verify(h) \/ Lock(h) \/ Rotate(h) \/ RevokeStarts(h) \/ RevokeEnds(h)

LEMMA JobMoves ==
  ASSUME TypeOK, [Next]_vars, NEW h \in Handlers, job'[h] # None
  PROVE  (job[h] # None /\ job'[h] = job[h]) \/ Asked(h) \/ Worked(h)
  <1> DEFINE Goal == (job[h] # None /\ job'[h] = job[h]) \/ Asked(h) \/ Worked(h)
  <1>1. ASSUME NEW g \in Handlers, Asked(g) PROVE Goal
    <2>1. CASE g # h
      BY <1>1, <2>1 DEF Asked, Refresh, RefreshOnce, SignOut, RevokeDevices, Ask, TypeOK
    <2> QED BY <1>1, <2>1
  <1>2. ASSUME NEW g \in Handlers, Worked(g) PROVE Goal
    <2>1. \A f \in Handlers \ {g} : job'[f] = job[f]
      BY <1>2 DEF Worked, Verify, Lock, Rotate, RevokeStarts, RevokeEnds, Move, Answer, TypeOK
    <2> QED BY <1>2, <2>1
  <1>3. CASE \E d \in Devices : GiveUp(d)
    BY <1>3 DEF GiveUp
  <1>4. CASE \E g \in Handlers : Fail(g)
    BY <1>4 DEF Fail, TypeOK
  <1>5. CASE \E d \in Devices, g \in Handlers : Reply(d, g)
    BY <1>5 DEF Reply, TypeOK
  <1>6. CASE UNCHANGED job
    BY <1>6
  <1>7. CASE \E g \in Handlers : Asked(g) \/ Worked(g)
    BY <1>1, <1>2, <1>7
  <1>8. \/ \E g \in Handlers : Asked(g) \/ Worked(g)
        \/ \E d \in Devices : GiveUp(d)
        \/ \E g \in Handlers : Fail(g)
        \/ \E d \in Devices, g \in Handlers : Reply(d, g)
        \/ UNCHANGED job
    BY DEF Next, Asked, Worked, SignIn, Expire, vars
  <1> QED BY <1>3, <1>4, <1>5, <1>6, <1>7, <1>8

LEMMA WorkKeepsRequest ==
  ASSUME TypeOK, NEW h \in Handlers, job'[h] # None, Worked(h)
  PROVE  SameRequest(h)
  <1>1. job[h] # None /\ job[h] \in Job
    BY DEF Worked, Verify, Lock, Rotate, RevokeStarts, RevokeEnds, TypeOK
  <1>2. ASSUME NEW s, Move(h, s) PROVE SameRequest(h)
    BY <1>1, <1>2 DEF Move, TypeOK, Job, SameRequest
  <1>3. ASSUME NEW a, Answer(h, a) PROVE SameRequest(h)
    <2>1. job'[h] = [job[h] EXCEPT !.at = "answer", !.answer = a]
      BY <1>3 DEF Answer, TypeOK
    <2> QED BY <1>1, <2>1 DEF Job, SameRequest
  <1>4. CASE RevokeStarts(h)
    <2>1. job'[h] = [job[h] EXCEPT !.at = "revoking", !.rows = Unrevoked(job[h].scope)]
      BY <1>1, <1>4 DEF RevokeStarts, TypeOK
    <2> QED BY <1>1, <2>1 DEF Job, SameRequest
  <1> QED BY <1>2, <1>3, <1>4 DEF Worked, Verify, Lock, Rotate, RevokeEnds

LEMMA AskedJob ==
  ASSUME TypeOK, JobsInOrder, StoredAreOwn, [Next]_vars, NEW h \in Handlers, Asked(h)
  PROVE  /\ job[h] = None /\ UNCHANGED token
         /\ job'[h].rows = {} /\ job'[h].answer = None
         /\ job'[h].at \in {"verify", "revoke"}
         /\ job'[h].kind = "revoke" => job'[h].token = None /\ job'[h].at = "revoke"
         /\ job'[h].kind # "refresh" => job'[h].req = None /\ job'[h].scope \subseteq excused'
         /\ job'[h].kind # "revoke" =>
               \E d \in Devices : /\ stored[d] # None /\ job'[h].token = stored[d]
                                  /\ stored[d] \in Issued /\ token[stored[d]].device = d
                                  /\ job'[h].scope = {d} /\ job'[h].at = "verify"
  <1> DEFINE New(kind, scope, t, r) ==
                 [kind |-> kind, at |-> IF t = None THEN "revoke" ELSE "verify", scope |-> scope,
                  token |-> t, req |-> r, rows |-> {}, answer |-> None]
  <1>1. ASSUME NEW d \in Devices, NEW r \in Requests, Refresh(d, h, r)
        PROVE  job'[h] = New("refresh", {d}, stored[d], r) /\ stored[d] # None
    BY <1>1 DEF Refresh, Ask, TypeOK
  <1>2. ASSUME NEW d \in Devices, RefreshOnce(d, h)
        PROVE  job'[h] = New("refresh", {d}, stored[d], None) /\ stored[d] # None
    BY <1>2 DEF RefreshOnce, Ask, TypeOK
  <1>3. ASSUME NEW d \in Devices, SignOut(d, h)
        PROVE  job'[h] = New("logout", {d}, stored[d], None) /\ stored[d] # None /\ d \in excused'
    BY <1>3 DEF SignOut, Ask, TypeOK
  <1>4. ASSUME NEW scope \in SUBSET Devices, RevokeDevices(scope, h)
        PROVE  job'[h] = New("revoke", scope, None, None) /\ scope \subseteq excused'
    BY <1>4 DEF RevokeDevices, Ask, TypeOK
  <1>5. job[h] = None /\ UNCHANGED token
    BY DEF Asked, Refresh, RefreshOnce, SignOut, RevokeDevices, Ask
  <1>6. CASE \E d \in Devices, r \in Requests : Refresh(d, h, r)
    <2>1. PICK d \in Devices, r \in Requests : job'[h] = New("refresh", {d}, stored[d], r)
                                              /\ stored[d] # None
      BY <1>1, <1>6
    <2> QED BY <1>5, <2>1 DEF StoredAreOwn
  <1>7. CASE \E d \in Devices : RefreshOnce(d, h)
    <2>1. PICK d \in Devices : job'[h] = New("refresh", {d}, stored[d], None) /\ stored[d] # None
      BY <1>2, <1>7
    <2> QED BY <1>5, <2>1 DEF StoredAreOwn
  <1>8. CASE \E d \in Devices : SignOut(d, h)
    <2>1. PICK d \in Devices : job'[h] = New("logout", {d}, stored[d], None) /\ stored[d] # None
                               /\ d \in excused'
      BY <1>3, <1>8
    <2> QED BY <1>5, <2>1 DEF StoredAreOwn
  <1>9. CASE \E scope \in SUBSET Devices : RevokeDevices(scope, h)
    <2>1. PICK scope \in SUBSET Devices : job'[h] = New("revoke", scope, None, None)
                                         /\ scope \subseteq excused'
      BY <1>4, <1>9
    <2> QED BY <1>5, <2>1
  <1> QED BY <1>6, <1>7, <1>8, <1>9 DEF Asked

------------------------------------------------------------------------------
\* Each part of the invariant.

\* A request that goes on with the rows it had, or answers.
LEMMA JobStays ==
  ASSUME TypeOK, JobsInOrder, [Next]_vars, NEW h \in Handlers, job'[h] # None,
         SameRequest(h), job'[h].rows = job[h].rows,
         job'[h].kind = "revoke" => job'[h].at # "verify",
         job'[h].kind # "refresh" => job'[h].at \notin {"rotate", "locked"},
         job'[h].at # "answer" => job'[h].answer = None,
         job'[h].answer \in Tokens =>
              /\ job'[h].kind = "refresh" /\ job'[h].answer \in Issued'
              /\ token'[job'[h].answer].parent = job'[h].token
              /\ token'[job'[h].answer].req = job'[h].req
  PROVE  JobInOrder(h)'
  <1> USE DEF SameRequest
  <1>1. JobInOrder(h) /\ job[h] # None
    BY DEF JobsInOrder
  <1>2. job'[h].kind # "revoke" =>
            job'[h].token \in Issued' /\ job'[h].scope = {token'[job'[h].token].device}
    BY <1>1, RowsStay DEF JobInOrder, RowStays
  <1>3. /\ job'[h].rows \subseteq Issued'
        /\ \A t \in job'[h].rows : token'[t].device \in job'[h].scope
    BY <1>1, RowsStay DEF JobInOrder, RowStays
  <1>4. /\ job'[h].kind = "revoke" => job'[h].token = None
        /\ job'[h].kind # "refresh" => job'[h].req = None
    BY <1>1 DEF JobInOrder
  <1> QED BY <1>2, <1>3, <1>4 DEF JobInOrder

\* What the three ways to go on make of the handler's record.
LEMMA MoveJob ==
  ASSUME TypeOK, NEW h \in Handlers, job[h] # None, NEW s, Move(h, s)
  PROVE  job'[h].at = s /\ job'[h].rows = job[h].rows /\ job'[h].answer = job[h].answer
  BY DEF Move, TypeOK, Job

LEMMA AnswerJob ==
  ASSUME TypeOK, NEW h \in Handlers, job[h] # None, NEW a, Answer(h, a), job'[h] # None
  PROVE  job'[h].at = "answer" /\ job'[h].rows = job[h].rows /\ job'[h].answer = a
  <1>1. job'[h] = [job[h] EXCEPT !.at = "answer", !.answer = a]
    BY DEF Answer, TypeOK
  <1> QED BY <1>1 DEF TypeOK, Job

LEMMA VerifyJob ==
  ASSUME TypeOK, JobsInOrder, NEW h \in Handlers, Verify(h), job'[h] # None
  PROVE  /\ job'[h].rows = job[h].rows
         /\ \/ job'[h].at = "rotate" /\ job[h].kind = "refresh" /\ job'[h].answer = None
            \/ job'[h].at = "revoke" /\ job'[h].answer = None
            \/ job'[h].at = "answer" /\ job'[h].answer \in {"rejected", "malformed"}
  <1>1. job[h] # None /\ job[h].at = "verify" /\ JobInOrder(h)
    BY DEF Verify, JobsInOrder
  <1>2. job[h].answer = None /\ (job[h].kind # "refresh" => job[h].req = None)
    BY <1>1 DEF JobInOrder
  <1>3. \/ Move(h, "rotate") /\ job[h].kind = "refresh"
        \/ Move(h, "revoke")
        \/ Answer(h, "rejected") \/ Answer(h, "malformed")
    BY <1>2 DEF Verify, Recovered
  <1> QED BY <1>1, <1>2, <1>3, MoveJob, AnswerJob

LEMMA JobsStep ==
  ASSUME TypeOK, JobsInOrder, StoredAreOwn, RowsInOrder, [Next]_vars
  PROVE  JobsInOrder'
  <1> SUFFICES ASSUME NEW h \in Handlers, job'[h] # None PROVE JobInOrder(h)'
    BY DEF JobsInOrder
  <1>1. CASE job[h] # None /\ job'[h] = job[h]
    <2>1. JobInOrder(h)
      BY <1>1 DEF JobsInOrder
    <2>2. job'[h].answer \in Tokens => RowStays(job[h].answer)
      BY <1>1, <2>1, RowsStay DEF JobInOrder
    <2>3. job'[h].answer \in Tokens =>
              /\ job'[h].kind = "refresh" /\ job'[h].answer \in Issued'
              /\ token'[job'[h].answer].parent = job'[h].token
              /\ token'[job'[h].answer].req = job'[h].req
      BY <1>1, <2>1, <2>2 DEF JobInOrder, RowStays
    <2> QED BY <1>1, <2>1, <2>3, JobStays DEF JobInOrder, SameRequest
  <1>2. CASE Asked(h)
    <2>1. /\ job'[h].rows = {} /\ job'[h].answer = None
          /\ job'[h].at \in {"verify", "revoke"}
          /\ job'[h].kind = "revoke" => job'[h].token = None /\ job'[h].at = "revoke"
          /\ job'[h].kind # "refresh" => job'[h].req = None
          /\ job'[h].kind # "revoke" => job'[h].token \in Issued'
                                     /\ job'[h].scope = {token'[job'[h].token].device}
      BY <1>2, AskedJob DEF Issued
    <2> QED BY <2>1, NoneAssumption DEF JobInOrder
  <1>3. CASE Verify(h)
    <2>1. SameRequest(h)
      BY <1>3, WorkKeepsRequest DEF Worked
    <2>2. job'[h].answer \notin Tokens
      BY <1>3, VerifyJob, NoneAssumption, RefusalsAssumption
    <2>3. /\ job'[h].rows = job[h].rows
          /\ job'[h].at # "verify"
          /\ job'[h].kind # "refresh" => job'[h].at \notin {"rotate", "locked"}
          /\ job'[h].at # "answer" => job'[h].answer = None
      BY <1>3, <2>1, VerifyJob DEF SameRequest
    <2> QED BY <2>1, <2>2, <2>3, JobStays
  <1>4. CASE Lock(h)
    <2>1. SameRequest(h)
      BY <1>4, WorkKeepsRequest DEF Worked
    <2>2. job[h] # None /\ job[h].at = "rotate" /\ JobInOrder(h)
      BY <1>4 DEF Lock, JobsInOrder
    <2>3. job'[h].at = "locked" /\ job'[h].rows = job[h].rows /\ job'[h].answer = None
          /\ job'[h].kind = "refresh"
      BY <1>4, <2>1, <2>2, MoveJob DEF Lock, JobInOrder, SameRequest, TypeOK, Job
    <2> QED BY <2>1, <2>3, JobStays, NoneAssumption
  <1>5. CASE Rotate(h)
    <2>1. SameRequest(h)
      BY <1>5, WorkKeepsRequest DEF Worked
    <2>2. job[h] # None /\ job[h].kind = "refresh" /\ job[h].token \in Issued
      BY <1>5, RotateCases
    <2>3. PICK a : Answer(h, a) /\
              \/ UNCHANGED token /\ a = "rejected"
              \/ UNCHANGED token /\ a \in Recovered(job[h].token, job[h].req)
              \/ a \in Tokens \ Issued /\ Succeeds(h, a)
      BY <1>5, RotateCases DEF Succeeds
    <2>4. job'[h].at = "answer" /\ job'[h].rows = job[h].rows /\ job'[h].answer = a
      BY <2>2, <2>3, AnswerJob
    <2>5. a \in Tokens => /\ a \in Issued' /\ token'[a].parent = job[h].token
                          /\ token'[a].req = job[h].req
      <3>1. CASE UNCHANGED token /\ a = "rejected"
        BY <3>1, RefusalsAssumption
      <3>2. CASE UNCHANGED token /\ a \in Recovered(job[h].token, job[h].req)
        BY <3>2 DEF Recovered, Issued
      <3>3. CASE a \in Tokens \ Issued /\ Succeeds(h, a)
        <4>1. /\ Issued' = Issued \cup {a}
              /\ token'[a] = [device |-> token[job[h].token].device, parent |-> job[h].token,
                              req |-> job[h].req, revoked |-> FALSE, expired |-> FALSE]
          BY <2>2, <3>3, SuccessorRow
        <4> QED BY <4>1
      <3> QED BY <2>3, <3>1, <3>2, <3>3
    <2> QED BY <2>1, <2>2, <2>4, <2>5, JobStays DEF SameRequest
  <1>6. CASE RevokeStarts(h)
    <2>1. SameRequest(h)
      BY <1>6, WorkKeepsRequest DEF Worked
    <2>2. job[h] # None /\ job[h].at = "revoke" /\ JobInOrder(h) /\ UNCHANGED token
      BY <1>6 DEF RevokeStarts, JobsInOrder
    <2>3. job'[h] = [job[h] EXCEPT !.at = "revoking", !.rows = Unrevoked(job[h].scope)]
      BY <1>6, <2>2 DEF RevokeStarts, TypeOK
    <2>4. /\ job'[h].at = "revoking" /\ job'[h].rows = Unrevoked(job[h].scope)
          /\ job'[h].answer = None
      BY <2>2, <2>3 DEF JobInOrder, TypeOK, Job
    <2>5. job'[h].rows \subseteq Issued' /\ \A t \in job'[h].rows : token'[t].device \in job'[h].scope
      BY <2>1, <2>2, <2>4 DEF Unrevoked, Issued, SameRequest
    <2> QED BY <2>1, <2>2, <2>4, <2>5, NoneAssumption DEF JobInOrder, SameRequest, Issued
  <1>7. CASE RevokeEnds(h)
    <2>1. SameRequest(h)
      BY <1>7, WorkKeepsRequest DEF Worked
    <2>2. job'[h].at = "answer" /\ job'[h].rows = job[h].rows /\ job'[h].answer = "rejected"
      BY <1>7, AnswerJob DEF RevokeEnds
    <2> QED BY <2>1, <2>2, JobStays, RefusalsAssumption
  <1> QED BY <1>1, <1>2, <1>3, <1>4, <1>5, <1>6, <1>7, JobMoves DEF Worked

\* Sign-ins and rotations, seen through their rows.
LEMMA SignedIn ==
  ASSUME TypeOK, NEW d \in Devices, NEW t \in Tokens, SignIn(d, t)
  PROVE  /\ token[t] = None /\ t \notin Issued /\ Issued' = Issued \cup {t}
         /\ token'[t].device = d /\ token'[t].parent = None /\ token'[t].req = None
         /\ ~token'[t].revoked /\ ~token'[t].expired
         /\ \A c \in Tokens \ {t} : token'[c] = token[c]
  <1> DEFINE new == [device |-> d, parent |-> None, req |-> None, revoked |-> FALSE, expired |-> FALSE]
  <1>1. new \in Row
    BY DEF Row
  <1>2. token[t] = None /\ token'[t] = new /\ \A c \in Tokens \ {t} : token'[c] = token[c]
    BY DEF SignIn, TypeOK
  <1>3. new # None
    BY <1>1, RecordsAssumption
  <1> QED BY <1>2, <1>3 DEF Issued

LEMMA RowsStep ==
  ASSUME TypeOK, JobsInOrder, StoredAreOwn, RowsInOrder, [Next]_vars
  PROVE  RowsInOrder'
  <1> DEFINE InOrder(c) ==
                 token'[c].parent # None =>
                     LET p == token'[c].parent
                     IN  /\ p \in Issued' /\ p # c
                         /\ token'[p].revoked /\ token'[p].device = token'[c].device
                         /\ \A d \in Issued' : token'[d].parent = p => d = c
  <1>1. ASSUME NEW c \in Issued, \A d \in Issued' \ Issued : token'[d].parent # token[c].parent
        PROVE  InOrder(c)
    <2>1. RowStays(c)
      BY RowsStay
    <2> SUFFICES ASSUME token[c].parent # None PROVE InOrder(c)
      BY <2>1 DEF RowStays
    <2> DEFINE p == token[c].parent
    <2>2. /\ p \in Issued /\ p # c /\ token[p].revoked /\ token[p].device = token[c].device
          /\ \A d \in Issued : token[d].parent = p => d = c
      BY DEF RowsInOrder
    <2>3. RowStays(p)
      BY <2>2, RowsStay
    <2>4. \A d \in Issued' : token'[d].parent = p => d = c
      BY <1>1, <2>2, RowsStay DEF RowStays
    <2> QED BY <2>1, <2>2, <2>3, <2>4 DEF RowStays
  <1>2. CASE Issued' \subseteq Issued
    BY <1>1, <1>2 DEF RowsInOrder
  <1>3. ASSUME NEW d \in Devices, NEW t \in Tokens, SignIn(d, t) PROVE RowsInOrder'
    <2>1. Issued' = Issued \cup {t} /\ token'[t].parent = None
      BY <1>3, SignedIn
    <2>2. ASSUME NEW c \in Issued PROVE InOrder(c)
      <3>1. CASE token[c].parent = None
        BY <3>1, RowsStay DEF RowStays
      <3>2. CASE token[c].parent # None
        BY <1>1, <2>1, <3>2
      <3> QED BY <3>1, <3>2
    <2> QED BY <2>1, <2>2 DEF RowsInOrder
  <1>4. ASSUME NEW h \in Handlers, NEW t \in Tokens \ Issued, Rotate(h), Succeeds(h, t)
        PROVE  RowsInOrder'
    <2>1. PICK p \in Issued : p = job[h].token /\ job[h] # None /\ Usable(p)
      BY <1>4, RotateCases DEF Succeeds
    <2>2. /\ Issued' = Issued \cup {t}
          /\ token'[t] = [device |-> token[p].device, parent |-> p, req |-> job[h].req,
                          revoked |-> FALSE, expired |-> FALSE]
          /\ token'[p] = [token[p] EXCEPT !.revoked = TRUE]
      BY <1>4, <2>1, SuccessorRow
    <2>3. token'[t].parent = p /\ token'[t].device = token[p].device
      BY <2>2
    <2>4. token'[p].revoked /\ token'[p].device = token[p].device
      BY <2>2 DEF TypeOK, Issued, Row
    <2>5. \A c \in Issued : token[c].parent # p
      BY <2>1, NoneAssumption DEF RowsInOrder, Usable, Issued
    <2>6. \A c \in Issued : InOrder(c)
      BY <1>1, <2>2, <2>3, <2>5
    <2>7. InOrder(t)
      <3>1. \A c \in Issued : token'[c].parent # p
        BY <2>5, RowsStay DEF RowStays
      <3> QED BY <2>1, <2>2, <2>3, <2>4, <3>1
    <2> QED BY <2>2, <2>6, <2>7 DEF RowsInOrder
  <1>5. CASE ~(Issued' \subseteq Issued)
    <2>1. PICK t \in Issued' : t \notin Issued
      BY <1>5
    <2>2. t \in Tokens
      BY DEF Issued
    <2> QED BY <1>3, <1>4, <2>1, <2>2, RowsCome
  <1> QED BY <1>2, <1>5

\* What a client holds changes by a sign-in, or to the successor of what it held.
Received(d, h) ==
    /\ Reply(d, h) /\ job[h] # None /\ UNCHANGED <<token, excused>>
    /\ stored[d] # None /\ job[h].token = stored[d] /\ job[h].answer = stored'[d]
    /\ stored'[d] \in Issued /\ token[stored'[d]].parent = stored[d]

LEMMA StoredMoves ==
  ASSUME TypeOK, JobsInOrder, [Next]_vars, NEW d \in Devices, stored'[d] \notin {None, stored[d]}
  PROVE  /\ stored'[d] \in Tokens
         /\ SignIn(d, stored'[d]) \/ \E h \in Handlers : Received(d, h)
  <1>1. ASSUME NEW c \in Devices, NEW t \in Tokens, SignIn(c, t)
        PROVE  stored'[d] \in Tokens /\ SignIn(d, stored'[d])
    <2>1. c = d /\ stored'[d] = t
      BY <1>1 DEF SignIn, TypeOK
    <2> QED BY <1>1, <2>1
  <1>2. ASSUME NEW c \in Devices, NEW h \in Handlers, Reply(c, h)
        PROVE  stored'[d] \in Tokens /\ Received(d, h)
    <2>1. /\ c = d /\ stored[d] = job[h].token /\ job[h].answer \in Tokens
          /\ stored'[d] = job[h].answer /\ job[h] # None
      BY <1>2 DEF Reply, Receive, TypeOK
    <2>2. job[h].kind = "refresh" /\ job[h].token \in Issued /\ job[h].answer \in Issued
          /\ token[job[h].answer].parent = job[h].token
      BY <2>1 DEF JobsInOrder, JobInOrder
    <2>3. stored[d] # None
      BY <2>1, <2>2, NoneAssumption DEF Issued
    <2> QED BY <1>2, <2>1, <2>2, <2>3 DEF Received, Reply
  <1>3. ASSUME NEW c \in Devices, NEW h \in Handlers, SignOut(c, h) PROVE FALSE
    BY <1>3 DEF SignOut, TypeOK
  <1> QED
    BY <1>1, <1>2, <1>3
    DEF Next, Refresh, RefreshOnce, GiveUp, RevokeDevices, Verify, Lock, Rotate, RevokeStarts,
        RevokeEnds, Fail, Expire, clients, vars

LEMMA StoredStep ==
  ASSUME TypeOK, JobsInOrder, StoredAreOwn, RowsInOrder, [Next]_vars
  PROVE  StoredAreOwn'
  <1> SUFFICES ASSUME NEW d \in Devices, stored'[d] # None
               PROVE  stored'[d] \in Issued' /\ token'[stored'[d]].device = d
    BY DEF StoredAreOwn
  <1>1. CASE stored'[d] = stored[d]
    BY <1>1, RowsStay DEF StoredAreOwn, RowStays
  <1>2. CASE stored'[d] # stored[d] /\ SignIn(d, stored'[d])
    <2>1. PICK t \in Tokens : t = stored'[d]
      BY <1>2, StoredMoves
    <2>2. t \in Issued' /\ token'[t].device = d
      BY <1>2, <2>1, SignedIn
    <2> QED BY <2>1, <2>2
  <1>3. CASE stored'[d] # stored[d] /\ \E h \in Handlers : Received(d, h)
    <2>1. stored[d] # None /\ stored'[d] \in Issued /\ token[stored'[d]].parent = stored[d]
          /\ UNCHANGED token
      BY <1>3 DEF Received
    <2>2. token[stored[d]].device = d /\ token[stored'[d]].device = token[stored[d]].device
      BY <2>1 DEF StoredAreOwn, RowsInOrder
    <2> QED BY <2>1, <2>2 DEF Issued
  <1> QED BY <1>1, <1>2, <1>3, StoredMoves

\* No row has a parent, and no handler a token, that did not exist before the step.
LEMMA OldNames ==
  ASSUME TypeOK, JobsInOrder, StoredAreOwn, RowsInOrder, [Next]_vars
  PROVE  /\ \A c \in Issued' : token'[c].parent \in Issued \cup {None}
         /\ \A h \in Handlers : job'[h] # None => job'[h].token \in Issued \cup {None}
  <1>1. ASSUME NEW c \in Issued' PROVE token'[c].parent \in Issued \cup {None}
    <2>1. CASE c \in Issued
      BY <2>1, RowsStay DEF RowStays, RowsInOrder
    <2>2. CASE c \notin Issued
      <3>0. c \in Tokens
        BY DEF Issued
      <3>1. ASSUME NEW d \in Devices, SignIn(d, c) PROVE token'[c].parent = None
        BY <3>0, <3>1, SignedIn
      <3>2. ASSUME NEW h \in Handlers, Rotate(h), Succeeds(h, c) PROVE token'[c].parent \in Issued
        <4>1. job[h] # None /\ job[h].token \in Issued
          BY <3>2, RotateCases
        <4>2. token'[c] = [device |-> token[job[h].token].device, parent |-> job[h].token,
                           req |-> job[h].req, revoked |-> FALSE, expired |-> FALSE]
          BY <2>2, <3>0, <3>2, <4>1, SuccessorRow
        <4> QED BY <4>1, <4>2
      <3> QED BY <2>2, <3>1, <3>2, RowsCome
    <2> QED BY <2>1, <2>2
  <1>2. ASSUME NEW h \in Handlers, job'[h] # None PROVE job'[h].token \in Issued \cup {None}
    <2>1. CASE job[h] # None /\ job'[h].token = job[h].token
      BY <2>1 DEF JobsInOrder, JobInOrder
    <2>2. CASE Asked(h)
      BY <2>2, AskedJob
    <2>3. CASE Worked(h)
      BY <1>2, <2>1, <2>3, WorkKeepsRequest DEF SameRequest
    <2> QED BY <1>2, <2>1, <2>2, <2>3, JobMoves
  <1> QED BY <1>1, <1>2

LEMMA UntouchedStep ==
  ASSUME TypeOK, JobsInOrder, StoredAreOwn, RowsInOrder, SuccessorsUntouched, [Next]_vars
  PROVE  SuccessorsUntouched'
  <1> SUFFICES ASSUME NEW d \in Devices, NEW c \in Issued', stored'[d] # None,
                      token'[c].parent = stored'[d]
               PROVE  /\ \A h \in Handlers : job'[h] # None => job'[h].token # c
                      /\ \A e \in Issued' : token'[e].parent # c
    BY DEF SuccessorsUntouched
  <1>0. c # None /\ stored'[d] \in Issued
    BY OldNames, NoneAssumption DEF Issued
  <1>1. CASE c \notin Issued
    BY <1>0, <1>1, OldNames
  <1>2. CASE c \in Issued /\ stored'[d] = stored[d]
    <2>1. token[c].parent = stored[d] /\ stored[d] # None
      BY <1>2, RowsStay DEF RowStays
    <2>2. /\ \A h \in Handlers : job[h] # None => job[h].token # c
          /\ \A e \in Issued : token[e].parent # c
      BY <1>2, <2>1 DEF SuccessorsUntouched
    <2>3. ASSUME NEW h \in Handlers, Asked(h), job'[h] # None PROVE job'[h].token # c
      <3>1. \A b \in Devices : stored[b] # c
        BY <1>2, <2>1, NoneAssumption DEF StoredAreOwn, RowsInOrder, Issued
      <3> QED BY <1>0, <2>3, <3>1, AskedJob
    <2>4. ASSUME NEW h \in Handlers, job'[h] # None PROVE job'[h].token # c
      BY <2>2, <2>3, <2>4, JobMoves, WorkKeepsRequest DEF SameRequest
    <2>5. ASSUME NEW e \in Issued' PROVE token'[e].parent # c
      <3>1. CASE e \in Issued
        BY <2>2, <3>1, RowsStay DEF RowStays
      <3>2. CASE e \notin Issued
        <4>0. e \in Tokens
          BY DEF Issued
        <4>1. ASSUME NEW b \in Devices, SignIn(b, e) PROVE token'[e].parent # c
          BY <1>0, <4>0, <4>1, SignedIn
        <4>2. ASSUME NEW h \in Handlers, Rotate(h), Succeeds(h, e) PROVE token'[e].parent # c
          <5>1. job[h] # None /\ job[h].token \in Issued
            BY <4>2, RotateCases
          <5>2. token'[e] = [device |-> token[job[h].token].device, parent |-> job[h].token,
                             req |-> job[h].req, revoked |-> FALSE, expired |-> FALSE]
            BY <3>2, <4>0, <4>2, <5>1, SuccessorRow
          <5> QED BY <2>2, <5>1, <5>2
        <4> QED BY <3>2, <4>1, <4>2, RowsCome
      <3> QED BY <3>1, <3>2
    <2> QED BY <2>4, <2>5
  <1>3. CASE c \in Issued /\ stored'[d] # stored[d]
    <2>1. CASE SignIn(d, stored'[d])
      <3>1. stored'[d] \in Tokens
        BY <1>0 DEF Issued
      <3>2. stored'[d] \notin Issued
        BY <2>1, <3>1, SignedIn
      <3> QED BY <1>0, <3>2
    <2>2. ASSUME NEW h \in Handlers, Received(d, h) PROVE FALSE
      <3>1. stored[d] # None /\ stored'[d] \in Issued /\ token[stored'[d]].parent = stored[d]
            /\ UNCHANGED token
        BY <2>2 DEF Received
      <3>2. \A e \in Issued : token[e].parent # stored'[d]
        BY <3>1 DEF SuccessorsUntouched
      <3> QED BY <1>3, <3>1, <3>2
    <2> QED BY <1>3, <2>1, <2>2, StoredMoves
  <1> QED BY <1>1, <1>2, <1>3

\* A client is no longer excused only once it has signed in anew.
LEMMA ExcusedShrinks ==
  ASSUME TypeOK, [Next]_vars, NEW d \in excused, d \notin excused'
  PROVE  \E t \in Tokens : SignIn(d, t) /\ ~Ending(d)
  BY DEF Next, SignIn, Refresh, RefreshOnce, GiveUp, SignOut, RevokeDevices, Verify, Lock, Rotate,
     RevokeStarts, RevokeEnds, Fail, Reply, Expire, vars

\* The token a client still holds keeps the request id kept for it.
LEMMA KeptStays ==
  ASSUME TypeOK, [Next]_vars, NEW d \in Devices, stored[d] # None, stored'[d] = stored[d],
         kept[d] # None, kept[d].token = stored[d]
  PROVE  kept'[d] # None /\ kept'[d].token = stored[d] /\ kept'[d].req = kept[d].req
  <1>1. ASSUME NEW c \in Devices, NEW h \in Handlers, NEW r \in Requests, Refresh(c, h, r), c = d
        PROVE  kept'[d] # None /\ kept'[d].token = stored[d] /\ kept'[d].req = kept[d].req
    <2>1. r = kept[d].req
      BY <1>1 DEF Refresh, RequestIds
    <2>2. kept'[d] = [token |-> stored[d], req |-> r] /\ kept'[d] \in Kept
      BY <1>1 DEF Refresh, TypeOK, Kept
    <2> QED BY <2>1, <2>2, RecordsAssumption
  <1>2. ASSUME NEW c \in Devices, NEW h \in Handlers, NEW r \in Requests, Refresh(c, h, r), c # d
        PROVE  kept'[d] = kept[d]
    BY <1>2 DEF Refresh, TypeOK
  <1>3. ASSUME NEW c \in Devices, NEW h \in Handlers, SignOut(c, h) PROVE kept'[d] = kept[d]
    BY <1>3 DEF SignOut, TypeOK
  <1>4. ASSUME NEW c \in Devices, NEW h \in Handlers, Reply(c, h) PROVE kept'[d] = kept[d]
    BY <1>4, RefusalsAssumption DEF Reply, Receive, TypeOK
  <1>5. kept'[d] = kept[d] => kept'[d] # None /\ kept'[d].token = stored[d] /\ kept'[d].req = kept[d].req
    OBVIOUS
  <1> QED
    BY <1>1, <1>2, <1>3, <1>4, <1>5
    DEF Next, SignIn, RefreshOnce, GiveUp, RevokeDevices, Verify, Lock, Rotate, RevokeStarts,
        RevokeEnds, Fail, Expire, clients, vars

LEMMA IdsStep ==
  ASSUME TypeOK, JobsInOrder, StoredAreOwn, RowsInOrder, SuccessorsUntouched, IdsAreKept, [Next]_vars
  PROVE  IdsAreKept'
  <1> SUFFICES ASSUME NEW d \in Devices, d \notin excused', NEW h \in Handlers, stored'[d] # None,
                      job'[h] # None, job'[h].token = stored'[d]
               PROVE  kept'[d] # None /\ kept'[d].token = stored'[d] /\ kept'[d].req = job'[h].req
    BY DEF IdsAreKept
  <1>0. stored'[d] \in Issued
    BY OldNames
  <1>1. stored'[d] = stored[d]
    <2> SUFFICES ASSUME stored'[d] # stored[d] PROVE FALSE
      OBVIOUS
    <2>1. CASE SignIn(d, stored'[d])
      BY <1>0, <2>1, SignedIn DEF Issued
    <2>2. ASSUME NEW g \in Handlers, Received(d, g) PROVE FALSE
      <3>1. \A f \in Handlers : job[f] # None => job[f].token # stored'[d]
        BY <2>2 DEF Received, SuccessorsUntouched
      <3>2. job[h] # None /\ job'[h] = job[h]
        BY <2>2 DEF Received, Reply, TypeOK
      <3> QED BY <3>1, <3>2
    <2> QED BY <2>1, <2>2, StoredMoves
  <1>2. d \notin excused
    <2> SUFFICES ASSUME d \in excused PROVE FALSE
      OBVIOUS
    <2>1. PICK t \in Tokens : SignIn(d, t)
      BY ExcusedShrinks
    <2>2. stored'[d] = t /\ t \notin Issued
      BY <2>1, SignedIn DEF SignIn, TypeOK
    <2> QED BY <1>0, <2>2
  <1>3. CASE SameRequest(h)
    <2>1. kept[d] # None /\ kept[d].token = stored[d] /\ kept[d].req = job[h].req
      BY <1>1, <1>2, <1>3 DEF SameRequest, IdsAreKept
    <2>2. kept'[d] # None /\ kept'[d].token = stored[d] /\ kept'[d].req = kept[d].req
      BY <1>1, <2>1, KeptStays
    <2> QED BY <1>1, <1>3, <2>1, <2>2 DEF SameRequest
  <1>4. CASE Asked(h)
    <2>1. ASSUME NEW c \in Devices, NEW r \in Requests, Refresh(c, h, r)
          PROVE  kept'[d] # None /\ kept'[d].token = stored'[d] /\ kept'[d].req = job'[h].req
      <3>1. stored[c] # None /\ job'[h].token = stored[c] /\ job'[h].req = r
            /\ kept'[c] = [token |-> stored[c], req |-> r]
        BY <2>1 DEF Refresh, Ask, TypeOK
      <3>2. c = d
        BY <1>1, <3>1 DEF StoredAreOwn
      <3>3. kept'[d] \in Kept
        BY <3>1, <3>2 DEF Kept, TypeOK
      <3> QED BY <1>1, <3>1, <3>2, <3>3, RecordsAssumption
    <2>2. ASSUME NEW c \in Devices, RefreshOnce(c, h) \/ SignOut(c, h) PROVE FALSE
      <3>1. stored[c] # None /\ job'[h].token = stored[c] /\ c \in excused'
        BY <2>2 DEF RefreshOnce, SignOut, Ask, TypeOK
      <3> QED BY <1>1, <3>1 DEF StoredAreOwn
    <2>3. ASSUME NEW scope \in SUBSET Devices, RevokeDevices(scope, h) PROVE FALSE
      BY <2>3 DEF RevokeDevices, Ask, TypeOK
    <2> QED BY <1>4, <2>1, <2>2, <2>3 DEF Asked
  <1>5. job[h] # None /\ job'[h] = job[h] => SameRequest(h)
    BY DEF SameRequest
  <1> QED BY <1>3, <1>4, <1>5, JobMoves, WorkKeepsRequest

LEMMA EndingsStep ==
  ASSUME TypeOK, JobsInOrder, StoredAreOwn, RowsInOrder, IdsAreKept, EndingsAreExcused,
         SessionsSurvive, [Next]_vars
  PROVE  EndingsAreExcused'
  <1> SUFFICES ASSUME NEW d \in Devices, d \notin excused', NEW h \in Handlers, job'[h] # None,
                      d \in job'[h].scope,
                      job'[h].kind # "refresh" \/ job'[h].at \in {"revoke", "revoking"}
               PROVE  FALSE
    BY DEF EndingsAreExcused, Ending
  <1>1. CASE d \in excused
    <2>1. UNCHANGED job /\ ~Ending(d)
      BY <1>1, ExcusedShrinks DEF SignIn
    <2> QED BY <2>1 DEF Ending
  <1>2. CASE d \notin excused
    <2>1. ~Ending(d)
      BY <1>2 DEF EndingsAreExcused
    <2>2. CASE job[h] # None /\ job'[h] = job[h]
      BY <2>1, <2>2 DEF Ending
    <2>3. CASE Asked(h)
      BY <2>3, AskedJob
    <2>4. CASE Worked(h)
      <3>1. SameRequest(h)
        BY <2>4, WorkKeepsRequest
      <3>2. job[h] # None /\ job[h].kind = "refresh" /\ job[h].at \notin {"revoke", "revoking"}
            /\ job[h].scope = job'[h].scope /\ job'[h].at \in {"revoke", "revoking"}
        BY <2>1, <3>1 DEF Ending, SameRequest
      <3>3. JobInOrder(h)
        BY <3>2 DEF JobsInOrder
      <3> DEFINE t == job[h].token
      <3>4. t \in Issued /\ token[t].device = d
        BY <3>2, <3>3 DEF JobInOrder
      <3>5. CASE Verify(h)
        <4>1. Move(h, "revoke") \/ Move(h, "rotate") \/ \E a : Answer(h, a)
          BY <3>5 DEF Verify
        <4>2. ~Move(h, "rotate") /\ ~\E a : Answer(h, a)
          BY <3>2, MoveJob, AnswerJob
        <4>3. token[t].revoked /\ Recovered(t, job[h].req) = {}
              /\ (stored[d] = t \/ d \in excused')
          BY <3>2, <3>4, <3>5, <4>2 DEF Verify
        <4>4. stored[d] = t /\ stored[d] # None
          BY <3>4, <4>3, NoneAssumption DEF Issued
        <4>5. kept[d].req = job[h].req
          BY <1>2, <3>2, <4>4 DEF IdsAreKept
        <4> QED BY <1>2, <4>3, <4>4, <4>5 DEF SessionsSurvive, Usable
      <3>6. CASE Lock(h)
        BY <3>2, <3>6, MoveJob DEF Lock
      <3>7. CASE Rotate(h)
        <4>1. \E a : Answer(h, a)
          BY <3>7, RotateCases DEF Succeeds
        <4> QED BY <3>2, <4>1, AnswerJob
      <3>8. CASE RevokeStarts(h) \/ RevokeEnds(h)
        BY <3>2, <3>8 DEF RevokeStarts, RevokeEnds
      <3> QED BY <2>4, <3>5, <3>6, <3>7, <3>8 DEF Worked
    <2> QED BY <2>2, <2>3, <2>4, JobMoves
  <1> QED BY <1>1, <1>2

\* A session goes on if what could still be used of its device can be used yet.
LEMMA SessionPersists ==
  ASSUME TypeOK, JobsInOrder, StoredAreOwn, RowsInOrder, SessionsSurvive, [Next]_vars,
         NEW d \in Devices \ excused, stored[d] # None, stored'[d] = stored[d],
         \A c \in Issued : /\ c = stored[d] \/ token[c].parent = stored[d]
                           /\ token[c].device = d
                           /\ Usable(c)
                           => ~token'[c].revoked /\ ~token'[c].expired
  PROVE  \/ Usable(stored[d])'
         \/ kept'[d] # None /\ kept'[d].token = stored'[d] /\ Recovered(stored[d], kept[d].req)' # {}
  <1>1. stored[d] \in Issued /\ token[stored[d]].device = d
    BY DEF StoredAreOwn
  <1>2. CASE Usable(stored[d])
    BY <1>1, <1>2 DEF Usable
  <1>3. CASE ~Usable(stored[d])
    <2>1. kept[d] # None /\ kept[d].token = stored[d] /\ Recovered(stored[d], kept[d].req) # {}
      BY <1>3 DEF SessionsSurvive
    <2>2. kept'[d] # None /\ kept'[d].token = stored[d] /\ kept'[d].req = kept[d].req
      BY <2>1, KeptStays
    <2>3. PICK c \in Issued : /\ kept[d].req # None /\ token[c].parent = stored[d]
                              /\ token[c].req = kept[d].req /\ Usable(c)
      BY <2>1 DEF Recovered
    <2>4. token[c].device = d
      BY <1>1, <2>3, NoneAssumption DEF RowsInOrder, Issued
    <2>5. ~token'[c].revoked /\ ~token'[c].expired
      BY <2>3, <2>4
    <2>6. c \in Issued' /\ token'[c].parent = stored[d] /\ token'[c].req = kept[d].req
      BY <2>3, RowsStay DEF RowStays
    <2>7. c \in Recovered(stored[d], kept[d].req)'
      BY <2>2, <2>3, <2>5, <2>6 DEF Recovered, Usable
    <2> QED BY <2>2, <2>7
  <1> QED BY <1>2, <1>3

LEMMA SessionsStep ==
  ASSUME Inv, [Next]_vars
  PROVE  SessionsSurvive'
  <1> USE DEF Inv
  <1> DEFINE Lives(d) == \/ Usable(stored[d])
                         \/ /\ kept[d] # None /\ kept[d].token = stored[d]
                            /\ Recovered(stored[d], kept[d].req) # {}
  <1> SUFFICES ASSUME NEW d \in Devices, d \notin excused', stored'[d] # None PROVE Lives(d)'
    BY DEF SessionsSurvive
  <1>1. ASSUME NEW t \in Tokens, SignIn(d, t) PROVE Lives(d)'
    <2>1. stored'[d] = t
      BY <1>1 DEF SignIn, TypeOK
    <2>2. ~token'[t].revoked /\ ~token'[t].expired
      BY <1>1, SignedIn
    <2> QED BY <2>1, <2>2 DEF Usable
  <1>2. CASE d \in excused
    BY <1>1, <1>2, ExcusedShrinks
  <1>3. ASSUME NEW h \in Handlers, Received(d, h), d \notin excused PROVE Lives(d)'
    <2> DEFINE p == stored[d]
               c == job[h].answer
    <2>1. p # None /\ c \in Issued /\ token[c].parent = p /\ stored'[d] = c /\ UNCHANGED token
      BY <1>3 DEF Received
    <2>2. token[p].revoked
      BY <2>1 DEF RowsInOrder
    <2>3. PICK b \in Issued : token[b].parent = p /\ Usable(b)
      BY <1>3, <2>1, <2>2 DEF SessionsSurvive, Usable, Recovered
    <2>4. b = c
      BY <2>1, <2>3 DEF RowsInOrder
    <2> QED BY <2>1, <2>3, <2>4 DEF Usable
  <1>4. ASSUME d \notin excused, stored'[d] = stored[d] PROVE Lives(d)'
    <2>1. stored[d] # None /\ stored[d] \in Issued /\ token[stored[d]].device = d
      BY <1>4 DEF StoredAreOwn
    <2> DEFINE Stays(c) == /\ c = stored[d] \/ token[c].parent = stored[d]
                           /\ token[c].device = d
                           /\ Usable(c)
                           => ~token'[c].revoked /\ ~token'[c].expired
    <2>2. ASSUME \A c \in Issued : Stays(c) PROVE Lives(d)'
      <3>1. \/ Usable(stored[d])'
            \/ /\ kept'[d] # None /\ kept'[d].token = stored'[d]
               /\ Recovered(stored[d], kept[d].req)' # {}
        BY <1>4, <2>1, <2>2, SessionPersists
      <3> QED BY <1>4, <3>1
    <2>3. CASE UNCHANGED token
      BY <2>2, <2>3 DEF Usable
    <2>4. ASSUME NEW b \in Devices, NEW t \in Tokens, SignIn(b, t) PROVE Lives(d)'
      <3>1. \A c \in Issued : token'[c] = token[c]
        BY <2>4, SignedIn DEF Issued
      <3> QED BY <2>2, <3>1 DEF Usable
    <2>5. ASSUME NEW h \in Handlers, Verify(h), ~UNCHANGED token PROVE Lives(d)'
      <3>1. PICK t \in Issued : Revoke({t}) /\ token[t].expired
        BY <2>5 DEF Verify, JobsInOrder, JobInOrder, TypeOK, Job
      <3>2. \A c \in Issued : Stays(c)
        BY <3>1, RevokeStays DEF Usable
      <3> QED BY <2>2, <3>2
    <2>6. ASSUME NEW h \in Handlers, RevokeEnds(h) PROVE Lives(d)'
      <3>1. job[h] # None /\ JobInOrder(h) /\ job[h].at = "revoking" /\ Revoke(job[h].rows)
        BY <2>6 DEF RevokeEnds, JobsInOrder
      <3>2. d \notin job[h].scope
        BY <1>4, <3>1 DEF EndingsAreExcused, Ending
      <3>3. job[h].rows \in SUBSET Issued /\ \A c \in job[h].rows : token[c].device # d
        BY <3>1, <3>2 DEF JobInOrder
      <3>4. \A c \in Issued : Stays(c)
        BY <3>1, <3>3, RevokeStays DEF Usable
      <3> QED BY <2>2, <3>4
    <2>7. ASSUME NEW t \in Tokens, Expire(t) PROVE Lives(d)'
      <3>1. token[t].device # d /\ \A c \in Tokens \ {t} : token'[c] = token[c]
        BY <2>7 DEF Expire, TypeOK
      <3>2. \A c \in Issued : Stays(c)
        BY <3>1 DEF Usable, Issued
      <3> QED BY <2>2, <3>2
    <2>8. ASSUME NEW h \in Handlers, Rotate(h), ~UNCHANGED token PROVE Lives(d)'
      <3>1. PICK c \in Tokens \ Issued : Succeeds(h, c)
        BY <2>8, RotateCases
      <3>2. PICK t \in Issued : t = job[h].token /\ job[h] # None
        BY <2>8, RotateCases
      <3>3. /\ Issued' = Issued \cup {c}
            /\ token'[c] = [device |-> token[t].device, parent |-> t, req |-> job[h].req,
                            revoked |-> FALSE, expired |-> FALSE]
            /\ \A e \in Tokens \ {c, t} : token'[e] = token[e]
        BY <3>1, <3>2, SuccessorRow
      <3>4. CASE t # stored[d]
        <4>1. token[t].parent # stored[d]
          BY <2>1, <3>2 DEF SuccessorsUntouched
        <4>2. \A e \in Issued : Stays(e)
          BY <3>3, <3>4, <4>1 DEF Usable, Issued
        <4> QED BY <2>2, <4>2
      <3>5. CASE t = stored[d]
        <4>1. kept[d] # None /\ kept[d].token = stored[d] /\ kept[d].req = job[h].req
          BY <1>4, <2>1, <3>2, <3>5 DEF IdsAreKept
        <4>2. kept'[d] = kept[d]
          BY <2>8 DEF Rotate, clients
        <4>3. kept[d].req # None
          BY <4>1, NoneAssumption DEF TypeOK, Kept
        <4>4. token'[c].parent = t /\ token'[c].req = job[h].req /\ c \in Issued'
              /\ ~token'[c].revoked /\ ~token'[c].expired
          BY <3>3
        <4>5. c \in Recovered(stored[d], kept[d].req)'
          BY <1>4, <3>5, <4>1, <4>2, <4>3, <4>4 DEF Recovered, Usable
        <4> QED BY <1>4, <4>1, <4>2, <4>5
      <3> QED BY <3>4, <3>5
    <2> QED
      BY <2>3, <2>4, <2>5, <2>6, <2>7, <2>8
      DEF Next, Refresh, RefreshOnce, GiveUp, SignOut, RevokeDevices, Lock, RevokeStarts, Fail,
          Reply, vars
  <1>5. CASE d \notin excused /\ stored'[d] # stored[d]
    <2>1. (SignIn(d, stored'[d]) /\ stored'[d] \in Tokens) \/ \E h \in Handlers : Received(d, h)
      BY <1>5, StoredMoves
    <2> QED BY <1>1, <1>3, <1>5, <2>1
  <1> QED BY <1>2, <1>4, <1>5

------------------------------------------------------------------------------
\* The theorems.

LEMMA InvInit == ASSUME Init PROVE Inv
  <1>1. Issued = {}
    BY DEF Init, Issued
  <1> QED BY <1>1 DEF Init, Inv, TypeOK, RowsInOrder, JobsInOrder, StoredAreOwn, Ending,
             SuccessorsUntouched, IdsAreKept, EndingsAreExcused, SessionsSurvive

LEMMA InvStep == ASSUME Inv, [Next]_vars PROVE Inv'
  BY TypeStep, RowsStep, JobsStep, StoredStep, UntouchedStep, IdsStep, EndingsStep, SessionsStep
  DEF Inv

LEMMA Invariance == Spec => []Inv
  BY InvInit, InvStep, PTL DEF Spec

\* Every row, request and client keeps its shape: whatever a handler works on
\* or a client stores is a token that was issued.
THEOREM TypeCorrect == Spec => []TypeOK
  <1>1. Inv => TypeOK
    BY DEF Inv
  <1> QED BY <1>1, Invariance, PTL

\* rotateRefreshToken looks at the row again under its lock, so that a token is
\* spent once, whatever the number of handlers that verified it.
THEOREM Successors == Spec => []OneSuccessor
  <1>1. Inv => OneSuccessor
    BY DEF Inv, RowsInOrder, OneSuccessor
  <1> QED BY <1>1, Invariance, PTL

\* recoverRotation and rotateRefreshToken answer a request with the successor
\* this request made of the token it sent, and with no other.
THEOREM Answers == Spec => []AnswersAreOwn
  <1>1. ASSUME Inv, NEW h \in Handlers, job[h] # None, job[h].answer \in Tokens
        PROVE  LET c == token[job[h].answer]
               IN  c.parent = job[h].token /\ c.req = job[h].req /\ job[h].scope = {c.device}
    <2>1. JobInOrder(h)
      BY <1>1 DEF Inv, JobsInOrder
    <2>2. /\ job[h].kind = "refresh" /\ job[h].answer \in Issued
          /\ token[job[h].answer].parent = job[h].token /\ token[job[h].answer].req = job[h].req
          /\ job[h].token \in Issued /\ job[h].scope = {token[job[h].token].device}
      BY <1>1, <2>1 DEF JobInOrder
    <2>3. token[job[h].token].device = token[job[h].answer].device
      BY <1>1, <2>2, NoneAssumption DEF Inv, RowsInOrder, Issued
    <2> QED BY <2>2, <2>3
  <1>2. Inv => AnswersAreOwn
    BY <1>1 DEF AnswersAreOwn
  <1> QED BY <1>2, Invariance, PTL

\* A client that keeps its request id keeps its session, whatever is lost,
\* repeated or fails.
THEOREM Sessions == Spec => []SessionsSurvive
  <1>1. Inv => SessionsSurvive
    BY DEF Inv
  <1> QED BY <1>1, Invariance, PTL

\* A client takes an answer only for the token it still holds.
THEOREM LateAnswers == Spec => LateAnswersAreDropped
  <1>1. ASSUME Inv, [Next]_vars, NEW d \in Devices, stored'[d] \notin {None, stored[d]}
        PROVE  \/ token[stored'[d]] = None
               \/ stored[d] # None /\ token[stored'[d]].parent = stored[d]
    BY <1>1, StoredMoves, SignedIn DEF Inv, Received
  <1>2. Inv /\ [Next]_vars =>
            [\A d \in Devices : stored'[d] \notin {None, stored[d]} =>
                \/ token[stored'[d]] = None
                \/ stored[d] # None /\ token[stored'[d]].parent = stored[d]]_vars
    BY <1>1
  <1> QED BY <1>2, Invariance, PTL DEF Spec, LateAnswersAreDropped

==============================================================================
