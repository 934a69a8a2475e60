-------------------------- MODULE OtpChallengeProofs --------------------------
(* Proofs about OtpChallenge: its types, that a code signs in at most once,    *)
(* that the marker guards an open code, and how many wrong codes are answered. *)
EXTENDS OtpChallenge, FiniteSetTheorems, TLAPS

\* The verifications about to count a wrong code for c.
Counting(c) == {v \in Verifiers : check[v] # None /\ check[v].code = c /\ check[v].at = "count"}

\* A request id is used by one request, and its row comes into being once.
RequestInOrder(q) ==
    /\ \A p \in Requesters : request[p] # None /\ request[p].code = request[q].code => p = q
    /\ request[q].at \in {"clear", "insert"} <=> request[q].code \notin Stored
    /\ request[q].at = "unmark" => ~Live(request[q].code)

RequestsApart == \A q \in Requesters : request[q] # None => RequestInOrder(q)

\* A verification has read a row; one that clears the marker has won.
CheckHasRow(v) ==
    /\ check[v].code \in Stored
    /\ check[v].at = "unmark" => ~Live(check[v].code)

ChecksHaveRows == \A v \in Verifiers : check[v] # None => CheckHasRow(v)

DeliveredExist == delivered \subseteq Stored

WinnersAreConsumed ==
    \A c \in Codes : /\ wins[c] <= 1
                     /\ wins[c] = 1 => c \in Stored /\ row[c].consumed

Requested(c, steps) ==
    \E q \in Requesters : request[q] # None /\ request[q].code = c /\ request[q].at \in steps

Asks(c) ==
    \/ Requested(c, {"clear", "insert"})
    \/ Open(c) /\ (c \in delivered \/ Requested(c, {"send"}))

\* A request keeps its marker until its code expires or is closed.
Guarded == \A c \in Codes \ expired : Asks(c) => marker = c

\* Every answer was counted, or came when the row was closed.
Counted ==
    \A c \in Codes :
        /\ c \notin Stored => wrong[c] = 0
        /\ Live(c) => wrong[c] = row[c].attempts
        /\ wrong[c] + Cardinality(Counting(c)) <= MaxAttempts - 1 + Cardinality(Verifiers)

Inv ==
    /\ TypeOK /\ RequestsApart /\ ChecksHaveRows /\ DeliveredExist
    /\ WinnersAreConsumed /\ Guarded /\ Counted

------------------------------------------------------------------------------
\* Types.

LEMMA StoredCounts == ASSUME TypeOK PROVE Cardinality(Stored) \in Nat
  <1>1. IsFiniteSet(Stored)
    BY CodesAssumption, FS_Subset DEF Stored
  <1> QED BY <1>1, FS_CardinalityType

LEMMA StoreTypes ==
  ASSUME TypeOK, NEW q \in Requesters, request[q] # None, Store(q)
  PROVE  row' \in [Codes -> Row \cup {None}]
  BY StoredCounts DEF TypeOK, Store, Row, Request

LEMMA ConsumedTypes ==
  ASSUME TypeOK, NEW c \in Stored, SetConsumed(c)
  PROVE  row' \in [Codes -> Row \cup {None}]
  <1> DEFINE b == row[c].consumed \/ Live(c)
  <1>1. b \in BOOLEAN
    OBVIOUS
  <1>2. row' = [row EXCEPT ![c].consumed = b]
    BY DEF SetConsumed
  <1> HIDE DEF b
  <1> QED BY <1>1, <1>2 DEF TypeOK, Row, Stored

LEMMA TypeStep ==
  ASSUME TypeOK, RequestsApart, ChecksHaveRows, [Next]_vars
  PROVE  TypeOK'
  <1>1. ASSUME NEW q \in Requesters, NEW c \in Codes, NEW protocol \in {1, 2},
               Claim(q, c, protocol)
        PROVE  TypeOK'
    BY <1>1 DEF TypeOK, Claim, Request, codes, history
  <1>2. ASSUME NEW q \in Requesters, ClearOld(q) PROVE TypeOK'
    <2>1. \A r \in Row : [r EXCEPT !.deleted = TRUE] \in Row
      BY DEF Row
    <2>2. \A c \in Codes : row[c] \in Row \cup {None} /\ (c \in Stored => row[c] \in Row)
      BY DEF TypeOK, Stored
    <2>3. row' = [c \in Codes |-> IF c \in Stored /\ row[c].protocol = request[q].protocol
                                 THEN [row[c] EXCEPT !.deleted = TRUE] ELSE row[c]]
      BY <1>2 DEF ClearOld
    <2>4. row' \in [Codes -> Row \cup {None}]
      BY <2>1, <2>2, <2>3
    <2>5. request' \in [Requesters -> Request \cup {None}]
      BY <1>2 DEF ClearOld, Step, Request, TypeOK
    <2> QED BY <1>2, <2>4, <2>5 DEF TypeOK, ClearOld, history
  <1>3. ASSUME NEW q \in Requesters, Insert(q) PROVE TypeOK'
    BY <1>3, StoreTypes DEF TypeOK, Insert, Step, Request, history
  <1>4. ASSUME NEW q \in Requesters, WriteFails(q) PROVE TypeOK'
    BY <1>4, StoreTypes DEF TypeOK, WriteFails, ClearMarker, Leave, Request, history
  <1>5. ASSUME NEW q \in Requesters, Send(q) PROVE TypeOK'
    BY <1>5 DEF TypeOK, Send, Leave, Request, codes
  <1>6. ASSUME NEW q \in Requesters, SendFails(q) PROVE TypeOK'
    BY <1>6 DEF TypeOK, SendFails, Step, Request, codes
  <1>7. ASSUME NEW q \in Requesters, Discard(q) PROVE TypeOK'
    <2>1. request[q].code \in Stored
      BY <1>7 DEF Discard, RequestsApart, RequestInOrder
    <2> DEFINE c == request[q].code
               b == row[c].deleted \/ Live(c)
    <2>2. b \in BOOLEAN
      OBVIOUS
    <2>3. row' = [row EXCEPT ![c].deleted = b]
      BY <1>7 DEF Discard
    <2> HIDE DEF b
    <2>4. row' \in [Codes -> Row \cup {None}]
      BY <2>1, <2>2, <2>3 DEF TypeOK, Row, Stored
    <2> QED BY <1>7, <2>4 DEF TypeOK, Discard, Step, Request, history
  <1>8. ASSUME NEW q \in Requesters, Unmark(q) PROVE TypeOK'
    BY <1>8 DEF TypeOK, Unmark, ClearMarker, Leave, codes, history
  <1>9. ASSUME NEW q \in Requesters, RequestDies(q) PROVE TypeOK'
    BY <1>9 DEF TypeOK, RequestDies, Leave, codes, history
  <1>10. ASSUME NEW v \in Verifiers, NEW c \in Codes, NEW matches \in BOOLEAN,
                Compare(v, c, matches)
         PROVE  TypeOK'
    BY <1>10 DEF TypeOK, Compare, Check, codes, history
  <1>11. ASSUME NEW v \in Verifiers, Burn(v) PROVE TypeOK'
    <2>1. check[v] # None /\ check[v].code \in Stored
      BY <1>11 DEF Burn, ChecksHaveRows, CheckHasRow
    <2>2. row' \in [Codes -> Row \cup {None}]
      BY <1>11, <2>1, ConsumedTypes DEF Burn
    <2> QED BY <1>11, <2>2 DEF TypeOK, Burn, Done, Check, history
  <1>12. ASSUME NEW v \in Verifiers, Count(v) PROVE TypeOK'
    <2>1. check[v] # None /\ check[v].code \in Stored
      BY <1>12 DEF Count, ChecksHaveRows, CheckHasRow
    <2>2. row' \in [Codes -> Row \cup {None}]
      BY <1>12, <2>1 DEF TypeOK, Count, Check, Row, Stored
    <2> QED BY <1>12, <2>2 DEF TypeOK, Count, Turn, Done, Check, history
  <1>13. ASSUME NEW v \in Verifiers, Consume(v) PROVE TypeOK'
    <2>1. check[v] # None /\ check[v].code \in Stored
      BY <1>13 DEF Consume, ChecksHaveRows, CheckHasRow
    <2>2. row' \in [Codes -> Row \cup {None}]
      BY <1>13, <2>1, ConsumedTypes DEF TypeOK, Consume
    <2> QED BY <1>13, <2>2 DEF TypeOK, Consume, Turn, Done, Check
  <1>14. ASSUME NEW v \in Verifiers, UnmarkUsed(v) PROVE TypeOK'
    BY <1>14 DEF TypeOK, UnmarkUsed, ClearMarker, Done, codes, history
  <1>15. ASSUME NEW v \in Verifiers, CheckDies(v) PROVE TypeOK'
    BY <1>15 DEF TypeOK, CheckDies, Done, codes, history
  <1>16. ASSUME NEW c \in Codes, ExpireCode(c) PROVE TypeOK'
    BY <1>16 DEF TypeOK, ExpireCode, history
  <1>17. CASE ExpireMarker
    BY <1>17 DEF TypeOK, ExpireMarker, codes, history
  <1>18. CASE UNCHANGED vars
    BY <1>18 DEF TypeOK, vars
  <1> QED BY <1>1, <1>2, <1>3, <1>4, <1>5, <1>6, <1>7, <1>8, <1>9, <1>10, <1>11,
             <1>12, <1>13, <1>14, <1>15, <1>16, <1>17, <1>18 DEF Next

------------------------------------------------------------------------------
\* What a step does to a row.

\* A row stays, what closed it stays, and only a wrong answer counts.
Closes(c) ==
    /\ row[c].consumed => row'[c].consumed
    /\ row[c].deleted => row'[c].deleted
    /\ row'[c].attempts >= row[c].attempts
    /\ wrong'[c] = wrong[c] => row'[c].attempts = row[c].attempts

LEMMA StoreCloses ==
  ASSUME TypeOK, RequestsApart, NEW q \in Requesters, request[q] # None,
         request[q].at = "insert", Store(q), NEW c \in Stored
  PROVE  row'[c] = row[c]
  BY DEF TypeOK, RequestsApart, RequestInOrder, Store, Stored

LEMMA Flags ==
  ASSUME NEW r \in Row, NEW b \in BOOLEAN
  PROVE  /\ LET s == [r EXCEPT !.deleted = b]
            IN  s # None /\ s.deleted = b /\ s.consumed = r.consumed /\ s.attempts = r.attempts
         /\ LET s == [r EXCEPT !.consumed = b]
            IN  s # None /\ s.deleted = r.deleted /\ s.consumed = b /\ s.attempts = r.attempts
  <1>1. [r EXCEPT !.deleted = b] \in Row /\ [r EXCEPT !.consumed = b] \in Row
    BY DEF Row
  <1> QED BY <1>1, RowsAssumption DEF Row

LEMMA RowsStay ==
  ASSUME TypeOK, RequestsApart, ChecksHaveRows, [Next]_vars, NEW c \in Stored
  PROVE  c \in Stored' /\ Closes(c)
  <1>0. /\ c \in Codes /\ row \in [Codes -> Row \cup {None}]
        /\ row[c] \in Row /\ row[c] # None
        /\ row[c].attempts \in Nat /\ row[c].deleted \in BOOLEAN /\ row[c].consumed \in BOOLEAN
    BY DEF TypeOK, Row, Stored
  <1>1. ASSUME row'[c] = row[c] PROVE c \in Stored' /\ Closes(c)
    BY <1>0, <1>1 DEF Stored, Closes
  <1>2. ASSUME NEW q \in Requesters, ClearOld(q) PROVE c \in Stored' /\ Closes(c)
    <2>1. row'[c] = row[c] \/ row'[c] = [row[c] EXCEPT !.deleted = TRUE]
      BY <1>0, <1>2 DEF ClearOld
    <2>2. CASE row'[c] = [row[c] EXCEPT !.deleted = TRUE]
      <3>1. /\ row'[c] # None /\ row'[c].deleted = TRUE
            /\ row'[c].consumed = row[c].consumed /\ row'[c].attempts = row[c].attempts
        <4>1. row'[c] \in Row
          BY <1>0, <2>2 DEF Row
        <4> QED BY <1>0, <2>2, <4>1, RowsAssumption DEF Row
      <3> QED BY <1>0, <3>1 DEF Stored, Closes
    <2> QED BY <1>1, <2>1, <2>2
  <1>3. ASSUME NEW q \in Requesters, Insert(q) \/ WriteFails(q) PROVE c \in Stored' /\ Closes(c)
    BY <1>1, <1>3, StoreCloses DEF Insert, WriteFails
  <1>4. ASSUME NEW q \in Requesters, Discard(q) PROVE c \in Stored' /\ Closes(c)
    <2>1. CASE request[q].code # c
      <3> DEFINE d == request[q].code
                 b == row[d].deleted \/ Live(d)
      <3>1. row' = [row EXCEPT ![d].deleted = b] /\ d # c
        BY <1>4, <2>1 DEF Discard
      <3> HIDE DEF b, d
      <3>2. row'[c] = row[c]
        BY <1>0, <3>1
      <3> QED BY <1>1, <3>2
    <2>2. CASE request[q].code = c
      <3> DEFINE b == row[c].deleted \/ Live(c)
      <3>1. b \in BOOLEAN /\ (row[c].deleted => b)
        OBVIOUS
      <3>2. row'[c] = [row[c] EXCEPT !.deleted = b]
        BY <1>0, <1>4, <2>2 DEF Discard
      <3> HIDE DEF b
      <3>3. /\ row'[c] # None /\ row'[c].deleted = b
            /\ row'[c].consumed = row[c].consumed /\ row'[c].attempts = row[c].attempts
        BY <1>0, <3>1, <3>2, Flags
      <3> QED BY <1>0, <3>1, <3>3 DEF Stored, Closes
    <2> QED BY <2>1, <2>2
  <1>5. ASSUME NEW d \in Codes, SetConsumed(d) PROVE c \in Stored' /\ Closes(c)
    <2>1. CASE d # c
      BY <1>0, <1>1, <1>5, <2>1 DEF SetConsumed
    <2>2. CASE d = c
      <3> DEFINE b == row[c].consumed \/ Live(c)
      <3>1. b \in BOOLEAN /\ (row[c].consumed => b)
        OBVIOUS
      <3>2. row'[c] = [row[c] EXCEPT !.consumed = b]
        BY <1>0, <1>5, <2>2 DEF SetConsumed
      <3> HIDE DEF b
      <3>3. /\ row'[c] # None /\ row'[c].deleted = row[c].deleted
            /\ row'[c].consumed = b /\ row'[c].attempts = row[c].attempts
        BY <1>0, <3>1, <3>2, Flags
      <3> QED BY <1>0, <3>1, <3>3 DEF Stored, Closes
    <2> QED BY <2>1, <2>2
  <1>6. ASSUME NEW v \in Verifiers, Burn(v) \/ Consume(v) PROVE c \in Stored' /\ Closes(c)
    <2>1. check[v] # None => check[v].code \in Codes
      BY DEF ChecksHaveRows, CheckHasRow, Stored
    <2> QED BY <1>1, <1>5, <1>6, <2>1 DEF Burn, Consume
  <1>7. ASSUME NEW v \in Verifiers, Count(v) PROVE c \in Stored' /\ Closes(c)
    BY <1>0, <1>7, RowsAssumption DEF Count, TypeOK, Row, Stored, Closes
  <1>8. ASSUME UNCHANGED row PROVE c \in Stored' /\ Closes(c)
    BY <1>1, <1>8
  <1> QED
    BY <1>2, <1>3, <1>4, <1>5, <1>6, <1>7, <1>8
    DEF Next, Claim, Send, SendFails, Unmark, RequestDies, Compare, UnmarkUsed, CheckDies,
        ExpireCode, ExpireMarker, codes, vars

\* A closed row does not open again.
LEMMA LiveDecays ==
  ASSUME TypeOK, RequestsApart, ChecksHaveRows, [Next]_vars, NEW c \in Stored
  PROVE  Live(c)' => Live(c)
  <1>1. c \in Stored' /\ Closes(c)
    BY RowsStay
  <1> QED BY <1>1 DEF Closes, Live

\* Rows come only from the request whose turn it is.
LEMMA RowsCome ==
  ASSUME TypeOK, RequestsApart, ChecksHaveRows, [Next]_vars, NEW c \in Stored', c \notin Stored
  PROVE  \E q \in Requesters :
             /\ request[q] # None /\ request[q].code = c /\ request[q].at = "insert"
             /\ Store(q) /\ (Insert(q) \/ WriteFails(q))
  <1>0. c \in Codes /\ row[c] = None /\ row'[c] # None /\ row \in [Codes -> Row \cup {None}]
    BY DEF Stored, TypeOK
  <1>1. ASSUME NEW q \in Requesters, ClearOld(q) PROVE FALSE
    BY <1>0, <1>1 DEF ClearOld, Stored
  <1>2. ASSUME NEW q \in Requesters, Insert(q) \/ WriteFails(q)
        PROVE  request[q] # None /\ request[q].code = c /\ request[q].at = "insert" /\ Store(q)
    BY <1>0, <1>2 DEF Insert, WriteFails, Store
  <1>3. ASSUME NEW q \in Requesters, Discard(q) PROVE FALSE
    <2> DEFINE d == request[q].code
               b == row[d].deleted \/ Live(d)
    <2>1. row' = [row EXCEPT ![d].deleted = b] /\ d \in Stored
      BY <1>3 DEF Discard, RequestsApart, RequestInOrder
    <2> HIDE DEF b, d
    <2> QED BY <1>0, <2>1
  <1>4. ASSUME NEW d \in Stored, SetConsumed(d) PROVE FALSE
    <2> DEFINE b == row[d].consumed \/ Live(d)
    <2>1. row' = [row EXCEPT ![d].consumed = b]
      BY <1>4 DEF SetConsumed
    <2> HIDE DEF b
    <2> QED BY <1>0, <2>1
  <1>5. ASSUME NEW v \in Verifiers, Burn(v) \/ Consume(v) PROVE FALSE
    <2>1. check[v] # None /\ check[v].code \in Stored
      BY <1>5 DEF Burn, Consume, ChecksHaveRows, CheckHasRow
    <2> QED BY <1>0, <1>4, <1>5, <2>1 DEF Burn, Consume
  <1>6. ASSUME NEW v \in Verifiers, Count(v) PROVE FALSE
    <2>1. check[v] # None /\ check[v].code \in Stored
      BY <1>6 DEF Count, ChecksHaveRows, CheckHasRow
    <2> QED BY <1>0, <1>6, <2>1 DEF Count
  <1>7. ~UNCHANGED row
    BY <1>0
  <1> QED
    BY <1>1, <1>2, <1>3, <1>5, <1>6, <1>7
    DEF Next, Claim, Send, SendFails, Unmark, RequestDies, Compare, UnmarkUsed, CheckDies,
        ExpireCode, ExpireMarker, codes, vars

------------------------------------------------------------------------------
\* Each part of the invariant.

LEMMA DeliveredStep ==
  ASSUME TypeOK, RequestsApart, ChecksHaveRows, DeliveredExist, [Next]_vars
  PROVE  DeliveredExist'
  <1>1. Stored \subseteq Stored'
    BY RowsStay
  <1>2. ASSUME NEW q \in Requesters, Send(q) \/ SendFails(q)
        PROVE  delivered' \subseteq Stored
    <2>1. request[q].code \in Stored
      BY <1>2 DEF Send, SendFails, RequestsApart, RequestInOrder
    <2> QED BY <1>2, <2>1 DEF Send, SendFails, DeliveredExist
  <1>3. delivered' \subseteq Stored
    BY <1>2 DEF DeliveredExist, Next, Claim, ClearOld, Insert, WriteFails, Discard, Unmark,
        RequestDies, Compare, Burn, Count, Consume, UnmarkUsed, CheckDies, ExpireCode,
        ExpireMarker, history, vars
  <1> QED BY <1>1, <1>3 DEF DeliveredExist

LEMMA ChecksStep ==
  ASSUME TypeOK, RequestsApart, ChecksHaveRows, [Next]_vars
  PROVE  ChecksHaveRows'
  <1> SUFFICES ASSUME NEW v \in Verifiers, check'[v] # None
               PROVE  CheckHasRow(v)'
    BY DEF ChecksHaveRows
  <1>1. ASSUME check[v] # None, check'[v].code = check[v].code,
               check'[v].at = "unmark" => check[v].at = "unmark"
        PROVE  CheckHasRow(v)'
    <2>1. PICK c \in Stored : c = check[v].code /\ (check[v].at = "unmark" => ~Live(c))
      BY <1>1 DEF ChecksHaveRows, CheckHasRow
    <2>2. c \in Stored' /\ (Live(c)' => Live(c))
      BY <2>1, RowsStay, LiveDecays
    <2> QED BY <1>1, <2>1, <2>2 DEF CheckHasRow, Live
  <1>2. CASE check'[v] = check[v]
    BY <1>1, <1>2
  <1>3. ASSUME NEW w \in Verifiers, NEW c \in Codes, NEW matches \in BOOLEAN,
               Compare(w, c, matches), check'[v] # check[v]
        PROVE  CheckHasRow(v)'
    <2>1. v = w /\ check'[v].code = c /\ check'[v].at # "unmark"
      BY <1>3 DEF Compare, TypeOK
    <2>2. c \in Stored
      BY <1>3 DEF Compare, Live
    <2>3. c \in Stored'
      BY <2>2, RowsStay
    <2> QED BY <2>1, <2>3 DEF CheckHasRow
  <1>4. ASSUME NEW w \in Verifiers, Count(w), check'[v] # check[v]
        PROVE  CheckHasRow(v)'
    <2>1. CASE Turn(w, "burn")
      <3>1. v = w
        BY <1>4, <2>1 DEF Turn, TypeOK
      <3>2. check[v] # None /\ check[v] \in Check /\ check'[v] = [check[v] EXCEPT !.at = "burn"]
        BY <1>4, <2>1, <3>1 DEF Count, Turn, TypeOK
      <3> QED BY <1>1, <3>2 DEF Check
    <2>2. CASE Done(w)
      BY <1>4, <2>2 DEF Done, TypeOK
    <2> QED BY <1>4, <2>1, <2>2 DEF Count
  <1>5. ASSUME NEW w \in Verifiers, Consume(w), check'[v] # check[v]
        PROVE  CheckHasRow(v)'
    <2> DEFINE c == check[w].code
    <2>1. v = w /\ check[v] # None /\ Open(c) /\ SetConsumed(c) /\ check'[v].code = c
      BY <1>5 DEF Consume, Turn, Done, TypeOK, Check
    <2>2. c \in Stored
      BY <2>1 DEF Open, Live
    <2>3. row' = [row EXCEPT ![c].consumed = TRUE]
      BY <2>1 DEF SetConsumed, Open
    <2>4. row'[c].consumed
      BY <2>2, <2>3 DEF TypeOK, Row, Stored
    <2>5. c \in Stored'
      BY <2>2, RowsStay
    <2> QED BY <2>1, <2>4, <2>5 DEF CheckHasRow, Live
  <1> QED
    BY <1>2, <1>3, <1>4, <1>5
    DEF Next, Claim, ClearOld, Insert, WriteFails, Send, SendFails, Discard, Unmark, RequestDies,
        Burn, UnmarkUsed, CheckDies, Done, ExpireCode, ExpireMarker, TypeOK, vars

\* Only the request whose turn it is stores its row.
LEMMA OthersRows ==
  ASSUME TypeOK, RequestsApart, ChecksHaveRows, [Next]_vars, NEW q \in Requesters,
         request[q] # None, NEW c \in Codes, c = request[q].code,
         ~(request[q].at = "insert" /\ (Insert(q) \/ WriteFails(q)))
  PROVE  (c \in Stored' <=> c \in Stored) /\ (Live(c)' => Live(c))
  <1>1. c \in Stored => c \in Stored'
    BY RowsStay
  <1>2. ASSUME c \in Stored', c \notin Stored PROVE FALSE
    <2>1. PICK p \in Requesters :
              /\ request[p] # None /\ request[p].code = c /\ request[p].at = "insert"
              /\ Insert(p) \/ WriteFails(p)
      BY <1>2, RowsCome
    <2>2. p = q
      BY <2>1 DEF RequestsApart, RequestInOrder
    <2> QED BY <2>1, <2>2
  <1>3. c \notin Stored' => ~Live(c)'
    BY DEF Live
  <1> QED BY <1>1, <1>2, <1>3, LiveDecays

LEMMA RequestsStep ==
  ASSUME TypeOK, RequestsApart, ChecksHaveRows, [Next]_vars
  PROVE  RequestsApart'
  <1> SUFFICES ASSUME NEW q \in Requesters, request'[q] # None PROVE RequestInOrder(q)'
    BY DEF RequestsApart
  <1> DEFINE Stays(p) == request'[p] # None => request[p] # None /\ request'[p].code = request[p].code
  <1>1. ASSUME \A p \in Requesters : Stays(p),
               ~(request[q].at = "insert" /\ (Insert(q) \/ WriteFails(q))),
               request'[q].at \in {"clear", "insert"} <=> request[q].at \in {"clear", "insert"},
               request'[q].at = "unmark" => request[q].at = "unmark"
        PROVE  RequestInOrder(q)'
    <2>1. PICK c \in Codes : c = request[q].code
      BY <1>1 DEF TypeOK, Request
    <2>2. (c \in Stored' <=> c \in Stored) /\ (Live(c)' => Live(c))
      BY <1>1, <2>1, OthersRows
    <2> QED BY <1>1, <2>1, <2>2 DEF RequestsApart, RequestInOrder, Live
  <1>2. ASSUME NEW q0 \in Requesters, NEW c \in Codes, NEW protocol \in {1, 2},
               Claim(q0, c, protocol)
        PROVE  RequestInOrder(q)'
    <2>1. /\ request[q0] = None /\ c \notin Stored /\ UNCHANGED row
          /\ \A p \in Requesters : request[p] # None => request[p].code # c
          /\ request' = [request EXCEPT ![q0] = [code |-> c, protocol |-> protocol, at |-> "clear"]]
      BY <1>2 DEF Claim, Unused, codes
    <2>2. CASE q = q0
      BY <2>1, <2>2 DEF TypeOK, RequestInOrder, Stored
    <2>3. CASE q # q0
      <3>1. request'[q] = request[q] /\ RequestInOrder(q)
        BY <2>1, <2>3 DEF TypeOK, RequestsApart
      <3> QED BY <2>1, <2>3, <3>1 DEF TypeOK, RequestInOrder, Stored, Live
    <2> QED BY <2>2, <2>3
  <1>3. ASSUME NEW q0 \in Requesters, Insert(q0) PROVE RequestInOrder(q)'
    <2>1. request[q0] # None /\ request[q0] \in Request /\ request[q0].at = "insert"
          /\ Store(q0) /\ request' = [request EXCEPT ![q0] = [request[q0] EXCEPT !.at = "send"]]
      BY <1>3 DEF Insert, Step, TypeOK
    <2>2. \A p \in Requesters : Stays(p)
      BY <2>1 DEF TypeOK, Request
    <2>3. CASE q # q0
      <3>1. request'[q] = request[q] /\ request[q] # None
        BY <2>1, <2>3 DEF TypeOK
      <3>2. ~(Insert(q) \/ WriteFails(q))
        BY <2>1, <2>3, <3>1 DEF Insert, WriteFails, Step, Leave, TypeOK, Request
      <3> QED BY <1>1, <2>2, <3>1, <3>2
    <2>4. CASE q = q0
      <3>1. PICK c \in Codes : c = request[q].code
        BY <2>1, <2>4 DEF Request
      <3>2. request'[q].code = c /\ request'[q].at = "send"
        BY <2>1, <2>4, <3>1 DEF TypeOK, Request
      <3>3. row'[c] \in Row
        BY <2>1, <2>4, <3>1, StoredCounts DEF Store, TypeOK, Row, Request
      <3>4. c \in Stored'
        BY <3>3, RowsAssumption DEF Stored
      <3>5. \A p \in Requesters : request'[p] # None /\ request'[p].code = c => p = q
        BY <2>1, <2>2, <2>4, <3>1 DEF RequestsApart, RequestInOrder
      <3> QED BY <3>2, <3>4, <3>5 DEF RequestInOrder
    <2> QED BY <2>3, <2>4
  <1>4. ASSUME NEW q0 \in Requesters, Discard(q0) PROVE RequestInOrder(q)'
    <2>1. request[q0] # None /\ request[q0] \in Request /\ request[q0].at = "discard"
          /\ request' = [request EXCEPT ![q0] = [request[q0] EXCEPT !.at = "unmark"]]
      BY <1>4 DEF Discard, Step, TypeOK
    <2>2. \A p \in Requesters : Stays(p)
      BY <2>1 DEF TypeOK, Request
    <2>3. CASE q # q0
      <3>1. request'[q] = request[q] /\ request[q] # None
        BY <2>1, <2>3 DEF TypeOK
      <3>2. ~(Insert(q) \/ WriteFails(q))
        BY <2>1, <2>3, <3>1 DEF Insert, WriteFails, Step, Leave, TypeOK, Request
      <3> QED BY <1>1, <2>2, <3>1, <3>2
    <2>4. CASE q = q0
      <3>1. PICK c \in Codes : c = request[q].code
        BY <2>1, <2>4 DEF Request
      <3>2. request'[q].code = c /\ request'[q].at = "unmark" /\ c \in Stored
        BY <2>1, <2>4, <3>1 DEF TypeOK, Request, RequestsApart, RequestInOrder
      <3> DEFINE b == row[c].deleted \/ Live(c)
      <3>3. b \in BOOLEAN /\ (b \/ row[c].consumed)
        BY <3>2 DEF Live
      <3>put. row' = [row EXCEPT ![c].deleted = b]
        BY <1>4, <2>4, <3>1 DEF Discard
      <3> HIDE DEF b
      <3>4. row[c] \in Row /\ row'[c] = [row[c] EXCEPT !.deleted = b]
        BY <3>2, <3>put DEF TypeOK, Stored
      <3>5. row'[c].deleted = b /\ row'[c].consumed = row[c].consumed
        BY <3>3, <3>4, Flags
      <3>6. ~Live(c)'
        BY <3>3, <3>5 DEF Live
      <3>7. c \in Stored'
        BY <3>2, RowsStay
      <3>8. \A p \in Requesters : request'[p] # None /\ request'[p].code = c => p = q
        BY <2>1, <2>2, <2>4, <3>1 DEF RequestsApart, RequestInOrder
      <3> QED BY <3>2, <3>6, <3>7, <3>8 DEF RequestInOrder, Live
    <2> QED BY <2>3, <2>4
  <1>5. ASSUME NEW q0 \in Requesters, request[q0] # None,
               ClearOld(q0) \/ SendFails(q0)
        PROVE  RequestInOrder(q)'
    <2>1. PICK at \in {"insert", "discard"} :
              /\ request' = [request EXCEPT ![q0] = [request[q0] EXCEPT !.at = at]]
              /\ request[q0].at = IF at = "insert" THEN "clear" ELSE "send"
              /\ request[q0] # None /\ request[q0] \in Request
      BY <1>5 DEF ClearOld, SendFails, Step, TypeOK
    <2>2. \A p \in Requesters : Stays(p)
      BY <2>1 DEF TypeOK, Request
    <2>3. /\ request'[q].at \in {"clear", "insert"} <=> request[q].at \in {"clear", "insert"}
          /\ request'[q].at = "unmark" => request[q].at = "unmark"
      BY <2>1, <1>5 DEF TypeOK, Request
    <2>4. ~(request[q].at = "insert" /\ (Insert(q) \/ WriteFails(q)))
      <3>1. CASE q = q0
        BY <2>1, <3>1
      <3>2. CASE q # q0
        <4>1. request'[q] = request[q] /\ request[q] # None
          BY <2>1, <3>2 DEF TypeOK
        <4> QED BY <4>1 DEF Insert, WriteFails, Step, Leave, TypeOK, Request
      <3> QED BY <3>1, <3>2
    <2> QED BY <1>1, <2>2, <2>3, <2>4
  <1>6. ASSUME NEW q0 \in Requesters, Leave(q0) PROVE RequestInOrder(q)'
    <2>1. q # q0 /\ request'[q] = request[q] /\ \A p \in Requesters : Stays(p)
      BY <1>6 DEF Leave, TypeOK
    <2>2. ~(Insert(q) \/ WriteFails(q))
      BY <1>6, <2>1 DEF Insert, WriteFails, Step, Leave, TypeOK, Request
    <2> QED BY <1>1, <2>1, <2>2
  <1>7. CASE UNCHANGED request
    <2>1. ~(request[q].at = "insert" /\ (Insert(q) \/ WriteFails(q)))
      BY <1>7 DEF Insert, WriteFails, Step, Leave, TypeOK, Request
    <2> QED BY <1>1, <1>7, <2>1
  <1> QED
    BY <1>2, <1>3, <1>4, <1>5, <1>6, <1>7
    DEF Next, WriteFails, Send, Unmark, RequestDies, ClearOld, SendFails, Compare, Burn, Count,
        Consume, UnmarkUsed, CheckDies, ExpireCode, ExpireMarker, vars

LEMMA WinnersStep ==
  ASSUME TypeOK, RequestsApart, ChecksHaveRows, WinnersAreConsumed, [Next]_vars
  PROVE  WinnersAreConsumed'
  <1> SUFFICES ASSUME NEW c \in Codes
               PROVE  wins'[c] <= 1 /\ (wins'[c] = 1 => c \in Stored' /\ row'[c].consumed)
    BY DEF WinnersAreConsumed
  <1>1. CASE wins'[c] = wins[c]
    BY <1>1, RowsStay DEF WinnersAreConsumed, Closes
  <1>2. ASSUME NEW v \in Verifiers, Consume(v), wins'[c] # wins[c]
        PROVE  wins'[c] <= 1 /\ (wins'[c] = 1 => c \in Stored' /\ row'[c].consumed)
    <2>1. /\ check[v] # None /\ check[v].code = c /\ Open(c) /\ SetConsumed(c)
          /\ wins'[c] = wins[c] + 1
      BY <1>2 DEF Consume, TypeOK, Check
    <2>2. c \in Stored /\ ~row[c].consumed
      BY <2>1 DEF Open, Live
    <2>3. wins[c] = 0
      BY <2>2 DEF WinnersAreConsumed, TypeOK
    <2>4. row' = [row EXCEPT ![c].consumed = TRUE]
      BY <2>1 DEF SetConsumed, Open
    <2>5. row'[c].consumed
      BY <2>2, <2>4 DEF TypeOK, Row, Stored
    <2> QED BY <2>1, <2>2, <2>3, <2>5, RowsStay
  <1> QED
    BY <1>1, <1>2
    DEF Next, Claim, ClearOld, Insert, WriteFails, Send, SendFails, Discard, Unmark, RequestDies,
        Compare, Burn, Count, UnmarkUsed, CheckDies, ExpireCode, ExpireMarker, history, vars

LEMMA OpenDecays ==
  ASSUME TypeOK, RequestsApart, ChecksHaveRows, [Next]_vars, NEW c \in Stored
  PROVE  Open(c)' => Open(c)
  <1>1. Live(c)' => Live(c)
    BY LiveDecays
  <1>2. row'[c].attempts >= row[c].attempts /\ row[c].attempts \in Nat /\ row'[c].attempts \in Nat
    <2>1. TypeOK'
      BY TypeStep
    <2> QED BY <2>1, RowsStay DEF Closes, TypeOK, Row, Stored
  <1>3. expired \subseteq expired'
    BY DEF Next, Claim, ClearOld, Insert, WriteFails, Send, SendFails, Discard, Unmark,
        RequestDies, Compare, Burn, Count, Consume, UnmarkUsed, CheckDies, ExpireCode,
        ExpireMarker, codes, vars
  <1> QED BY <1>1, <1>2, <1>3, MaxAttemptsAssumption DEF Open

LEMMA GuardedStep ==
  ASSUME TypeOK, RequestsApart, ChecksHaveRows, DeliveredExist, Guarded, [Next]_vars
  PROVE  Guarded'
  <1> SUFFICES ASSUME NEW c \in Codes, c \notin expired', Asks(c)' PROVE marker' = c
    BY DEF Guarded
  <1>0. c \notin expired
    BY DEF Next, Claim, ClearOld, Insert, WriteFails, Send, SendFails, Discard, Unmark,
        RequestDies, Compare, Burn, Count, Consume, UnmarkUsed, CheckDies, ExpireCode,
        ExpireMarker, codes, vars
  <1>1. Asks(c) => marker = c
    BY <1>0 DEF Guarded
  <1>2. ASSUME c \in Stored, Open(c)', Open(c) => Asks(c) PROVE Asks(c)
    BY <1>2, OpenDecays
  <1> DEFINE Came(q) == request'[q] # None /\ request'[q].code = c =>
                 /\ request[q] # None /\ request[q].code = c
                 /\ request'[q].at \in {"clear", "insert"} => request[q].at \in {"clear", "insert"}
                 /\ request'[q].at = "send" => request[q].at = "send"
  <1>3. ASSUME \A q \in Requesters : Came(q), c \in delivered' => c \in delivered
        PROVE  Asks(c)
    <2>1. CASE Requested(c, {"clear", "insert"})'
      BY <1>3, <2>1 DEF Asks, Requested
    <2>2. CASE Open(c)' /\ c \in delivered'
      BY <1>2, <1>3, <2>2 DEF Asks, DeliveredExist
    <2>3. CASE Open(c)' /\ Requested(c, {"send"})'
      <3>1. Requested(c, {"send"})
        BY <1>3, <2>3 DEF Requested
      <3>2. c \in Stored
        BY <3>1 DEF Requested, RequestsApart, RequestInOrder
      <3> QED BY <1>2, <2>3, <3>1, <3>2 DEF Asks
    <2> QED BY <2>1, <2>2, <2>3 DEF Asks
  <1>4. ASSUME NEW q \in Requesters, NEW d \in Codes, NEW protocol \in {1, 2},
               Claim(q, d, protocol)
        PROVE  marker' = c
    <2>1. CASE c = d
      BY <1>4, <2>1 DEF Claim
    <2>2. CASE c # d
      <3>1. \A p \in Requesters : Came(p)
        BY <1>4, <2>2 DEF Claim, TypeOK
      <3>2. marker = c
        BY <1>1, <1>3, <1>4, <3>1 DEF Claim, history
      <3> QED BY <1>4, <3>2, NoneAssumption DEF Claim
    <2> QED BY <2>1, <2>2
  <1>5. ASSUME NEW q \in Requesters, ClearOld(q) \/ Discard(q) PROVE marker' = c
    <2>1. \A p \in Requesters : Came(p)
      BY <1>5 DEF ClearOld, Discard, Step, TypeOK, Request
    <2> QED BY <1>1, <1>3, <1>5, <2>1 DEF ClearOld, Discard, history
  <1>6. ASSUME NEW q \in Requesters, Insert(q) PROVE marker' = c
    <2>1. CASE request[q].code = c
      BY <1>1, <1>6, <2>1 DEF Insert, Asks, Requested
    <2>2. CASE request[q].code # c
      <3>1. \A p \in Requesters : Came(p)
        BY <1>6, <2>2 DEF Insert, Step, TypeOK, Request
      <3> QED BY <1>1, <1>3, <1>6, <3>1 DEF Insert, history
    <2> QED BY <2>1, <2>2
  <1>7. ASSUME NEW q \in Requesters, WriteFails(q) \/ Unmark(q) \/ RequestDies(q) PROVE marker' = c
    <2>1. /\ \A p \in Requesters : Came(p)
          /\ request'[q] = None /\ delivered' = delivered /\ request[q] # None
      BY <1>7 DEF WriteFails, Unmark, RequestDies, Leave, TypeOK, history
    <2>2. Asks(c) /\ marker = c
      BY <1>1, <1>3, <2>1
    <2>3. CASE marker' = marker
      BY <2>2, <2>3
    <2>4. CASE request[q].code = c /\ request[q].at \in {"clear", "insert"}
      <3>1. ~Requested(c, {"clear", "insert"})' /\ ~Requested(c, {"send"})'
        BY <1>7, <2>1, <2>4 DEF Requested, RequestsApart, RequestInOrder, WriteFails, Unmark,
           RequestDies, Leave, TypeOK
      <3>2. c \notin delivered
        BY <2>1, <2>4 DEF RequestsApart, RequestInOrder, DeliveredExist
      <3> QED BY <2>1, <3>1, <3>2 DEF Asks
    <2>5. CASE request[q].code = c /\ request[q].at = "unmark"
      <3>1. ~Live(c) /\ c \in Stored
        BY <2>1, <2>5 DEF RequestsApart, RequestInOrder
      <3>2. ~Requested(c, {"clear", "insert"})
        BY <3>1 DEF Requested, RequestsApart, RequestInOrder
      <3> QED BY <2>2, <3>1, <3>2 DEF Asks, Open
    <2> QED BY <1>7, <2>2, <2>3, <2>4, <2>5 DEF WriteFails, Unmark, RequestDies, ClearMarker
  <1>8. ASSUME NEW q \in Requesters, Send(q) \/ SendFails(q) PROVE marker' = c
    <2>1. CASE request[q].code = c
      <3>1. c \in Stored /\ Requested(c, {"send"})
        BY <1>8, <2>1 DEF Send, SendFails, RequestsApart, RequestInOrder, Requested
      <3>2. ~Requested(c, {"clear", "insert"})'
        BY <1>8, <2>1 DEF Send, SendFails, Requested, RequestsApart, RequestInOrder, Step, Leave,
           TypeOK, Request
      <3>3. Open(c)'
        BY <3>2 DEF Asks
      <3> QED BY <1>1, <1>2, <1>8, <3>1, <3>3 DEF Asks, Send, SendFails
    <2>2. CASE request[q].code # c
      <3>1. \A p \in Requesters : Came(p)
        BY <1>8, <2>2 DEF Send, SendFails, Step, Leave, TypeOK, Request
      <3> QED BY <1>1, <1>3, <1>8, <2>2, <3>1 DEF Send, SendFails
    <2> QED BY <2>1, <2>2
  <1>9. ASSUME UNCHANGED <<request, delivered>> PROVE Asks(c) /\ marker = c
    BY <1>1, <1>3, <1>9
  <1>10. ASSUME NEW v \in Verifiers, UnmarkUsed(v) PROVE marker' = c
    <2>1. Asks(c) /\ marker = c
      BY <1>9, <1>10 DEF UnmarkUsed, history
    <2>2. CASE check[v].code = c
      <3>1. ~Live(c) /\ c \in Stored
        BY <1>10, <2>2 DEF UnmarkUsed, ChecksHaveRows, CheckHasRow
      <3>2. ~Requested(c, {"clear", "insert"})
        BY <3>1 DEF Requested, RequestsApart, RequestInOrder
      <3> QED BY <2>1, <3>1, <3>2 DEF Asks, Open
    <2> QED BY <1>10, <2>1, <2>2 DEF UnmarkUsed, ClearMarker
  <1>11. CASE ExpireMarker
    BY <1>0, <1>9, <1>11 DEF ExpireMarker, history
  <1> QED
    BY <1>4, <1>5, <1>6, <1>7, <1>8, <1>9, <1>10, <1>11
    DEF Next, Compare, Burn, Count, Consume, CheckDies, ExpireCode, codes, history, vars

LEMMA VerifiersBound ==
  ASSUME NEW S \in SUBSET Verifiers
  PROVE  /\ IsFiniteSet(S) /\ Cardinality(S) \in Nat /\ Cardinality(Verifiers) \in Nat
         /\ Cardinality(S) <= Cardinality(Verifiers)
  BY VerifiersAssumption, FS_Subset, FS_CardinalityType

\* The number of attempts on an open row counts the wrong answers.
LEMMA AttemptsStep ==
  ASSUME TypeOK, RequestsApart, ChecksHaveRows, Counted, [Next]_vars, NEW c \in Codes
  PROVE  /\ c \notin Stored' => wrong'[c] = 0
         /\ Live(c)' => wrong'[c] = row'[c].attempts
  <1> DEFINE Goal == /\ c \notin Stored' => wrong'[c] = 0
                     /\ Live(c)' => wrong'[c] = row'[c].attempts
  <1>1. CASE wrong'[c] = wrong[c]
    <2>1. CASE c \in Stored
      BY <1>1, <2>1, RowsStay, LiveDecays DEF Counted, Closes
    <2>2. CASE c \notin Stored /\ c \notin Stored'
      BY <1>1, <2>2 DEF Counted, Live
    <2>3. CASE c \notin Stored /\ c \in Stored'
      <3>1. PICK q \in Requesters : request[q] # None /\ request[q].code = c /\ Store(q)
        BY <2>3, RowsCome
      <3>2. row'[c].attempts = 0
        BY <3>1 DEF Store, TypeOK
      <3> QED BY <1>1, <2>3, <3>2 DEF Counted
    <2> QED BY <2>1, <2>2, <2>3
  <1>2. ASSUME NEW v \in Verifiers, Count(v), wrong'[c] # wrong[c] PROVE Goal
    <2>1. /\ check[v] # None /\ check[v].code = c /\ c \in Stored
          /\ wrong'[c] = wrong[c] + 1
          /\ row' = [row EXCEPT ![c].attempts = IF Live(c) THEN @ + 1 ELSE @]
      BY <1>2 DEF Count, TypeOK, ChecksHaveRows, CheckHasRow
    <2>2. Live(c)' => Live(c)
      BY <2>1, LiveDecays
    <2>3. Live(c) => row'[c].attempts = row[c].attempts + 1
      BY <2>1 DEF TypeOK, Stored, Row
    <2> QED BY <2>1, <2>2, <2>3, RowsStay DEF Counted
  <1>3. wrong'[c] = wrong[c] \/ \E v \in Verifiers : Count(v)
    BY DEF Next, Claim, ClearOld, Insert, WriteFails, Send, SendFails, Discard, Unmark,
        RequestDies, Compare, Burn, Consume, UnmarkUsed, CheckDies, ExpireCode, ExpireMarker,
        history, vars
  <1> QED BY <1>1, <1>2, <1>3

LEMMA AnswersStep ==
  ASSUME TypeOK, RequestsApart, ChecksHaveRows, Counted, [Next]_vars, NEW c \in Codes
  PROVE  wrong'[c] + Cardinality(Counting(c)') <= MaxAttempts - 1 + Cardinality(Verifiers)
  <1> DEFINE Old == Counting(c)
             New == Counting(c)'
  <1>1. Old \subseteq Verifiers /\ New \subseteq Verifiers
    BY DEF Counting
  <1>2. /\ IsFiniteSet(Old) /\ Cardinality(Old) \in Nat /\ Cardinality(Verifiers) \in Nat
        /\ IsFiniteSet(New) /\ Cardinality(New) \in Nat
        /\ Cardinality(New) <= Cardinality(Verifiers)
    BY <1>1, VerifiersBound
  <1>3. wrong[c] + Cardinality(Old) <= MaxAttempts - 1 + Cardinality(Verifiers)
    BY DEF Counted
  <1>4. wrong[c] \in Nat /\ MaxAttempts \in Nat
    BY MaxAttemptsAssumption DEF TypeOK
  <1>5. ASSUME wrong'[c] = wrong[c], New \subseteq Old
        PROVE  wrong'[c] + Cardinality(New) <= MaxAttempts - 1 + Cardinality(Verifiers)
    <2>1. Cardinality(New) <= Cardinality(Old)
      BY <1>2, <1>5, FS_Subset
    <2> HIDE DEF Old, New
    <2> QED BY <1>2, <1>3, <1>4, <1>5, <2>1
  <1>6. ASSUME NEW v \in Verifiers, NEW d \in Codes, NEW matches \in BOOLEAN,
               Compare(v, d, matches)
        PROVE  wrong'[c] + Cardinality(New) <= MaxAttempts - 1 + Cardinality(Verifiers)
    <2>1. wrong'[c] = wrong[c]
      BY <1>6 DEF Compare, history
    <2>2. CASE c = d /\ Open(c)
      <3>1. wrong[c] < MaxAttempts
        BY <2>2 DEF Open, Live, Counted
      <3> HIDE DEF Old, New
      <3> QED BY <1>2, <1>4, <2>1, <3>1
    <2>3. CASE ~(c = d /\ Open(c))
      <3>1. New \subseteq Old
        BY <1>6, <2>3 DEF Compare, Counting, TypeOK
      <3> QED BY <1>5, <2>1, <3>1
    <2> QED BY <2>2, <2>3
  <1>7. ASSUME NEW v \in Verifiers, Count(v)
        PROVE  wrong'[c] + Cardinality(New) <= MaxAttempts - 1 + Cardinality(Verifiers)
    <2>1. /\ check[v] # None /\ check[v] \in Check /\ check[v].at = "count"
          /\ Done(v) \/ Turn(v, "burn")
          /\ wrong' = [wrong EXCEPT ![check[v].code] = @ + 1]
      BY <1>7 DEF Count, TypeOK
    <2>2. \A w \in Verifiers : w # v => check'[w] = check[w]
      BY <2>1 DEF Done, Turn, TypeOK
    <2>3. check'[v] = None \/ check'[v].at = "burn"
      BY <2>1 DEF Done, Turn, TypeOK, Check
    <2>4. CASE check[v].code # c
      <3>1. New \subseteq Old
        BY <2>2, <2>3 DEF Counting
      <3>2. wrong'[c] = wrong[c]
        BY <2>1, <2>4 DEF TypeOK
      <3> QED BY <1>5, <3>1, <3>2
    <2>5. CASE check[v].code = c
      <3>1. v \in Old /\ New \subseteq Old \ {v}
        BY <2>1, <2>2, <2>3, <2>5 DEF Counting
      <3>2. wrong'[c] = wrong[c] + 1
        BY <2>1, <2>5 DEF TypeOK
      <3> HIDE DEF Old, New
      <3>3. IsFiniteSet(Old \ {v}) /\ Cardinality(Old \ {v}) = Cardinality(Old) - 1
        BY <1>2, <3>1, FS_RemoveElement
      <3>4. Cardinality(New) <= Cardinality(Old \ {v})
        BY <3>1, <3>3, FS_Subset
      <3> QED BY <1>2, <1>3, <1>4, <3>2, <3>3, <3>4
    <2> QED BY <2>4, <2>5
  <1>8. ASSUME NEW v \in Verifiers, Done(v), wrong'[c] = wrong[c]
        PROVE  wrong'[c] + Cardinality(New) <= MaxAttempts - 1 + Cardinality(Verifiers)
    <2>1. New \subseteq Old
      BY <1>8 DEF Counting, Done, TypeOK
    <2> QED BY <1>5, <1>8, <2>1
  <1>9. ASSUME NEW v \in Verifiers, Consume(v)
        PROVE  wrong'[c] + Cardinality(New) <= MaxAttempts - 1 + Cardinality(Verifiers)
    <2>1. CASE Turn(v, "unmark")
      <3>1. check[v] # None /\ check[v] \in Check
        BY <1>9 DEF Consume, TypeOK
      <3>2. New \subseteq Old
        BY <2>1, <3>1 DEF Counting, Turn, TypeOK, Check
      <3> QED BY <1>5, <1>9, <3>2 DEF Consume
    <2> QED BY <1>8, <1>9, <2>1 DEF Consume
  <1>10. ASSUME UNCHANGED <<check, wrong>>
         PROVE  wrong'[c] + Cardinality(New) <= MaxAttempts - 1 + Cardinality(Verifiers)
    BY <1>5, <1>10 DEF Counting
  <1> QED
    BY <1>6, <1>7, <1>8, <1>9, <1>10
    DEF Next, Claim, ClearOld, Insert, WriteFails, Send, SendFails, Discard, Unmark,
        RequestDies, Burn, UnmarkUsed, CheckDies, ExpireCode, ExpireMarker,
        history, vars

LEMMA CountedStep ==
  ASSUME TypeOK, RequestsApart, ChecksHaveRows, Counted, [Next]_vars
  PROVE  Counted'
  BY AttemptsStep, AnswersStep DEF Counted

------------------------------------------------------------------------------
\* The theorems.

LEMMA InvInit == ASSUME Init PROVE Inv
  <1>1. TypeOK /\ Stored = {}
    BY DEF Init, TypeOK, Stored
  <1>2. RequestsApart /\ ChecksHaveRows /\ DeliveredExist /\ WinnersAreConsumed
    BY DEF Init, RequestsApart, ChecksHaveRows, DeliveredExist, WinnersAreConsumed
  <1>3. Guarded
    BY <1>1 DEF Init, Guarded, Asks, Requested, Open, Live
  <1>4. Counted
    <2> SUFFICES ASSUME NEW c \in Codes
                 PROVE  wrong[c] + Cardinality(Counting(c)) <= MaxAttempts - 1 + Cardinality(Verifiers)
      BY <1>1 DEF Counted, Init, Live
    <2>1. Counting(c) = {} /\ wrong[c] = 0
      BY DEF Init, Counting
    <2>2. Cardinality(Verifiers) \in Nat
      BY VerifiersAssumption, FS_CardinalityType
    <2> QED BY <2>1, <2>2, FS_EmptySet, MaxAttemptsAssumption
  <1> QED BY <1>1, <1>2, <1>3, <1>4 DEF Inv

LEMMA InvStep == ASSUME Inv, [Next]_vars PROVE Inv'
  BY TypeStep, RequestsStep, ChecksStep, DeliveredStep, WinnersStep, GuardedStep, CountedStep
  DEF Inv

LEMMA Invariance == Spec => []Inv
  BY InvInit, InvStep, PTL DEF Spec

\* Every store keeps its shape: the handlers' records name only codes that were
\* requested, and a row is written whole before anything updates it.
THEOREM TypeCorrect == Spec => []TypeOK
  <1>1. Inv => TypeOK
    BY DEF Inv
  <1> QED BY <1>1, Invariance, PTL

\* The conditional UPDATE of verifyOtpInternal lets each code sign in at most
\* once, whatever the number of verifications that match it together.
THEOREM OneWin == Spec => []OneWinner
  <1>1. Inv => OneWinner
    BY DEF Inv, WinnersAreConsumed, OneWinner
  <1> QED BY <1>1, Invariance, PTL

\* A delivered code that would be accepted holds the resend marker, whichever
\* request or verification is late, fails or dies.
THEOREM MarkerGuards == Spec => []MarkerGuardsOpenCode
  <1>1. Inv => MarkerGuardsOpenCode
    BY DEF Inv, TypeOK, Guarded, Asks, Open, MarkerGuardsOpenCode
  <1> QED BY <1>1, Invariance, PTL

\* Wrong codes compared together pass the limit of attempts by no more than
\* their number, for any limit and any number of verifications.
THEOREM WrongBounded == Spec => []WrongCodesBounded
  <1>1. ASSUME Inv, NEW c \in Codes
        PROVE  wrong[c] <= MaxAttempts - 1 + Cardinality(Verifiers)
    <2>1. Counting(c) \in SUBSET Verifiers
      BY DEF Counting
    <2>2. Cardinality(Counting(c)) \in Nat /\ Cardinality(Verifiers) \in Nat
      BY <2>1, VerifiersBound
    <2> QED BY <1>1, <2>2, MaxAttemptsAssumption DEF Inv, TypeOK, Counted
  <1>2. Inv => WrongCodesBounded
    BY <1>1 DEF WrongCodesBounded
  <1> QED BY <1>2, Invariance, PTL

===============================================================================
