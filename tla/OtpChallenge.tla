----------------------------- MODULE OtpChallenge -----------------------------
(* One-time codes for one identifier and purpose: src/auth/src/services/       *)
(* otpService.js, the resend marker of middleware/rateLimitMiddleware.js in    *)
(* services/authAbuseStore.js, and the request handler of routes/authRoutes.js.*)
(*                                                                             *)
(* The marker and the rows of otp_requests are two stores; every read and      *)
(* write below is a statement of its own, and requests and verifications       *)
(* overlap, stall or die between any two. Quotas per hour and day, the check   *)
(* for a marker before the claim and the admission limit only refuse requests  *)
(* and are left out. Codes of protocol 1 and 2 share the marker but not the    *)
(* scope of the other statements.                                              *)
EXTENDS Integers, FiniteSets

CONSTANTS
    Codes,         \* request ids; bounds the codes ever requested
    Requesters,    \* handlers of /request-otp at a time
    Verifiers,     \* handlers of /verify-otp at a time
    MaxAttempts,   \* MAX_OTP_ATTEMPTS, V2_MAX_ATTEMPTS
    None

ASSUME CodesAssumption == IsFiniteSet(Codes)
ASSUME MaxAttemptsAssumption == MaxAttempts \in Nat \ {0}
ASSUME VerifiersAssumption == IsFiniteSet(Verifiers)
ASSUME NoneAssumption == None \notin Codes \cup Requesters \cup Verifiers

VARIABLES
    row,         \* otp_requests
    marker,      \* the request id in the resend marker
    expired,     \* codes past expires_at, which is set before the marker is
    request,     \* what each requester does
    check,       \* what each verifier does
    delivered,   \* history: codes that reached their receiver
    wins,        \* history: successful verifications of each code
    wrong        \* history: wrong codes answered as such, per request id

codes == <<row, expired>>
history == <<delivered, wins, wrong>>
vars == <<row, marker, expired, request, check, delivered, wins, wrong>>

------------------------------------------------------------------------------

Row == [protocol: {1, 2}, seq: Nat, attempts: Nat, consumed: BOOLEAN, deleted: BOOLEAN]

ASSUME RowsAssumption == None \notin Row

Request == [code: Codes, protocol: {1, 2}, at: {"clear", "insert", "send", "discard", "unmark"}]
Check == [code: Codes, at: {"burn", "count", "consume", "unmark"}]

TypeOK ==
    /\ row \in [Codes -> Row \cup {None}]
    /\ marker \in Codes \cup {None}
    /\ expired \subseteq Codes
    /\ request \in [Requesters -> Request \cup {None}]
    /\ check \in [Verifiers -> Check \cup {None}]
    /\ delivered \subseteq Codes
    /\ wins \in [Codes -> Nat]
    /\ wrong \in [Codes -> Nat]

Stored == {c \in Codes : row[c] # None}

\* deleted = FALSE AND consumed_at IS NULL
Live(c) == c \in Stored /\ ~row[c].deleted /\ ~row[c].consumed

\* Mutant: one attempt too many.
OpenOnceMore(c) == Live(c) /\ c \notin expired /\ row[c].attempts <= MaxAttempts

\* A code that a verification would still accept.
Open(c) == Live(c) /\ c \notin expired /\ row[c].attempts < MaxAttempts

Unused == {c \in Codes \ (Stored \cup expired) :
               c # marker /\ \A q \in Requesters : request[q] # None => request[q].code # c}

Init ==
    /\ row = [c \in Codes |-> None]
    /\ marker = None
    /\ expired = {}
    /\ request = [q \in Requesters |-> None]
    /\ check = [v \in Verifiers |-> None]
    /\ delivered = {}
    /\ wins = [c \in Codes |-> 0]
    /\ wrong = [c \in Codes |-> 0]

------------------------------------------------------------------------------
\* The resend marker.

\* Mutant: whatever the marker holds goes.
ClearAny(c) == marker' = None

\* clearActiveOtp, compareDelete: only the request's own marker.
ClearMarker(c) == marker' = IF marker = c THEN None ELSE marker

\* expires_at passes, and later the marker runs out.
ExpireCode(c) ==
    /\ c \notin expired
    /\ c \in Stored \cup {marker} \/ \E q \in Requesters : request[q] # None /\ request[q].code = c
    /\ expired' = expired \cup {c}
    /\ UNCHANGED <<row, marker, request, check, history>>

ExpireMarker ==
    /\ marker \in expired
    /\ marker' = None
    /\ UNCHANGED <<codes, request, check, history>>

------------------------------------------------------------------------------
\* createOtpInternal and the request handler.

Step(q, at) == request' = [request EXCEPT ![q].at = at]
Leave(q) == request' = [request EXCEPT ![q] = None]

\* Mutant: the marker does not say whose it is.
ClaimUnnamed(q, c, protocol) ==
    /\ request[q] = None
    /\ marker = None
    /\ c \in Unused
    /\ marker' = "1"
    /\ request' = [request EXCEPT ![q] = [code |-> c, protocol |-> protocol, at |-> "clear"]]
    /\ UNCHANGED <<codes, check, history>>

\* markActiveOtp: a live marker refuses the request.
Claim(q, c, protocol) ==
    /\ request[q] = None
    /\ marker = None
    /\ c \in Unused
    /\ marker' = c
    /\ request' = [request EXCEPT ![q] = [code |-> c, protocol |-> protocol, at |-> "clear"]]
    /\ UNCHANGED <<codes, check, history>>

\* The codes of the same protocol are marked deleted.
ClearOld(q) ==
    /\ request[q] # None /\ request[q].at = "clear"
    /\ row' = [c \in Codes |-> IF c \in Stored /\ row[c].protocol = request[q].protocol
                               THEN [row[c] EXCEPT !.deleted = TRUE] ELSE row[c]]
    /\ Step(q, "insert")
    /\ UNCHANGED <<marker, expired, check, history>>

Store(q) ==
    row' = [row EXCEPT ![request[q].code] =
        [protocol |-> request[q].protocol, seq |-> Cardinality(Stored), attempts |-> 0,
         consumed |-> FALSE, deleted |-> FALSE]]

Insert(q) ==
    /\ request[q] # None /\ request[q].at = "insert"
    /\ Store(q)
    /\ Step(q, "send")
    /\ UNCHANGED <<marker, expired, check, history>>

\* The database fails one of the two writes, the second possibly after it was
\* done; the marker is cleared and the request refused.
WriteFails(q) ==
    /\ request[q] # None /\ request[q].at \in {"clear", "insert"}
    /\ \/ UNCHANGED row
       \/ request[q].at = "insert" /\ Store(q)
    /\ ClearMarker(request[q].code)
    /\ Leave(q)
    /\ UNCHANGED <<expired, check, history>>

\* The provider takes the code.
Send(q) ==
    /\ request[q] # None /\ request[q].at = "send"
    /\ delivered' = delivered \cup {request[q].code}
    /\ Leave(q)
    /\ UNCHANGED <<codes, marker, check, wins, wrong>>

\* The provider reports a failure, possibly of a code that arrives all the same.
SendFails(q) ==
    /\ request[q] # None /\ request[q].at = "send"
    /\ delivered' \in {delivered, delivered \cup {request[q].code}}
    /\ Step(q, "discard")
    /\ UNCHANGED <<codes, marker, check, wins, wrong>>

\* discardUndeliveredOtpInternal: the row first, then the marker.
Discard(q) ==
    /\ request[q] # None /\ request[q].at = "discard"
    /\ row' = [row EXCEPT ![request[q].code].deleted = @ \/ Live(request[q].code)]
    /\ Step(q, "unmark")
    /\ UNCHANGED <<marker, expired, check, history>>

Unmark(q) ==
    /\ request[q] # None /\ request[q].at = "unmark"
    /\ ClearMarker(request[q].code)
    /\ Leave(q)
    /\ UNCHANGED <<codes, check, history>>

\* The process dies, or a statement fails where nothing catches it.
RequestDies(q) ==
    /\ request[q] # None
    /\ Leave(q)
    /\ UNCHANGED <<codes, marker, check, history>>

------------------------------------------------------------------------------
\* verifyOtpInternal.

Turn(v, at) == check' = [check EXCEPT ![v].at = at]
Done(v) == check' = [check EXCEPT ![v] = None]
SetConsumed(c) == row' = [row EXCEPT ![c].consumed = @ \/ Live(c)]

\* Protocol 1 reads the newest live code, protocol 2 the one it was given.
Newest(c) == \A d \in Stored : Live(d) /\ row[d].protocol = 1 => row[d].seq <= row[c].seq

\* The row is read and the code compared with it.
Compare(v, c, matches) ==
    /\ check[v] = None
    /\ Live(c) /\ (row[c].protocol = 1 => Newest(c))
    /\ check' = [check EXCEPT ![v] =
           [code |-> c, at |-> IF ~Open(c) THEN "burn" ELSE IF matches THEN "consume" ELSE "count"]]
    /\ UNCHANGED <<codes, marker, request, history>>

\* An expired or exhausted code is consumed.
Burn(v) ==
    /\ check[v] # None /\ check[v].at = "burn"
    /\ SetConsumed(check[v].code)
    /\ Done(v)
    /\ UNCHANGED <<marker, expired, request, history>>

\* A wrong code counts, and the last one allowed consumes the row.
Count(v) ==
    LET c == check[v].code
    IN  /\ check[v] # None /\ check[v].at = "count"
        /\ wrong' = [wrong EXCEPT ![c] = @ + 1]
        /\ row' = [row EXCEPT ![c].attempts = IF Live(c) THEN @ + 1 ELSE @]
        /\ IF Live(c) /\ row'[c].attempts >= MaxAttempts THEN Turn(v, "burn") ELSE Done(v)
        /\ UNCHANGED <<marker, expired, request, delivered, wins>>

\* Mutant: the row that was read decides.
ConsumeRead(v) ==
    LET c == check[v].code
    IN  /\ check[v] # None /\ check[v].at = "consume"
        /\ row' = [row EXCEPT ![c].consumed = TRUE]
        /\ wins' = [wins EXCEPT ![c] = @ + 1]
        /\ Turn(v, "unmark")
        /\ UNCHANGED <<marker, expired, request, delivered, wrong>>

\* The conditional UPDATE lets one of the matching verifications win.
Consume(v) ==
    LET c == check[v].code
    IN  /\ check[v] # None /\ check[v].at = "consume"
        /\ \/ /\ Open(c)
              /\ SetConsumed(c)
              /\ wins' = [wins EXCEPT ![c] = @ + 1]
              /\ Turn(v, "unmark")
           \/ ~Open(c) /\ Done(v) /\ UNCHANGED <<row, wins>>
        /\ UNCHANGED <<marker, expired, request, delivered, wrong>>

UnmarkUsed(v) ==
    /\ check[v] # None /\ check[v].at = "unmark"
    /\ ClearMarker(check[v].code)
    /\ Done(v)
    /\ UNCHANGED <<codes, request, history>>

\* The process dies, or a statement fails; a marker that is not cleared runs out.
CheckDies(v) ==
    /\ check[v] # None
    /\ Done(v)
    /\ UNCHANGED <<codes, marker, request, history>>

------------------------------------------------------------------------------

Next ==
    \/ \E q \in Requesters, c \in Codes, protocol \in {1, 2} : Claim(q, c, protocol)
    \/ \E q \in Requesters : ClearOld(q) \/ Insert(q) \/ WriteFails(q) \/ Send(q)
           \/ SendFails(q) \/ Discard(q) \/ Unmark(q) \/ RequestDies(q)
    \/ \E v \in Verifiers, c \in Codes, matches \in BOOLEAN : Compare(v, c, matches)
    \/ \E v \in Verifiers : Burn(v) \/ Count(v) \/ Consume(v) \/ UnmarkUsed(v) \/ CheckDies(v)
    \/ \E c \in Codes : ExpireCode(c)
    \/ ExpireMarker

Spec == Init /\ [][Next]_vars

------------------------------------------------------------------------------
\* Properties.

\* A code signs in at most once, however many verifications match it at once.
OneWinner == \A c \in Codes : wins[c] <= 1

\* A delivered code that would still be accepted holds the resend marker: no
\* late clean-up of an earlier code, failed delivery or verification lets a
\* second code out beside it, in either protocol.
MarkerGuardsOpenCode == \A c \in delivered : Open(c) => marker = c

\* Wrong codes in flight together pass the limit by no more than their
\* number: every answered one was counted before the next could be read.
WrongCodesBounded == \A c \in Codes : wrong[c] <= MaxAttempts - 1 + Cardinality(Verifiers)

==============================================================================
